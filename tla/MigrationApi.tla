---------------------------- MODULE MigrationApi ----------------------------
(***************************************************************************)
(* A row of the table migrations as the requests of the web console see    *)
(* it: which request the server accepts on it and what the request does to *)
(* it (routes/migrations.py, orchestrator.py), and which buttons the       *)
(* console draws for it (MigrationList, MigrationRow, MigrationDetail).    *)
(* The two sides keep tables of phases of their own; what they agree on is *)
(* checked by MigrationListView and MigrationDetailView.                   *)
(***************************************************************************)
EXTENDS Naturals

Gone == "GONE"  \* the row was deleted

\* The server's tables.
ServerActive ==
  {"NEW", "PREPARING", "SCN_FIXED", "CONNECTOR_STARTING", "CDC_BUFFERING", "TOPIC_CREATING",
   "CHUNKING", "BULK_LOADING", "BULK_LOADED", "STAGE_VALIDATING", "STAGE_VALIDATED",
   "BASELINE_PUBLISHING", "BASELINE_LOADING", "BASELINE_PUBLISHED", "STAGE_DROPPING",
   "INDEXES_ENABLING", "DATA_VERIFYING", "DATA_MISMATCH", "CDC_APPLY_STARTING", "CDC_APPLYING",
   "CDC_CATCHING_UP", "CDC_CAUGHT_UP", "STEADY_STATE"}

ServerDeletable == {"DRAFT", "CANCELLING", "CANCELLED", "FAILED"}

\* The phases the server knows.
ValidPhases ==
  ServerActive \cup {"DRAFT", "PAUSED", "CANCELLING", "CANCELLED", "COMPLETED", "FAILED"}

TriggerPhases == {"COMPLETED", "CDC_CAUGHT_UP", "STEADY_STATE"}

BaselineErrors == {"BASELINE_PUBLISH_ERROR", "BASELINE_LOAD_FAILED"}

\* The console's tables.
ConsoleActive ==
  {"NEW", "PREPARING", "SCN_FIXED", "CONNECTOR_STARTING", "CDC_BUFFERING", "CHUNKING",
   "BULK_LOADING", "BULK_LOADED", "STAGE_VALIDATING", "STAGE_VALIDATED", "BASELINE_PUBLISHING",
   "BASELINE_LOADING", "BASELINE_PUBLISHED", "STAGE_DROPPING", "INDEXES_ENABLING",
   "CDC_APPLY_STARTING", "CDC_CATCHING_UP", "CDC_CAUGHT_UP", "STEADY_STATE"}

\* Mutant of ConsoleDeletable: a completed migration can be deleted, too.
ConsoleDeletableEnded == ServerDeletable \cup {"COMPLETED"}

ConsoleDeletable == {"DRAFT", "CANCELLING", "CANCELLED", "FAILED"}

-----------------------------------------------------------------------------
(* The server. A row is [phase, paused, error, cdc].                       *)

\* Whether the endpoint of the request answers with success.
Accepts(act, r) ==
  /\ r.phase # Gone
  /\ CASE act = "run"             -> r.phase = "DRAFT"
       [] act = "pause"           -> r.phase \in ServerActive
       [] act \in {"resume", "stop"} -> TRUE
       [] act \in {"retry_verify", "force_complete"} -> r.phase = "DATA_MISMATCH"
       [] act = "delete"          -> r.phase \in ServerDeletable
       [] act = "enable_indexes"  -> \/ r.phase = "INDEXES_ENABLING"
                                     \/ r.phase = "FAILED" /\ r.error = "INDEXES_ENABLE_ERROR"
       [] act = "restart_baseline" -> \/ r.phase = "BASELINE_LOADING"
                                      \/ r.phase = "FAILED" /\ r.error \in BaselineErrors
       [] act = "create_trigger_job" -> r.phase \in TriggerPhases
       [] OTHER -> FALSE

\* The phase an accepted request puts the row in.
Target(act, r) ==
  CASE act = "run"              -> "NEW"
    [] act = "stop"             -> "CANCELLING"
    [] act = "retry_verify"     -> "DATA_VERIFYING"
    [] act = "force_complete"   -> "COMPLETED"
    [] act = "delete"           -> Gone
    [] act = "enable_indexes"   -> "INDEXES_ENABLING"
    [] act = "restart_baseline" -> "BASELINE_PUBLISHING"
    [] act = "resume" /\ r.phase = "PAUSED" -> "BULK_LOADING"
    [] OTHER                    -> r.phase

Effect(act, r) ==
  [r EXCEPT !.phase = Target(act, r),
            !.paused = CASE act = "pause" -> TRUE [] act = "resume" -> FALSE [] OTHER -> @]

-----------------------------------------------------------------------------
(* The console.                                                            *)

\* migrationRowActions: the buttons a phase and the paused flag give.
RowActions(r) ==
  LET isPaused == r.paused \/ r.phase = "PAUSED" IN
    (IF r.phase = "DRAFT" THEN {"run"} ELSE {})
      \cup (IF r.phase \in ConsoleActive /\ ~isPaused THEN {"pause"} ELSE {})
      \cup (IF isPaused THEN {"resume"} ELSE {})
      \cup (IF r.phase \in ConsoleActive THEN {"stop"} ELSE {})
      \cup (IF r.phase \in ConsoleDeletable THEN {"delete"} ELSE {})

\* StopDeleteButtons of the detail panel, which draws no Run.
StopDeleteActions(r) == RowActions(r) \ {"run"}

\* The buttons of the detail panel's header that depend on the phase.
HeaderActions(r) ==
  (IF r.phase = "INDEXES_ENABLING" \/ (r.phase = "FAILED" /\ r.error = "INDEXES_ENABLE_ERROR")
     THEN {"enable_indexes"} ELSE {})
    \cup (IF r.phase = "BASELINE_LOADING" \/ (r.phase = "FAILED" /\ r.error \in BaselineErrors)
            THEN {"restart_baseline"} ELSE {})
    \cup (IF r.phase = "DATA_MISMATCH" THEN {"retry_verify", "force_complete"} ELSE {})
    \cup (IF \/ ~r.cdc /\ r.phase = "COMPLETED"
             \/ r.cdc /\ r.phase \in {"CDC_CAUGHT_UP", "STEADY_STATE"}
            THEN {"create_trigger_job"} ELSE {})
    \cup StopDeleteActions(r)
=============================================================================
