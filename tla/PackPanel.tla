----------------------------- MODULE PackPanel -----------------------------
(***************************************************************************)
(* What the pack panel of the dashboard makes of a queue                   *)
(* (dashboard/PackPanel.tsx, packModel.ts): the buckets it counts items    *)
(* in, the badge of each row, the tiles of the CDC card, and the buttons   *)
(* it enables.  Each is computed on its own from the same answer, and the  *)
(* server decides once more when a button is clicked; the properties say   *)
(* what all of them must agree on in every state the queue reaches.        *)
(*                                                                         *)
(* An item of the answer is a row of PackQueue; of the rest of the answer  *)
(* the panel reads whether the item has a queue position (q), whether a    *)
(* CDC worker has been heard for it (hb) and the status of the CDC group.  *)
(* The position is written by the tick (orchestrator.py,                   *)
(* _update_queue_positions), so a migration that has left NEW keeps it for *)
(* a while: which items have one is any set.                               *)
(***************************************************************************)
EXTENDS PackQueue

\* The status of the group: "PENDING" stands also for STOPPED and FAILED, "CONNECTOR_STARTING" for
\* TOPICS_CREATING and STOPPING.
CardStatuses == {"NONE", "PENDING", "CONNECTOR_STARTING", "RUNNING"}

DonePhases == {"COMPLETED", "STEADY_STATE"}
Bad == {"FAILED", "CANCELLED"}
ActiveWorkPhases == Loading \cup {"INDEXES_ENABLING", "CDC_APPLY_STARTING", "CDC_CAUGHT_UP"}

\* packModel.ts, packItemBucket: the counters of the pack cards.
PackItemBucket(it, q) ==
  CASE it.status = "DONE" \/ it.phase \in DonePhases -> "done"
    [] it.status # "DONE" /\ it.phase \notin DonePhases ->
         IF it.status \in Bad \/ it.phase \in Bad THEN "failed"
         ELSE IF it.status = "PENDING" \/ it.phase = "DRAFT" THEN "draft"
         ELSE IF it.phase = "NEW" \/ q THEN "queued"
         ELSE IF it.status = "RUNNING" \/ it.phase \in ActiveWorkPhases THEN "running"
         ELSE "queued"

PackItemCounts(items, Q) ==
  [b \in {"draft", "queued", "running", "done", "failed"} |->
     Cardinality({i \in items : PackItemBucket(row[i], i \in Q) = b})]

QueueGroup(kind) == {i \in Present : row[i].cdc = (kind = "cdc")}

\* Mutant of VisualState: what waits for a load slot is shown as running.
VisualStateByStatus(it) ==
  CASE it.status = "DONE" \/ it.phase \in DonePhases -> "done"
    [] it.status # "DONE" /\ it.phase \notin DonePhases ->
         IF it.status \in Bad \/ it.phase \in Bad THEN "failed"
         ELSE IF it.status = "PENDING" THEN "queued" ELSE "running"

\* PackPanel.tsx, itemVisualState: the badge of a row; isDoneItem, isFailedItem, isQueuedItem and
\* isRunningItem count by it.
VisualState(it) ==
  CASE it.status = "DONE" \/ it.phase \in DonePhases -> "done"
    [] it.status # "DONE" /\ it.phase \notin DonePhases ->
         IF it.status \in Bad \/ it.phase \in Bad THEN "failed"
         ELSE IF it.status = "PENDING" \/ it.phase \in {"DRAFT", "NEW"} THEN "queued"
         ELSE IF it.status = "RUNNING" THEN "running"
         ELSE "idle"

Shown(v) == {i \in Present : VisualState(row[i]) = v}

\* What the overview counts as in work (isActiveWorkItem): it goes by the phase alone, so an item that
\* the plan calls done from INDEXES_ENABLING on is counted both as done and as in work.
ActiveWork == {i \in Present : row[i].phase \in ActiveWorkPhases}

-----------------------------------------------------------------------------
(* The start buttons.                                                      *)

NextPending == IF Having("PENDING") = {} THEN {} ELSE Pending(Min(PendingBatches(row)))

\* Mutant of CanStart: nothing is started while anything runs.
CanStartAlone == plan \in {"READY", "RUNNING"} /\ Having("PENDING") # {} /\ Shown("running") = {}

CanStart == /\ plan \in {"READY", "RUNNING"}
            /\ Having("PENDING") # {}
            /\ ~ ((\E i \in Shown("running") : ~row[i].cdc) /\ (\E i \in NextPending : ~row[i].cdc))

\* The buttons of the pack cards that are enabled while no request runs.
PackButtons(hasGroup) ==
  {k \in {"bulk", "cdc", "sync"} :
     CASE k = "bulk" -> CanStart /\ QueueGroup("bulk") # {}
       [] k = "cdc"  -> CanStart /\ (QueueGroup("cdc") # {} \/ hasGroup)
       [] k = "sync" -> hasGroup}

\* The order the overview calls the current one.
CurrentBatch ==
  LET least(s) == Min({row[i].batch : i \in s})
  IN CASE ActiveWork # {} -> least(ActiveWork)
       [] ActiveWork = {} /\ Shown("running") # {} -> least(Shown("running"))
       [] ActiveWork = {} /\ Shown("running") = {} /\ Having("PENDING") # {} -> least(Having("PENDING"))
       [] OTHER -> Max({0} \cup {row[i].batch : i \in Present})

\* "Ready to start: n tables are queued."
ReadyNote == Shown("queued") # {} /\ CanStart /\ Shown("failed") = {}

-----------------------------------------------------------------------------
(* A row: its label, its progress text and its buttons.                    *)

\* The row with the exact phase its phase stands for, as far as the labels and the tiles tell them
\* apart: PREPARING is any phase up to CDC_BUFFERING, CDC_APPLY_STARTING also CDC_APPLYING.
InDetail(it) ==
  {[it EXCEPT !.phase = p] : p \in CASE it.phase = "BULK_LOADING" -> {"PREPARING", "BULK_LOADING"}
                                     [] it.phase = "INDEXES_ENABLING" -> {"INDEXES_ENABLING", "DATA_VERIFYING"}
                                     [] it.phase = "CDC_APPLY_STARTING" -> {"CDC_APPLY_STARTING", "CDC_CATCHING_UP"}
                                     [] OTHER -> {it.phase}}

WaitsWorker(it, hb) == it.cdc /\ it.phase = "CDC_APPLY_STARTING" /\ ~hb

StatusLabel(it, q, hb, gs) ==
  CASE it.cdc /\ it.status = "RUNNING" /\ it.phase = "NEW" ->
         IF gs \notin {"NONE", "RUNNING"} THEN "waits_group" ELSE IF q THEN "queued" ELSE "starting"
    [] WaitsWorker(it, hb) -> "waits_worker"
    [] OTHER -> "phase"

ProgressText(it, q, hb, gs) ==
  CASE it.cdc /\ it.phase = "NEW" ->
         IF gs \notin {"NONE", "RUNNING"} THEN "waits_group" ELSE IF q THEN "queued" ELSE "starting"
    [] ~it.cdc /\ it.phase = "NEW" /\ q -> "queued"
    [] WaitsWorker(it, hb) -> "waits_worker"
    [] it.cdc /\ it.phase \in {"CDC_APPLY_STARTING", "CDC_CATCHING_UP", "CDC_CAUGHT_UP", "STEADY_STATE"}
         /\ ~WaitsWorker(it, hb) -> "cdc"
    [] OTHER -> "rows"

ShouldShowTriggerJob(it) ==
  IF it.cdc THEN it.phase \in {"CDC_CAUGHT_UP", "STEADY_STATE"} ELSE it.phase = "COMPLETED"

PackRowActions(it) ==
  {"reset", "restart"} \cup {a \in {"trigger_job"} : ShouldShowTriggerJob(it)}

-----------------------------------------------------------------------------
(* The CDC card and the list of the group's tables.                        *)

\* The tiles that count item it; none counts what prepares a load or verifies it.
CardTiles(it, q, hb, gs) ==
  {t \in {"not_started"} : it.status = "PENDING" \/ it.phase = "DRAFT"}
    \cup CASE it.phase = "NEW" -> {IF gs # "RUNNING" THEN "waits_group" ELSE IF q THEN "queued" ELSE "starting"}
           [] it.phase \in Loading \cup {"INDEXES_ENABLING"} -> {"loading"}
           [] it.phase = "CDC_CATCHING_UP" \/ (it.phase = "CDC_APPLY_STARTING" /\ hb) -> {"applying"}
           [] it.phase = "CDC_APPLY_STARTING" /\ ~hb -> {"waits_worker"}
           [] OTHER -> {}

\* The button that starts the group, and the remarks below the tiles.
CanStartConnector(gs) == gs \notin {"RUNNING", "CONNECTOR_STARTING"}

CardRemarks(gs) ==
  {r \in {"extra_tables", "rows_wait_for_the_group", "rows_not_in_the_queue"} :
     CASE r = "extra_tables" -> \E t \in captured : \A i \in QueueGroup("cdc") : row[i].table # t
       [] r = "rows_wait_for_the_group" -> gs # "RUNNING" /\ \E i \in QueueGroup("cdc") : row[i].phase = "NEW"
       [] r = "rows_not_in_the_queue" ->
            \E i \in QueueGroup("cdc") : row[i].status = "PENDING" \/ row[i].phase = "DRAFT"}

ActiveCdcPackItem(it) == it.phase \notin GroupFinal /\ it.status \notin Bad

\* The tables the list offers to remove from the group.
CanRemove == {t \in captured : \A i \in QueueGroup("cdc") : row[i].table = t => ~ActiveCdcPackItem(row[i])}

-----------------------------------------------------------------------------
\* The panel keeps nothing back: a start the planner would accept is offered
\* by a panel that is up to date, and announced when it is for drafts and
\* nothing failed; a removal the group would accept is offered; and a trigger
\* job it offers is one the server accepts.
NothingWithheld ==
  /\ (\E b \in PendingBatches(row) : Startable(b, FALSE)) => CanStart /\ PackButtons(FALSE) # {}
  /\ (\E b \in PendingBatches(row) : Startable(b, FALSE) /\ \E i \in Pending(b) : row[i].phase = "DRAFT")
       /\ Shown("failed") = {} => ReadyNote
  /\ captured \ HeldTables \subseteq CanRemove
  /\ \A i \in Present : "trigger_job" \in PackRowActions(row[i])
                          => row[i].phase \in {"COMPLETED", "CDC_CAUGHT_UP", "STEADY_STATE"}

\* The counters, the badges and the labels tell one story, whatever items have a queue position: the
\* cards count a row as done or failed exactly when its badge says so, and miss a running row only
\* while it keeps its place of the queue (packModel.ts:108); a row with the running badge is in work to
\* the overview unless it is being cancelled, and what is in work without the badge is not RUNNING to
\* the plan; the current order is one where something runs whenever anything does; the CDC card counts
\* no table twice, and the label and the progress text of a row never give different reasons for
\* waiting. (A table whose item was started outside of the pack still counts as not started.)
RowsCountedOnce ==
  \A it \in UNION {InDetail(row[i]) : i \in QueueGroup("cdc")}, q, hb \in BOOLEAN, gs \in CardStatuses :
    LET tiles == CardTiles(it, q, hb, gs)
        label == StatusLabel(it, q, hb, gs)
    IN /\ Cardinality(tiles) > 1 => it.status = "PENDING" /\ it.phase # "DRAFT"
       /\ label # "phase" => ProgressText(it, q, hb, gs) = label
       /\ "waits_group" \in tiles => "rows_wait_for_the_group" \in CardRemarks(gs)
       /\ it.phase = "NEW" /\ CanStartConnector(gs) => "waits_group" \in tiles
CountersMatchBadges ==
  /\ \A Q \in SUBSET Present, v \in {"done", "failed", "running"} :
       PackItemCounts(QueueGroup("bulk"), Q)[v] + PackItemCounts(QueueGroup("cdc"), Q)[v]
         = Cardinality(IF v = "running" THEN Shown(v) \ Q ELSE Shown(v))
  /\ \A i \in Shown("running") \ ActiveWork : row[i].phase = "CANCELLING"
  /\ \A i \in ActiveWork \ Shown("running") : row[i].status # "RUNNING"
  /\ Shown("running") # {} => \E i \in Shown("running") \cup ActiveWork : row[i].batch = CurrentBatch
  /\ RowsCountedOnce
=============================================================================
