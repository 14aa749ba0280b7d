---------------------------- MODULE BaselineLoad ----------------------------
(***************************************************************************)
(* Publishing the stage table into the target table: the coordinator's     *)
(* publishing thread waits for running chunks, deletes the old BASELINE    *)
(* rows, truncates the target and cuts the stage table again; the workers  *)
(* insert chunk by chunk; the tick thread watches for the end and then     *)
(* drops the stage table; the operator may cancel, or restart the whole    *)
(* phase while all of this is going on (services/orchestrator.py,          *)
(* workers/worker.py).                                                     *)
(*                                                                         *)
(* The chunks cut from an unchanged stage table are always the same        *)
(* StageRows; each cut gives them new rows (new chunk_ids) in              *)
(* migration_chunks.                                                       *)
(***************************************************************************)
EXTENDS ChunkTable, FiniteSets

CONSTANTS
  Workers,      \* the worker processes
  Rows,         \* the keys of the table
  NumChunks,    \* chunks the stage table is cut into
  StageRows,    \* the keys in each chunk of the stage table
  Keyed,        \* does a unique index on the target survive DISABLE CONSTRAINT?
  Degree,       \* migrations.baseline_parallel_degree
  Late,         \* may a live worker hold a chunk past _STALE_AFTER_MINUTES?
  Delayed,      \* may a handler run on a phase that has changed since the tick
                \* read it (other migrations' handlers run first)?
  MaxFaults,    \* bound: process deaths, lost connections, failed statements
  MaxRestarts   \* bound: how often the operator restarts the baseline

Chunks == 1 .. NumChunks

ASSUME BaselineAssumption ==
  /\ NumChunks \in Nat \ {0}
  /\ StageRows \in [Chunks -> SUBSET Rows]
  /\ Keyed \in BOOLEAN /\ Late \in BOOLEAN /\ Delayed \in BOOLEAN
  /\ Degree \in Nat /\ MaxFaults \in Nat /\ MaxRestarts \in Nat

NoChunk == 0
Published == {"BASELINE_PUBLISHED", "STAGE_DROPPING", "INDEXES_ENABLING"}
Phases == {"BASELINE_PUBLISHING", "BASELINE_LOADING", "FAILED", "CANCELLING",
           "CANCELLED"} \cup Published
PCs == {"idle", "claiming", "check", "insert", "commit", "progress",
        "complete", "cancel", "fail", "permanent"}
Threads == {"none", "drain", "delete", "truncate", "chunk", "loading?", "loading",
            "drop", "indexes?", "indexes", "publish failed?", "publish failed",
            "drop failed?", "drop failed"}
Ticks == {"read", "publish", "count", "drop", "cancel", "BASELINE_PUBLISHED",
          "STAGE_DROPPING", "FAILED", "ERROR", "CANCELLED"}

VARIABLES
  phase,       \* migrations.phase
  restartable, \* is error_code one the baseline can be restarted from?
  chunk,       \* the BASELINE rows of migration_chunks, by chunk_seq (or none)
  wk,          \* a worker's point in process_chunk, its chunk_seq, and whether
               \* the row it claimed (its chunk_id) still exists
  copies,      \* Oracle: how often each key is in the target (2: or more)
  staged,      \* Oracle: does the stage table exist?
  thread,      \* the migration's thread in the coordinator (_in_progress)
  tick,        \* the coordinator's tick: what it does next, or has decided
  request,     \* a restart request under way: its next transaction
  faults, restarts  \* used up of MaxFaults and MaxRestarts

vars == <<phase, restartable, chunk, wk, copies, staged, thread, tick, request,
          faults, restarts>>
queue == <<chunk, wk>>
oracle == <<copies, staged>>
coordinator == <<thread, tick, request>>
bounds == <<faults, restarts>>

Idle == [pc |-> "idle", job |-> NoChunk, row |-> FALSE]
NoRows == [c \in {} |-> NewRow]

TypeOK ==
  /\ phase \in Phases
  /\ restartable \in BOOLEAN
  /\ chunk \in [Chunks -> Row] \cup {NoRows}
  /\ wk \in [Workers -> [pc : PCs, job : 0 .. NumChunks, row : BOOLEAN]]
  /\ copies \in [Rows -> 0 .. 2]
  /\ staged \in BOOLEAN
  /\ thread \in Threads
  /\ tick \in Ticks
  /\ request \in {"none", "cancel", "transition"}
  /\ faults \in 0 .. MaxFaults
  /\ restarts \in 0 .. MaxRestarts

\* The stage table has just been validated; the target has whatever an
\* earlier migration left there (at most one copy of a key).
Init ==
  /\ phase = "BASELINE_PUBLISHING"
  /\ restartable = FALSE
  /\ chunk = NoRows
  /\ wk = [w \in Workers |-> Idle]
  /\ copies \in [Rows -> 0 .. 1]
  /\ staged = TRUE
  /\ thread = "none"
  /\ tick = "read"
  /\ request = "none"
  /\ faults = 0
  /\ restarts = 0

----------------------------------------------------------------------------
(* The workers. *)

Cut == DOMAIN chunk
ParallelDegree == IF Degree < 1 THEN 1 ELSE Degree
Locked(c) == \E w \in Workers : wk[w].pc = "claiming" /\ wk[w].job = c
Claimable(c) == chunk[c].status = "PENDING" /\ ~Locked(c)
Holds(w, c) == wk[w].pc \notin {"idle", "claiming"} /\ wk[w].job = c /\ wk[w].row

ChunkIsActive(w) ==
  /\ wk[w].row /\ Active(chunk[wk[w].job])
  /\ phase \notin {"CANCELLING", "CANCELLED", "FAILED"}

Goto(w, pc) == wk' = [wk EXCEPT ![w].pc = pc]
Leave(w) == wk' = [wk EXCEPT ![w] = Idle]

\* An UPDATE of the worker's row, which waits for a claim of that row; of a
\* row that was deleted it changes nothing.
MyRow(w) == chunk[wk[w].job]
UpdateRow(w, r) ==
  /\ wk[w].row => ~Locked(wk[w].job)
  /\ chunk' = IF wk[w].row THEN [chunk EXCEPT ![wk[w].job] = r] ELSE chunk

ClaimBegin(w) ==
  /\ wk[w].pc = "idle"
  /\ phase = "BASELINE_LOADING"
  /\ Cardinality({c \in Cut : Active(chunk[c])}) < ParallelDegree
  /\ \E c \in Cut :
       /\ Claimable(c)
       /\ \A d \in Cut : d < c => ~Claimable(d)
       /\ wk' = [wk EXCEPT ![w] = [pc |-> "claiming", job |-> c, row |-> TRUE]]
  /\ UNCHANGED <<phase, restartable, chunk, oracle, coordinator, bounds>>

ClaimCommit(w) ==
  /\ wk[w].pc = "claiming"
  /\ chunk' = [chunk EXCEPT ![wk[w].job] = ClaimRow(@)]
  /\ Goto(w, "check")
  /\ UNCHANGED <<phase, restartable, oracle, coordinator, bounds>>

Check(w) ==
  /\ wk[w].pc = "check"
  /\ Goto(w, IF ChunkIsActive(w) THEN "insert" ELSE "cancel")
  /\ UNCHANGED <<phase, restartable, chunk, oracle, coordinator, bounds>>

\* An insert of the same key that is not yet committed makes this one wait.
Waits(w) ==
  Keyed /\ \E v \in Workers \ {w} :
    wk[v].pc = "commit" /\ StageRows[wk[v].job] \cap StageRows[wk[w].job] # {}

Duplicate(w) == Keyed /\ \E k \in StageRows[wk[w].job] : copies[k] > 0

\* INSERT ... SELECT of the whole chunk, which fails without a stage table.
Insert(w) ==
  /\ wk[w].pc = "insert" /\ ~Waits(w)
  /\ ~staged \/ ~Duplicate(w)
  /\ Goto(w, IF staged THEN "commit" ELSE "fail")
  /\ UNCHANGED <<phase, restartable, chunk, oracle, coordinator, bounds>>

\* ORA-00001 is taken for a retry of a committed insert when the target holds
\* at least as many rows as the chunk.
TargetCount == Cardinality({k \in Rows : copies[k] > 0})
StageCount(c) == Cardinality(StageRows[c])

InsertDuplicate(w) ==
  /\ wk[w].pc = "insert" /\ ~Waits(w) /\ staged /\ Duplicate(w)
  /\ Goto(w, IF TargetCount >= StageCount(wk[w].job) THEN "progress" ELSE "fail")
  /\ UNCHANGED <<phase, restartable, chunk, oracle, coordinator, bounds>>

AddRows(w) ==
  copies' = [k \in Rows |-> IF k \notin StageRows[wk[w].job] THEN copies[k]
                            ELSE IF copies[k] = 0 THEN 1 ELSE 2]

Commit(w) ==
  /\ wk[w].pc = "commit"
  /\ AddRows(w)
  /\ Goto(w, "progress")
  /\ UNCHANGED <<phase, restartable, chunk, staged, coordinator, bounds>>

Progress(w) ==
  /\ wk[w].pc = "progress"
  /\ UpdateRow(w, ProgressRow(MyRow(w)))
  /\ Goto(w, "complete")
  /\ UNCHANGED <<phase, restartable, oracle, coordinator, bounds>>

Complete(w) ==
  /\ wk[w].pc = "complete"
  /\ UpdateRow(w, CompleteRow(MyRow(w)))
  /\ Leave(w)
  /\ UNCHANGED <<phase, restartable, oracle, coordinator, bounds>>

\* Mutant of CancelChunk: a cancelled chunk is left as it was claimed.
CancelChunkForgotten(w) ==
  /\ wk[w].pc = "cancel"
  /\ Leave(w)
  /\ UNCHANGED <<phase, restartable, chunk, oracle, coordinator, bounds>>

CancelChunk(w) ==
  /\ wk[w].pc = "cancel"
  /\ UpdateRow(w, CancelRow(MyRow(w)))
  /\ Leave(w)
  /\ UNCHANGED <<phase, restartable, oracle, coordinator, bounds>>

FailChunk(w) ==
  /\ \/ wk[w].pc = "fail" /\ UpdateRow(w, FailRow(MyRow(w)))
     \/ wk[w].pc = "permanent" /\ UpdateRow(w, FailPermanentRow(MyRow(w)))
  /\ Leave(w)
  /\ UNCHANGED <<phase, restartable, oracle, coordinator, bounds>>

WorkerStep(w) ==
  \/ ClaimBegin(w) \/ ClaimCommit(w) \/ Check(w) \/ Insert(w) \/ InsertDuplicate(w)
  \/ Commit(w) \/ Progress(w) \/ Complete(w) \/ CancelChunk(w) \/ FailChunk(w)

Fault == faults < MaxFaults /\ faults' = faults + 1

\* A statement raises, or the commit's answer is lost: the chunk is tried
\* again or given up; ORA-01555 gives it up at once.
ChunkFault(w) ==
  /\ wk[w].pc \in {"check", "insert", "commit"} /\ Fault
  /\ \/ UNCHANGED copies
     \/ wk[w].pc = "commit" /\ AddRows(w)
  /\ \/ Goto(w, "fail")
     \/ wk[w].pc = "insert" /\ Goto(w, "permanent")
  /\ UNCHANGED <<phase, restartable, chunk, staged, coordinator, restarts>>

\* The process dies, or its State DB connection is lost (then fail_chunk
\* fails as well): the row stays as it is, Oracle rolls back.
Abandon(w) ==
  /\ wk[w].pc # "idle" /\ Fault
  /\ Leave(w)
  /\ UNCHANGED <<phase, restartable, chunk, oracle, coordinator, restarts>>

Age(c) ==
  /\ Active(chunk[c]) /\ chunk[c].claimed_at = "fresh"
  /\ Late \/ ~\E w \in Workers : Holds(w, c)
  /\ chunk' = [chunk EXCEPT ![c].claimed_at = "stale"]
  /\ UNCHANGED <<phase, restartable, wk, oracle, coordinator, bounds>>

----------------------------------------------------------------------------
(* The publishing thread (_handle_baseline_publishing). *)

ThreadGoto(t) == thread' = t

\* Waits while a chunk of the previous run is CLAIMED or RUNNING.
Drain ==
  /\ thread = "drain"
  /\ \A c \in Cut : ~Active(chunk[c])
  /\ ThreadGoto("delete")
  /\ UNCHANGED <<phase, restartable, queue, oracle, tick, request, bounds>>

\* Mutant of DeleteRows: only the finished rows of the previous run go.
DeleteFinishedRows ==
  /\ thread = "delete" /\ \A c \in Cut : ~Locked(c)
  /\ chunk' = [c \in {d \in Cut : chunk[d].status = "PENDING"} |-> chunk[c]]
  /\ wk' = [w \in Workers |-> [wk[w] EXCEPT !.row = FALSE]]
  /\ ThreadGoto("truncate")
  /\ UNCHANGED <<phase, restartable, oracle, tick, request, bounds>>

\* The DELETE waits for the row of a claim that has not committed yet.
DeleteRows ==
  /\ thread = "delete" /\ \A c \in Cut : ~Locked(c)
  /\ chunk' = NoRows
  /\ wk' = [w \in Workers |-> [wk[w] EXCEPT !.row = FALSE]]
  /\ ThreadGoto("truncate")
  /\ UNCHANGED <<phase, restartable, oracle, tick, request, bounds>>

\* TRUNCATE fails (ORA-00054) while another session has uncommitted rows.
Truncate ==
  /\ thread = "truncate"
  /\ IF \E w \in Workers : wk[w].pc = "commit"
     THEN ThreadGoto("publish failed?") /\ UNCHANGED copies
     ELSE ThreadGoto("chunk") /\ copies' = [k \in Rows |-> 0]
  /\ UNCHANGED <<phase, restartable, queue, staged, tick, request, bounds>>

\* create_chunks on the stage table, and the INSERT of its rows.
CutStage ==
  /\ thread = "chunk"
  /\ IF staged THEN /\ chunk' = [c \in Chunks |-> NewRow]
                    /\ ThreadGoto("loading?")
              ELSE ThreadGoto("publish failed?") /\ UNCHANGED chunk
  /\ UNCHANGED <<phase, restartable, wk, oracle, tick, request, bounds>>

\* The stage-dropping thread (_handle_stage_dropping).
DropStage ==
  /\ thread = "drop"
  /\ staged' = FALSE
  /\ ThreadGoto("indexes?")
  /\ UNCHANGED <<phase, restartable, queue, copies, tick, request, bounds>>

\* _safe_transition reads the phase in one transaction ...
Expected(t) == IF t = "loading?" THEN "BASELINE_PUBLISHING" ELSE "STAGE_DROPPING"
ReadPhase ==
  /\ thread \in {"loading?", "indexes?"}
  /\ ThreadGoto(IF phase # Expected(thread) THEN "none"
                ELSE IF thread = "loading?" THEN "loading" ELSE "indexes")
  /\ UNCHANGED <<phase, restartable, queue, oracle, tick, request, bounds>>

\* ... and changes it in another, whatever it has become.
Advance ==
  /\ thread \in {"loading", "indexes"}
  /\ phase' = IF thread = "loading" THEN "BASELINE_LOADING" ELSE "INDEXES_ENABLING"
  /\ ThreadGoto("none")
  /\ UNCHANGED <<restartable, queue, oracle, tick, request, bounds>>

\* An exception of a thread: _current_phase, then _fail.
ReadPhaseOfFailure ==
  /\ thread \in {"publish failed?", "drop failed?"}
  /\ ThreadGoto(IF phase \in {"CANCELLING", "CANCELLED"} THEN "none"
                ELSE IF thread = "publish failed?" THEN "publish failed" ELSE "drop failed")
  /\ UNCHANGED <<phase, restartable, queue, oracle, tick, request, bounds>>

\* The baseline can be restarted from BASELINE_PUBLISH_ERROR, not from
\* STAGE_DROP_ERROR.
ThreadFails ==
  /\ thread \in {"publish failed", "drop failed"}
  /\ phase' = "FAILED"
  /\ restartable' = (thread = "publish failed")
  /\ ThreadGoto("none")
  /\ UNCHANGED <<queue, oracle, tick, request, bounds>>

ThreadRaises ==
  /\ thread \in {"drain", "delete", "truncate", "chunk", "drop"} /\ Fault
  /\ ThreadGoto(IF thread = "drop" THEN "drop failed?" ELSE "publish failed?")
  /\ UNCHANGED <<phase, restartable, queue, oracle, tick, request, restarts>>

ThreadStep ==
  \/ Drain \/ DeleteRows \/ Truncate \/ CutStage \/ DropStage
  \/ ReadPhase \/ Advance \/ ReadPhaseOfFailure \/ ThreadFails

----------------------------------------------------------------------------
(* The coordinator's tick thread. *)

\* reset_stale_chunks, get_active_migrations, _dispatch with the row just read.
TickRead ==
  /\ tick = "read"
  /\ chunk' = IF phase = "BASELINE_LOADING"
              THEN [c \in Cut |-> ResetStaleRow(chunk[c])] ELSE chunk
  /\ tick' = CASE phase = "BASELINE_PUBLISHING" -> "publish"
               [] phase = "BASELINE_LOADING" -> "count"
               [] phase = "BASELINE_PUBLISHED" -> "STAGE_DROPPING"
               [] phase = "STAGE_DROPPING" -> "drop"
               [] phase = "CANCELLING" -> "cancel"
               [] OTHER -> "read"
  /\ UNCHANGED <<phase, restartable, wk, oracle, thread, request, bounds>>

\* A handler that starts a thread does so when none is running; it does not
\* read the phase again.
Current == phase = (IF tick = "publish" THEN "BASELINE_PUBLISHING" ELSE "STAGE_DROPPING")
TickStart ==
  /\ tick \in {"publish", "drop"}
  /\ ThreadGoto(IF thread # "none" \/ ~(Delayed \/ Current) THEN thread
                ELSE IF tick = "publish" THEN "drain" ELSE "drop")
  /\ tick' = "read"
  /\ UNCHANGED <<phase, restartable, queue, oracle, request, bounds>>

\* _handle_cancelling waits for the thread.
TickCancel ==
  /\ tick = "cancel"
  /\ tick' = IF thread = "none" THEN "CANCELLED" ELSE "read"
  /\ UNCHANGED <<phase, restartable, queue, oracle, thread, request, bounds>>

Finished == \A c \in Cut : chunk[c].status \in {"DONE", "FAILED"}

\* Mutant of TickCount: a failed chunk does not stop the baseline.
TickCountFinished ==
  /\ tick = "count"
  /\ tick' = IF Cut # {} /\ Finished THEN "BASELINE_PUBLISHED" ELSE "read"
  /\ UNCHANGED <<phase, restartable, queue, oracle, thread, request, bounds>>

\* _handle_baseline_loading reads the statistics in a transaction of its own.
TickCount ==
  /\ tick = "count"
  /\ tick' = IF Cut = {} \/ ~Finished THEN "read"
             ELSE IF \A c \in Cut : chunk[c].status = "DONE"
                  THEN "BASELINE_PUBLISHED" ELSE "FAILED"
  /\ UNCHANGED <<phase, restartable, queue, oracle, thread, request, bounds>>

TickTransition ==
  /\ tick \notin {"read", "publish", "count", "drop", "cancel"}
  /\ phase' = IF tick = "ERROR" THEN "FAILED" ELSE tick
  /\ restartable' = IF phase' = "FAILED" THEN tick = "FAILED" ELSE restartable
  /\ tick' = "read"
  /\ UNCHANGED <<queue, oracle, thread, request, bounds>>

\* A State DB error in a handler: _tick catches it and fails the migration,
\* whatever its phase, with ORCHESTRATOR_ERROR.
TickRaises ==
  /\ tick # "read" /\ Fault
  /\ tick' = "ERROR"
  /\ UNCHANGED <<phase, restartable, queue, oracle, thread, request, restarts>>

TickStep == TickRead \/ TickStart \/ TickCancel \/ TickCount \/ TickTransition

\* The coordinator process dies and starts again: its threads, its tick and
\* the request it was serving are gone.
CoordinatorRestarts ==
  /\ \/ thread # "none" \/ tick # "read" \/ request # "none"
  /\ Fault
  /\ thread' = "none" /\ tick' = "read" /\ request' = "none"
  /\ UNCHANGED <<phase, restartable, queue, oracle, restarts>>

----------------------------------------------------------------------------
(* The operator. *)

CancelMigration ==
  /\ phase' = "CANCELLING"
  /\ UNCHANGED <<restartable, queue, oracle, coordinator, bounds>>

\* trigger_baseline_restart: read the phase, cancel what is PENDING (waiting
\* for claims in progress), change the phase: three transactions.
RestartBaseline ==
  /\ request = "none" /\ restarts < MaxRestarts
  /\ phase = "BASELINE_LOADING" \/ (phase = "FAILED" /\ restartable)
  /\ request' = "cancel"
  /\ restarts' = restarts + 1
  /\ UNCHANGED <<phase, restartable, queue, oracle, thread, tick, faults>>

CancelPending ==
  /\ request = "cancel" /\ \A c \in Cut : ~Locked(c)
  /\ chunk' = [c \in Cut |-> IF chunk[c].status = "PENDING"
                             THEN CancelRow(chunk[c]) ELSE chunk[c]]
  /\ request' = "transition"
  /\ UNCHANGED <<phase, restartable, wk, oracle, thread, tick, bounds>>

BackToPublishing ==
  /\ request = "transition"
  /\ phase' = "BASELINE_PUBLISHING"
  /\ restartable' = FALSE
  /\ request' = "none"
  /\ UNCHANGED <<queue, oracle, thread, tick, bounds>>

RequestStep == CancelPending \/ BackToPublishing

----------------------------------------------------------------------------

Next ==
  \/ \E w \in Workers : WorkerStep(w) \/ ChunkFault(w) \/ Abandon(w)
  \/ \E c \in Cut : Age(c)
  \/ ThreadStep \/ ThreadRaises
  \/ TickStep \/ TickRaises \/ CoordinatorRestarts
  \/ CancelMigration \/ RestartBaseline \/ RequestStep

Safety == Init /\ [][Next]_vars

\* Workers poll, the coordinator's threads and requests run to their end,
\* time passes; faults and the operator's requests are never certain.
Fairness ==
  /\ \A w \in Workers : WF_vars(WorkerStep(w))
  /\ WF_vars(\E c \in Cut : Age(c))
  /\ WF_vars(ThreadStep)
  /\ WF_vars(TickStep)
  /\ WF_vars(RequestStep)

Spec == Safety /\ Fairness

----------------------------------------------------------------------------
(* Properties. *)

(* Once the baseline is published, the target holds exactly the rows of the *)
(* stage table, even if the phase was restarted or the coordinator died     *)
(* while workers were inserting, chunks went stale or inserts were repeated *)
(* (drain, DELETE, TRUNCATE, ORA-00001, _handle_baseline_loading).  Only an *)
(* index keeps a repeated insert from leaving a row there twice.            *)
Stage == UNION {StageRows[c] : c \in Chunks}
PublishedIsStage ==
  phase \in Published =>
    \A k \in Rows : /\ copies[k] > 0 <=> k \in Stage
                    /\ Keyed => copies[k] <= 1

(* As long as no process dies and no statement fails, a baseline run comes  *)
(* to an end: the drain does not wait for workers that wait for the drain,  *)
(* and a restart or a cancellation does not leave it hanging.               *)
BaselineEnds ==
  (phase \in {"BASELINE_PUBLISHING", "BASELINE_LOADING", "CANCELLING"} /\ faults = 0 /\ ~Late)
    ~> (phase \in Published \cup {"FAILED", "CANCELLED"} \/ faults > 0)

(* worker.py:1167-1170: ORA-00001 is a success only if nothing is lost.  A  *)
(* DONE chunk is in the target.                                             *)
DoneIsPresent ==
  \A c \in Cut : chunk[c].status = "DONE" => \A k \in StageRows[c] : copies[k] > 0
=============================================================================
