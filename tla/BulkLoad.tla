------------------------------ MODULE BulkLoad ------------------------------
(***************************************************************************)
(* The bulk load of one migration: its BULK rows of migration_chunks, the  *)
(* worker processes that claim and load them (workers/worker.py bulk_loop, *)
(* process_chunk, _process_bulk_chunk), the coordinator's tick that resets *)
(* stale claims and watches for the end (services/job_queue.py,            *)
(* services/orchestrator.py) and the operator's requests                   *)
(* (routes/migrations.py).                                                 *)
(*                                                                         *)
(* Every PostgreSQL transaction is one step, except the claim: its         *)
(* statement reads a snapshot and locks its row, and becomes visible only  *)
(* when it commits, so it is two steps.  Every Oracle commit of a batch is *)
(* one step.  Time is the age of claimed_at.                               *)
(***************************************************************************)
EXTENDS ChunkTable, FiniteSets

CONSTANTS
  Workers,       \* the worker processes
  NumChunks,     \* chunks the table was cut into (chunk_seq 1..NumChunks)
  Batches,       \* batches fetched from one chunk
  Limit,         \* migrations.max_parallel_workers
  Late,          \* may a live worker hold a chunk past _STALE_AFTER_MINUTES?
  MaxDeaths,     \* bound: process deaths and State DB errors
  MaxAsked       \* bound: how often the operator presses "retry failed"

ASSUME BulkLoadAssumption ==
  /\ NumChunks \in Nat \ {0}
  /\ Batches \in Nat \ {0}
  /\ Limit \in Nat
  /\ Late \in BOOLEAN
  /\ MaxDeaths \in Nat
  /\ MaxAsked \in Nat

Chunks == 1 .. NumChunks
NoChunk == 0
Phases == {"BULK_LOADING", "BULK_LOADED", "FAILED", "CANCELLING", "CANCELLED"}
PCs == {"idle", "claiming", "check", "flush", "progress", "complete",
        "cancel", "fail", "failfinal"}
Ticks == {"read", "count", "BULK_LOADED", "FAILED", "CANCELLED"}

VARIABLES
  phase,      \* migrations.phase
  paused,     \* migrations.paused
  chunk,      \* migration_chunks, one row per chunk
  wk,         \* a worker's point in process_chunk, its chunk and batches done
  copies,     \* Oracle: how often each batch is in the destination (2: more
              \* than once)
  chunksDone, \* migrations.chunks_done (NumChunks + 1: more than NumChunks)
  tick,       \* the coordinator's tick: what it does next, or has decided
  deaths, asked  \* used up of MaxDeaths and MaxAsked

vars == <<phase, paused, chunk, wk, copies, chunksDone, tick, deaths, asked>>

Idle == [pc |-> "idle", job |-> NoChunk, pos |-> 0]

TypeOK ==
  /\ phase \in Phases
  /\ paused \in BOOLEAN
  /\ chunk \in [Chunks -> Row]
  /\ wk \in [Workers -> [pc : PCs, job : 0 .. NumChunks, pos : 0 .. Batches]]
  /\ copies \in [Chunks -> [1 .. Batches -> 0 .. 2]]
  /\ chunksDone \in 0 .. NumChunks + 1
  /\ tick \in Ticks
  /\ deaths \in 0 .. MaxDeaths
  /\ asked \in 0 .. MaxAsked

\* The load starts where CHUNKING ends: save_chunks has written every row.
Init ==
  /\ phase = "BULK_LOADING"
  /\ paused = FALSE
  /\ chunk = [c \in Chunks |-> NewRow]
  /\ wk = [w \in Workers |-> Idle]
  /\ copies = [c \in Chunks |-> [b \in 1 .. Batches |-> 0]]
  /\ chunksDone = 0
  /\ tick = "read"
  /\ deaths = 0
  /\ asked = 0

----------------------------------------------------------------------------
(* The workers. *)

ParallelLimit == IF Limit < 1 THEN 1 ELSE Limit

\* A claim in progress holds the row lock until it commits; other claims
\* skip the row, other statements on it wait.
Locked(c) == \E w \in Workers : wk[w].pc = "claiming" /\ wk[w].job = c

\* Mutant of Claimable: FOR UPDATE SKIP LOCKED is missing.
ClaimableUnlocked(c) == chunk[c].status = "PENDING"

Claimable(c) == chunk[c].status = "PENDING" /\ ~Locked(c)

\* Worker w is between the claim and the end of process_chunk.
Holds(w, c) == wk[w].pc \notin {"idle", "claiming"} /\ wk[w].job = c

ChunkIsActive(c) ==
  Active(chunk[c]) /\ phase \notin {"CANCELLING", "CANCELLED", "FAILED"}

Goto(w, pc) == wk' = [wk EXCEPT ![w].pc = pc]
Leave(w) == wk' = [wk EXCEPT ![w] = Idle]
UpdateRow(c, r) == chunk' = [chunk EXCEPT ![c] = r]

ClaimBegin(w) ==
  /\ wk[w].pc = "idle"
  /\ phase = "BULK_LOADING" /\ ~paused
  /\ Cardinality({c \in Chunks : Active(chunk[c])}) < ParallelLimit
  /\ \E c \in Chunks :
       /\ Claimable(c)
       /\ \A d \in Chunks : d < c => ~Claimable(d)
       /\ wk' = [wk EXCEPT ![w] = [pc |-> "claiming", job |-> c, pos |-> 0]]
  /\ UNCHANGED <<phase, paused, chunk, copies, chunksDone, tick, deaths, asked>>

ClaimCommit(w) ==
  /\ wk[w].pc = "claiming"
  /\ UpdateRow(wk[w].job, ClaimRow(chunk[wk[w].job]))
  /\ Goto(w, "check")
  /\ UNCHANGED <<phase, paused, copies, chunksDone, tick, deaths, asked>>

\* Mutant of Check: the last batch is taken for the end of the chunk.
CheckOffByOne(w) ==
  /\ wk[w].pc = "check"
  /\ Goto(w, IF ~ChunkIsActive(wk[w].job) THEN "cancel"
             ELSE IF wk[w].pos + 1 < Batches THEN "flush" ELSE "complete")
  /\ UNCHANGED <<phase, paused, chunk, copies, chunksDone, tick, deaths, asked>>

\* _ensure_chunk_active before the fetch and before the flush of a batch;
\* an empty fetch ends the chunk.
Check(w) ==
  /\ wk[w].pc = "check"
  /\ Goto(w, IF ~ChunkIsActive(wk[w].job) THEN "cancel"
             ELSE IF wk[w].pos < Batches THEN "flush" ELSE "complete")
  /\ UNCHANGED <<phase, paused, chunk, copies, chunksDone, tick, deaths, asked>>

\* Opening a connection, the query or a fetch raises; ORA-01555 is permanent.
ReadFails(w) ==
  /\ wk[w].pc = "check"
  /\ \E pc \in {"fail", "failfinal"} : Goto(w, pc)
  /\ UNCHANGED <<phase, paused, chunk, copies, chunksDone, tick, deaths, asked>>

InsertBatch(w) ==
  copies' = [copies EXCEPT ![wk[w].job][wk[w].pos + 1] = IF @ = 0 THEN 1 ELSE 2]

Flush(w) ==
  /\ wk[w].pc = "flush"
  /\ InsertBatch(w)
  /\ Goto(w, "progress")
  /\ UNCHANGED <<phase, paused, chunk, chunksDone, tick, deaths, asked>>

\* Oracle committed and the answer was lost: a protocol error is retried by
\* _flush_batch_fallback, any other error ends the attempt.
FlushAnswerLost(w) ==
  /\ wk[w].pc = "flush"
  /\ InsertBatch(w)
  /\ \E pc \in {"flush", "fail"} : Goto(w, pc)
  /\ UNCHANGED <<phase, paused, chunk, chunksDone, tick, deaths, asked>>

FlushFails(w) ==
  /\ wk[w].pc = "flush"
  /\ Goto(w, "fail")
  /\ UNCHANGED <<phase, paused, chunk, copies, chunksDone, tick, deaths, asked>>

Progress(w) ==
  /\ wk[w].pc = "progress" /\ ~Locked(wk[w].job)
  /\ UpdateRow(wk[w].job, ProgressRow(chunk[wk[w].job]))
  /\ wk' = [wk EXCEPT ![w].pc = "check", ![w].pos = @ + 1]
  /\ UNCHANGED <<phase, paused, copies, chunksDone, tick, deaths, asked>>

\* Mutant of Complete: a completion whose answer is lost is sent again.
CompleteAgain(w) ==
  /\ wk[w].pc = "complete" /\ ~Locked(wk[w].job)
  /\ UpdateRow(wk[w].job, CompleteRow(chunk[wk[w].job]))
  /\ chunksDone' = IF chunksDone > NumChunks THEN chunksDone ELSE chunksDone + 1
  /\ Leave(w) \/ UNCHANGED wk
  /\ UNCHANGED <<phase, paused, copies, tick, deaths, asked>>

Complete(w) ==
  /\ wk[w].pc = "complete" /\ ~Locked(wk[w].job)
  /\ UpdateRow(wk[w].job, CompleteRow(chunk[wk[w].job]))
  /\ chunksDone' = IF chunksDone > NumChunks THEN chunksDone ELSE chunksDone + 1
  /\ Leave(w)
  /\ UNCHANGED <<phase, paused, copies, tick, deaths, asked>>

CancelChunk(w) ==
  /\ wk[w].pc = "cancel" /\ ~Locked(wk[w].job)
  /\ UpdateRow(wk[w].job, CancelRow(chunk[wk[w].job]))
  /\ Leave(w)
  /\ UNCHANGED <<phase, paused, copies, chunksDone, tick, deaths, asked>>

FailChunk(w) ==
  /\ wk[w].pc \in {"fail", "failfinal"} /\ ~Locked(wk[w].job)
  /\ UpdateRow(wk[w].job,
       IF wk[w].pc = "failfinal" THEN FailPermanentRow(chunk[wk[w].job])
                                 ELSE FailRow(chunk[wk[w].job]))
  /\ Leave(w)
  /\ UNCHANGED <<phase, paused, copies, chunksDone, tick, deaths, asked>>

\* The process dies and is restarted, or loses its State DB connection (then
\* fail_chunk fails too, silently): the row stays as it is.
Abandon(w) ==
  /\ wk[w].pc # "idle" /\ deaths < MaxDeaths
  /\ Leave(w)
  /\ deaths' = deaths + 1
  /\ UNCHANGED <<phase, paused, chunk, copies, chunksDone, tick, asked>>

\* claimed_at passes the ten minutes: of a claim nobody works on, or, when
\* Late, of any claim (nothing refreshes claimed_at while a chunk is loaded).
Age(c) ==
  /\ Active(chunk[c]) /\ chunk[c].claimed_at = "fresh"
  /\ Late \/ ~\E w \in Workers : Holds(w, c)
  /\ UpdateRow(c, [chunk[c] EXCEPT !.claimed_at = "stale"])
  /\ UNCHANGED <<phase, paused, wk, copies, chunksDone, tick, deaths, asked>>

----------------------------------------------------------------------------
(* The coordinator's tick thread. *)

\* reset_stale_chunks, then get_active_migrations and _dispatch with the row
\* just read: a paused migration is not in the list; _handle_cancelling
\* decides at once.
TickRead ==
  /\ tick = "read"
  /\ chunk' = IF phase = "BULK_LOADING"
              THEN [c \in Chunks |-> ResetStaleRow(chunk[c])] ELSE chunk
  /\ tick' = CASE ~paused /\ phase = "BULK_LOADING" -> "count"
               [] ~paused /\ phase = "CANCELLING" -> "CANCELLED"
               [] OTHER -> "read"
  /\ UNCHANGED <<phase, paused, wk, copies, chunksDone, deaths, asked>>

\* Mutant of TickCount: finished is taken for done.
TickCountFinished ==
  /\ tick = "count"
  /\ tick' = IF \A c \in Chunks : chunk[c].status \in {"DONE", "FAILED"}
             THEN "BULK_LOADED" ELSE "read"
  /\ UNCHANGED <<phase, paused, chunk, wk, copies, chunksDone, deaths, asked>>

\* _handle_bulk_loading reads the chunk statistics in a transaction of its own.
TickCount ==
  /\ tick = "count"
  /\ tick' = CASE \A c \in Chunks : chunk[c].status = "DONE" -> "BULK_LOADED"
               [] /\ \E c \in Chunks : chunk[c].status = "FAILED"
                  /\ \A c \in Chunks : chunk[c].status \in {"DONE", "FAILED"} -> "FAILED"
               [] OTHER -> "read"
  /\ UNCHANGED <<phase, paused, chunk, wk, copies, chunksDone, deaths, asked>>

\* _transition: whatever the phase has become in the meantime.
TickTransition ==
  /\ tick \in {"BULK_LOADED", "FAILED", "CANCELLED"}
  /\ phase' = tick
  /\ tick' = "read"
  /\ UNCHANGED <<paused, chunk, wk, copies, chunksDone, deaths, asked>>

CoordinatorRestarts ==
  /\ tick # "read" /\ deaths < MaxDeaths
  /\ tick' = "read"
  /\ deaths' = deaths + 1
  /\ UNCHANGED <<phase, paused, chunk, wk, copies, chunksDone, asked>>

\* A State DB error in a handler: _tick catches it and fails the migration,
\* whatever its phase.
TickRaises ==
  /\ tick # "read" /\ deaths < MaxDeaths
  /\ tick' = "FAILED"
  /\ deaths' = deaths + 1
  /\ UNCHANGED <<phase, paused, chunk, wk, copies, chunksDone, asked>>

----------------------------------------------------------------------------
(* The operator. *)

CancelMigration ==   \* action "cancel": from any phase
  /\ phase' = "CANCELLING"
  /\ UNCHANGED <<paused, chunk, wk, copies, chunksDone, tick, deaths, asked>>

Pause ==
  /\ phase \in {"BULK_LOADING", "BULK_LOADED"}
  /\ paused' = TRUE
  /\ UNCHANGED <<phase, chunk, wk, copies, chunksDone, tick, deaths, asked>>

Resume ==
  /\ paused' = FALSE
  /\ UNCHANGED <<phase, chunk, wk, copies, chunksDone, tick, deaths, asked>>

\* retry-chunks: the phase is only checked, not changed.  The UPDATE waits
\* for no claim: a FAILED row is never locked by one.  With no FAILED row the
\* request changes nothing.
RetryFailedChunks ==
  /\ phase \in {"BULK_LOADING", "FAILED"} /\ asked < MaxAsked
  /\ \E c \in Chunks : chunk[c].status = "FAILED"
  /\ chunk' = [c \in Chunks |-> RetryRow(chunk[c])]
  /\ asked' = asked + 1
  /\ UNCHANGED <<phase, paused, wk, copies, chunksDone, tick, deaths>>

----------------------------------------------------------------------------

WorkerStep(w) ==
  \/ ClaimBegin(w) \/ ClaimCommit(w) \/ Check(w) \/ Flush(w) \/ Progress(w)
  \/ Complete(w) \/ CancelChunk(w) \/ FailChunk(w)

WorkerFault(w) == ReadFails(w) \/ FlushAnswerLost(w) \/ FlushFails(w) \/ Abandon(w)

TickStep == TickRead \/ TickCount \/ TickTransition

OperatorStep == CancelMigration \/ Pause \/ Resume \/ RetryFailedChunks

Next ==
  \/ \E w \in Workers : WorkerStep(w) \/ WorkerFault(w)
  \/ \E c \in Chunks : Age(c)
  \/ TickStep \/ CoordinatorRestarts \/ TickRaises
  \/ OperatorStep

Safety == Init /\ [][Next]_vars

\* Workers poll in an endless loop and are restarted by their container, the
\* tick thread runs every TICK_INTERVAL, and time passes.  Neither the
\* operator nor a fault is ever certain.
Fairness ==
  /\ \A w \in Workers : WF_vars(WorkerStep(w))
  /\ WF_vars(\E c \in Chunks : Age(c))
  /\ WF_vars(TickStep)

Spec == Safety /\ Fairness

----------------------------------------------------------------------------
(* Properties. *)

Present(c) == \A b \in 1 .. Batches : copies[c][b] > 0

(* A DONE chunk is wholly in the destination table, and the migration is    *)
(* only ever BULK_LOADED when every chunk is: complete_chunk and            *)
(* _handle_bulk_loading hide no lost rows, even when a stale chunk is given *)
(* to a second worker, its first worker wakes up and writes its status      *)
(* again, attempts fail half-way, or processes die.                         *)
LoadedIsPresent ==
  /\ \A c \in Chunks : chunk[c].status = "DONE" => Present(c)
  /\ phase = "BULK_LOADED" => \A c \in Chunks : Present(c)

(* While no worker overruns the ten minutes, no two workers ever load the   *)
(* same chunk: claims skip locked rows, and a chunk is re-queued only when  *)
(* its worker has given it up (claim_chunk, fail_chunk, reset_stale_chunks, *)
(* retry-chunks).                                                           *)
OneLoaderPerChunk ==
  ~Late => \A c \in Chunks : Cardinality({w \in Workers : Holds(w, c)}) <= 1

(* While no worker overruns the ten minutes, DONE is final: no statement    *)
(* takes a chunk out of DONE and no batch of a DONE chunk is written again. *)
DoneIsFinal ==
  [][~Late => \A c \in Chunks : chunk[c].status = "DONE" =>
       chunk'[c] = chunk[c] /\ copies'[c] = copies[c]]_vars

(* While no worker overruns the ten minutes, the progress counter the UI    *)
(* shows (migrations.chunks_done, an increment per complete_chunk) is the   *)
(* number of DONE chunks, through retries, deaths and re-queued claims.     *)
DoneCounterExact ==
  ~Late => chunksDone = Cardinality({c \in Chunks : chunk[c].status = "DONE"})

(* While no worker overruns the ten minutes, a bulk load that is not paused *)
(* ends: in BULK_LOADED, in FAILED, or because the operator cancelled it.   *)
(* A dead worker's claim is found by reset_stale_chunks, and retries are    *)
(* bounded by _MAX_RETRIES.                                                 *)
LoadEnds ==
  (phase = "BULK_LOADING" /\ ~Late) ~> (phase # "BULK_LOADING" \/ paused)

(* The bulk load implements TableLoad.                                      *)
Units == Chunks \X (1 .. Batches)
Load == INSTANCE TableLoad WITH
          declared <- phase = "BULK_LOADED",
          present <- {u \in Units : copies[u[1]][u[2]] > 0}
ImplementsTableLoad == Load!Spec

(* orchestrator.py:5 and PLAN.md:296: a stale chunk goes back to PENDING,   *)
(* so that it is loaded after all.  A running load therefore never has a    *)
(* CANCELLED chunk: nothing loads those and nothing re-queues them.         *)
NoChunkStranded ==
  phase = "BULK_LOADING" => \A c \in Chunks : chunk[c].status # "CANCELLED"
=============================================================================
