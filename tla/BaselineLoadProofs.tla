------------------------- MODULE BaselineLoadProofs -------------------------
(***************************************************************************)
(* Theorems about what a staged migration writes into its target table:    *)
(* about BaselineLoad, for any number of workers, chunks, keys, retries,   *)
(* faults and restarts, and about CdcApply, for any number of workers,     *)
(* rows, events and troubles and any batch size and poison threshold.      *)
(***************************************************************************)
EXTENDS MCBaselineCdc, TLAPS, WellFoundedInduction

USE MaxRetriesAssumption, BaselineAssumption

WkType == [Workers -> [pc : PCs, job : 0 .. NumChunks, row : BOOLEAN]]
CopiesType == [Rows -> 0 .. 2]
ChunkType == [Chunks -> Row] \cup {NoRows}

----------------------------------------------------------------------------
(* The inductive invariants. *)

(* A worker that is not idle has a chunk; the row it claimed exists, or it  *)
(* knows that it does not; a claim that has not committed holds its row.    *)
JobOK ==
  \A w \in Workers :
    /\ wk[w].pc # "idle" => wk[w].job \in Chunks
    /\ wk[w].row => wk[w].pc # "idle" /\ wk[w].job \in Cut
    /\ wk[w].pc = "claiming" => wk[w].row

TInv == TypeOK /\ JobOK

(* A unique index keeps every key single, committed or about to be.         *)
Single ==
  Keyed =>
    /\ \A k \in Rows : copies[k] <= 1
    /\ \A w \in Workers : wk[w].pc = "commit" => ~Duplicate(w)
    /\ \A v, w \in Workers :
         v # w /\ wk[v].pc = "commit" /\ wk[w].pc = "commit" =>
           StageRows[wk[v].job] \cap StageRows[wk[w].job] = {}

Has(c) == \A k \in StageRows[c] : copies[k] > 0
Lacks(c) == \A k \in StageRows[c] : copies[k] = 0

(* No key is in two chunks of the stage table.                              *)
Disjoint ==
  Keyed => \A c, d \in Chunks : c # d => StageRows[c] \cap StageRows[d] = {}

(* The target has rows of the stage table only, and with a unique index     *)
(* either all the rows of a chunk or none.                                  *)
Clean ==
  /\ \A k \in Rows \ Stage : copies[k] = 0
  /\ Keyed => \A c \in Chunks : Has(c) \/ Lacks(c)

AboutToPublish == {"count", "BASELINE_PUBLISHED", "STAGE_DROPPING", "drop"}
\* Has the migration got beyond the publishing thread?
Beyond == phase \in {"BASELINE_LOADING"} \cup Published \/ tick \in AboutToPublish

(* Until the target is truncated for the first time nothing is loaded.      *)
CleanOrUntouched ==
  \/ Clean
  \/ /\ chunk = NoRows /\ \A w \in Workers : wk[w].pc = "idle"
     /\ thread \in {"none", "drain", "delete", "truncate", "publish failed?",
                    "publish failed"}
     /\ ~Beyond

(* A chunk that is DONE, or whose worker is about to say so, is in the      *)
(* target.                                                                  *)
DoneIsThere ==
  /\ \A c \in Cut : chunk[c].status = "DONE" => Has(c)
  /\ \A w \in Workers :
       wk[w].row /\ wk[w].pc \in {"progress", "complete"} => Has(wk[w].job)

(* No row of the previous run is left when the target is truncated.         *)
NoRowLeft ==
  thread \in {"truncate", "chunk"} => chunk = NoRows /\ \A w \in Workers : ~wk[w].row

(* The publishing thread is alone: nobody loads or declares anything while  *)
(* it runs.                                                                 *)
PublishingAlone ==
  thread \in {"drain", "delete", "truncate", "chunk", "loading?", "loading",
              "publish failed?", "publish failed"} => ~Beyond

(* Everything is in the target once that has been decided.                  *)
AllLoaded ==
  (\/ phase \in Published
   \/ tick \in {"BASELINE_PUBLISHED", "STAGE_DROPPING", "drop"}
   \/ thread \in {"drop", "indexes?", "indexes", "drop failed?", "drop failed"})
     => Clean /\ \A c \in Chunks : Has(c)

IInv == TInv /\ CleanOrUntouched /\ DoneIsThere /\ NoRowLeft /\ PublishingAlone /\ AllLoaded

----------------------------------------------------------------------------
(* Rows of migration_chunks. *)

(* Every statement on a row of migration_chunks yields a row.               *)
LEMMA NewRowType == NewRow \in Row
BY DEF NewRow, Row, Statuses, Ages

LEMMA RowTypes ==
  ASSUME NEW r \in Row
  PROVE  /\ ClaimRow(r) \in Row
         /\ ProgressRow(r) \in Row
         /\ CompleteRow(r) \in Row
         /\ CancelRow(r) \in Row
         /\ FailPermanentRow(r) \in Row
         /\ FailRow(r) \in Row
         /\ ResetStaleRow(r) \in Row
         /\ [r EXCEPT !.claimed_at = "stale"] \in Row
<1> USE DEF Row, Statuses, Ages
<1>2. ClaimRow(r) \in Row /\ ProgressRow(r) \in Row /\ CompleteRow(r) \in Row
  BY DEF ClaimRow, ProgressRow, CompleteRow
<1>3. CancelRow(r) \in Row /\ FailPermanentRow(r) \in Row
  BY DEF CancelRow, FailPermanentRow
<1>4. FailRow(r) \in Row
  BY DEF FailRow, FailPermanentRow
<1>5. ResetStaleRow(r) \in Row
  BY DEF ResetStaleRow
<1>6. [r EXCEPT !.claimed_at = "stale"] \in Row
  OBVIOUS
<1> QED
  BY ONLY <1>2, <1>3, <1>4, <1>5, <1>6

(* No statement but complete_chunk makes a row DONE.                        *)
LEMMA RowsNotDone ==
  ASSUME NEW r \in Row
  PROVE  /\ NewRow.status # "DONE"
         /\ ClaimRow(r).status # "DONE"
         /\ ProgressRow(r).status # "DONE"
         /\ CancelRow(r).status = "DONE" => r.status = "DONE"
         /\ FailPermanentRow(r).status # "DONE"
         /\ FailRow(r).status # "DONE"
         /\ ResetStaleRow(r).status = "DONE" => r.status = "DONE"
         /\ [r EXCEPT !.claimed_at = "stale"].status = r.status
BY DEF Row, NewRow, ClaimRow, ProgressRow, CancelRow, FailPermanentRow, FailRow,
       ResetStaleRow

(* There are the rows of all chunks or none.                                *)
LEMMA AllOrNone ==
  ASSUME chunk \in ChunkType
  PROVE  \/ Cut = Chunks /\ chunk \in [Chunks -> Row]
         \/ Cut = {} /\ chunk = NoRows
BY DEF ChunkType, NoRows, Cut

LEMMA NoneIsNoRows ==
  ASSUME NEW f \in ChunkType, DOMAIN f = {}
  PROVE  f = NoRows
BY DEF ChunkType, NoRows, Chunks

----------------------------------------------------------------------------
(* What a worker's step changes: its own state, its row, and at its commit  *)
(* the keys of its chunk.                                                   *)

AnyStep(w) == WorkerStep(w) \/ ChunkFault(w) \/ Abandon(w)

LEMMA WorkerFrame ==
  ASSUME NEW w \in Workers, AnyStep(w)
  PROVE  /\ UNCHANGED <<phase, restartable, staged, thread, tick, request, restarts>>
         /\ faults' = faults \/ (faults < MaxFaults /\ faults' = faults + 1)
         /\ UNCHANGED copies \/ (wk[w].pc = "commit" /\ AddRows(w) /\ UNCHANGED chunk)
         /\ wk[w].pc = "idle" => phase = "BASELINE_LOADING"
BY DEF AnyStep, WorkerStep, ChunkFault, Abandon, ClaimBegin, ClaimCommit, Check,
       Insert, InsertDuplicate, Commit, Progress, Complete, CancelChunk, FailChunk,
       Fault, UpdateRow, oracle, coordinator, bounds

(* A worker's row.                                                          *)
LEMMA WorkerChunk ==
  ASSUME TInv, NEW w \in Workers, AnyStep(w)
  PROVE  /\ chunk' \in ChunkType
         /\ Cut' = Cut
         /\ \A c \in Cut : chunk'[c].status = "DONE" =>
              \/ chunk[c].status = "DONE"
              \/ wk[w].row /\ wk[w].pc = "complete" /\ wk[w].job = c
<1>a. chunk \in ChunkType
  BY DEF TInv, TypeOK, ChunkType
<1>b. wk[w].row => wk[w].job \in Cut /\ chunk \in [Chunks -> Row] /\ Cut = Chunks
  BY <1>a, AllOrNone DEF TInv, JobOK
<1>c. wk[w].row => MyRow(w) \in Row
  BY <1>b DEF MyRow
<1>1. CASE UNCHANGED chunk
  BY <1>1, <1>a DEF Cut
<1>2. ASSUME wk[w].row,
             NEW r \in Row, chunk' = [chunk EXCEPT ![wk[w].job] = r],
             r.status = "DONE" => MyRow(w).status = "DONE" \/ wk[w].pc = "complete"
      PROVE  /\ chunk' \in ChunkType
             /\ Cut' = Cut
             /\ \A c \in Cut : chunk'[c].status = "DONE" =>
                  \/ chunk[c].status = "DONE"
                  \/ wk[w].row /\ wk[w].pc = "complete" /\ wk[w].job = c
  <2>1. chunk' \in [Chunks -> Row]
    BY <1>2, <1>b
  <2>2. Cut' = Cut
    BY <2>1, <1>2, <1>b DEF Cut
  <2>3. \A c \in Cut : chunk'[c] = IF c = wk[w].job THEN r ELSE chunk[c]
    BY <1>2, <1>b
  <2> QED
    BY <2>1, <2>2, <2>3, <1>2 DEF ChunkType, MyRow
<1>3. CASE ClaimCommit(w)
  <2>1. wk[w].row
    BY <1>3 DEF ClaimCommit, TInv, JobOK
  <2>2. chunk' = [chunk EXCEPT ![wk[w].job] = ClaimRow(MyRow(w))]
    BY <1>3 DEF ClaimCommit, MyRow
  <2> QED
    BY <1>2, <1>c, <2>1, <2>2, RowTypes, RowsNotDone
<1>4. CASE Progress(w)
  BY <1>1, <1>2, <1>4, <1>c, RowTypes, RowsNotDone DEF Progress, UpdateRow
<1>5. CASE Complete(w)
  BY <1>1, <1>2, <1>5, <1>c, RowTypes DEF Complete, UpdateRow
<1>6. CASE CancelChunk(w)
  BY <1>1, <1>2, <1>6, <1>c, RowTypes, RowsNotDone DEF CancelChunk, UpdateRow
<1>7. CASE FailChunk(w)
  BY <1>1, <1>2, <1>7, <1>c, RowTypes, RowsNotDone DEF FailChunk, UpdateRow
<1> QED
  BY <1>1, <1>3, <1>4, <1>5, <1>6, <1>7 DEF AnyStep, WorkerStep, ChunkFault, Abandon,
     ClaimBegin, Check, Insert, InsertDuplicate, Commit

(* A worker's own state: a new job only from a claim, and what it must have *)
(* found to be where it is.                                                 *)
LEMMA WorkerOwn ==
  ASSUME TInv, NEW w \in Workers, AnyStep(w)
  PROVE  /\ wk' \in WkType
         /\ \A v \in Workers : v # w => wk'[v] = wk[v]
         /\ \/ wk'[w] = Idle
            \/ /\ wk[w].pc = "idle" /\ phase = "BASELINE_LOADING"
               /\ wk'[w].pc = "claiming" /\ wk'[w].job \in Cut /\ wk'[w].row
            \/ /\ wk[w].pc # "idle" /\ wk'[w].pc \notin {"idle", "claiming"}
               /\ wk'[w].job = wk[w].job /\ wk'[w].row = wk[w].row
               /\ wk'[w].pc = "commit" =>
                    UNCHANGED copies /\ ~Waits(w) /\ ~Duplicate(w)
               /\ wk'[w].pc \in {"progress", "complete"} =>
                    \/ wk[w].pc = "commit" /\ AddRows(w)
                    \/ wk[w].pc = "progress" /\ UNCHANGED copies
                    \/ Duplicate(w) /\ UNCHANGED copies
<1>a. wk \in WkType /\ chunk \in ChunkType
  BY DEF TInv, TypeOK, WkType, ChunkType
<1>b. Idle \in [pc : PCs, job : 0 .. NumChunks, row : BOOLEAN]
  BY DEF Idle, PCs, NoChunk
<1>c. ASSUME Leave(w)
      PROVE  wk' \in WkType /\ wk'[w] = Idle /\ \A v \in Workers : v # w => wk'[v] = wk[v]
  BY <1>a, <1>b, <1>c DEF Leave, WkType
<1>d. ASSUME NEW p \in PCs, Goto(w, p)
      PROVE  /\ wk' \in WkType /\ \A v \in Workers : v # w => wk'[v] = wk[v]
             /\ wk'[w].pc = p /\ wk'[w].job = wk[w].job /\ wk'[w].row = wk[w].row
  BY <1>a, <1>d DEF Goto, WkType
<1>1. CASE ClaimBegin(w)
  <2>1. PICK c \in Cut : wk' = [wk EXCEPT ![w] = [pc |-> "claiming", job |-> c, row |-> TRUE]]
    BY <1>1 DEF ClaimBegin
  <2>2. c \in Chunks
    BY <1>a, AllOrNone
  <2>3. [pc |-> "claiming", job |-> c, row |-> TRUE]
          \in [pc : PCs, job : 0 .. NumChunks, row : BOOLEAN]
    BY <2>2 DEF PCs, Chunks
  <2>4. wk' \in WkType /\ \A v \in Workers : v # w => wk'[v] = wk[v]
    BY <1>a, <2>1, <2>3 DEF WkType
  <2>5. wk'[w] = [pc |-> "claiming", job |-> c, row |-> TRUE]
    BY <1>a, <2>1 DEF WkType
  <2> QED
    BY <1>1, <2>4, <2>5 DEF ClaimBegin
<1>2. CASE ClaimCommit(w)
  BY <1>2, <1>d DEF ClaimCommit, PCs
<1>3. CASE Check(w)
  BY <1>3, <1>d DEF Check, PCs
<1>4. CASE Insert(w)
  BY <1>4, <1>d DEF Insert, PCs, oracle
<1>5. CASE InsertDuplicate(w)
  BY <1>5, <1>d DEF InsertDuplicate, PCs, oracle
<1>6. CASE Commit(w)
  BY <1>6, <1>d DEF Commit, PCs
<1>7. CASE Progress(w)
  BY <1>7, <1>d DEF Progress, PCs, oracle
<1>8. CASE Complete(w) \/ CancelChunk(w) \/ FailChunk(w) \/ Abandon(w)
  BY <1>8, <1>c DEF Complete, CancelChunk, FailChunk, Abandon
<1>9. CASE ChunkFault(w)
  BY <1>9, <1>d DEF ChunkFault, PCs
<1> QED
  BY <1>1, <1>2, <1>3, <1>4, <1>5, <1>6, <1>7, <1>8, <1>9 DEF AnyStep, WorkerStep

(* Everything but a worker's step leaves where the workers are; only the    *)
(* publishing thread deletes their rows.                                    *)
LEMMA OtherFrame ==
  ASSUME [Next]_vars
  PROVE  \/ \E w \in Workers : AnyStep(w)
         \/ DeleteRows
         \/ UNCHANGED wk
BY DEF Next, AnyStep, Age, ThreadStep, Drain, Truncate, CutStage, DropStage,
       ReadPhase, Advance, ReadPhaseOfFailure, ThreadFails, ThreadRaises, TickStep,
       TickRead, TickStart, TickCancel, TickCount, TickTransition, TickRaises,
       CoordinatorRestarts, CancelMigration, RestartBaseline, RequestStep,
       CancelPending, BackToPublishing, queue, vars

(* The statements that touch every row: each leaves rows where rows were.   *)
LEMMA AllRows ==
  ASSUME chunk \in ChunkType, NEW next,
         next = [c \in Cut |-> next[c]], \A c \in Cut : next[c] \in Row
  PROVE  next \in ChunkType /\ DOMAIN next = Cut
<1>1. CASE Cut = Chunks /\ chunk \in [Chunks -> Row]
  BY <1>1 DEF ChunkType
<1>2. CASE Cut = {} /\ chunk = NoRows
  <2>1. next = NoRows
    BY <1>2 DEF NoRows
  <2> QED
    BY <1>2, <2>1 DEF ChunkType, NoRows
<1> QED
  BY <1>1, <1>2, AllOrNone

----------------------------------------------------------------------------
(* Type correctness. *)

LEMMA InitTInv == Init => TInv
<1> SUFFICES ASSUME Init PROVE TInv
  OBVIOUS
<1>1. wk \in WkType
  BY DEF Init, WkType, Idle, PCs, NoChunk
<1>2. copies \in CopiesType
  BY DEF Init, CopiesType
<1>3. chunk \in ChunkType
  BY DEF Init, ChunkType
<1>6. /\ phase \in Phases /\ thread \in Threads /\ tick \in Ticks
      /\ request \in {"none", "cancel", "transition"}
      /\ faults \in 0 .. MaxFaults /\ restarts \in 0 .. MaxRestarts
  BY DEF Init, Phases, Threads, Ticks
<1>7. restartable \in BOOLEAN /\ staged \in BOOLEAN
  BY DEF Init
<1>4. TypeOK
  BY <1>1, <1>2, <1>3, <1>6, <1>7 DEF TypeOK, WkType, CopiesType, ChunkType
<1>5. JobOK
  BY DEF Init, JobOK, Idle
<1> QED
  BY <1>4, <1>5 DEF TInv

LEMMA NextChunkType ==
  ASSUME TInv, [Next]_vars
  PROVE  /\ chunk' \in ChunkType
         /\ Cut' = Cut \/ DeleteRows \/ CutStage
<1>a. chunk \in ChunkType
  BY DEF TInv, TypeOK, ChunkType
<1>1. CASE UNCHANGED chunk
  BY <1>1, <1>a DEF Cut
<1>2. ASSUME NEW w \in Workers, AnyStep(w)
      PROVE  chunk' \in ChunkType /\ Cut' = Cut
  BY <1>2, WorkerChunk
<1>3. ASSUME NEW c \in Cut, Age(c)
      PROVE  chunk' \in ChunkType /\ Cut' = Cut
  <2>1. chunk \in [Chunks -> Row] /\ Cut = Chunks
    BY <1>a, AllOrNone
  <2>2. [chunk[c] EXCEPT !.claimed_at = "stale"] \in Row
    BY <2>1, RowTypes
  <2> QED
    BY <1>3, <2>1, <2>2 DEF Age, ChunkType, Cut
<1>4. CASE DeleteRows
  BY <1>4 DEF DeleteRows, ChunkType
<1>5. CASE CutStage
  BY <1>5, <1>a, NewRowType DEF CutStage, ChunkType
<1>b. \A c \in Cut : chunk[c] \in Row
  BY <1>a, AllOrNone
<1>6. CASE TickRead
  <2>1. CASE phase = "BASELINE_LOADING"
    <3>1. chunk' = [c \in Cut |-> ResetStaleRow(chunk[c])]
      BY <1>6, <2>1 DEF TickRead
    <3>2. \A c \in Cut : chunk'[c] \in Row
      BY <3>1, <1>b, RowTypes
    <3> QED
      BY <3>1, <3>2, <1>a, AllRows DEF Cut
  <2>2. CASE phase # "BASELINE_LOADING"
    BY <1>1, <1>6, <2>2 DEF TickRead
  <2> QED
    BY <2>1, <2>2
<1>7. CASE CancelPending
  <2>1. chunk' = [c \in Cut |-> IF chunk[c].status = "PENDING"
                                THEN CancelRow(chunk[c]) ELSE chunk[c]]
    BY <1>7 DEF CancelPending
  <2>2. \A c \in Cut : chunk'[c] \in Row
    BY <2>1, <1>b, RowTypes
  <2> QED
    BY <2>1, <2>2, <1>a, AllRows DEF Cut
<1> QED
  BY <1>1, <1>2, <1>3, <1>4, <1>5, <1>6, <1>7 DEF Next, AnyStep, ThreadStep, Drain,
     Truncate, DropStage, ReadPhase, Advance, ReadPhaseOfFailure, ThreadFails,
     ThreadRaises, TickStep, TickStart, TickCancel, TickCount, TickTransition,
     TickRaises, CoordinatorRestarts, CancelMigration, RestartBaseline, RequestStep,
     BackToPublishing, queue, vars

(* The keys of the target change with a commit and with TRUNCATE.           *)
LEMMA NextCopies ==
  ASSUME [Next]_vars
  PROVE  \/ UNCHANGED copies
         \/ \E w \in Workers : AnyStep(w) /\ wk[w].pc = "commit" /\ AddRows(w)
         \/ Truncate /\ thread' = "chunk" /\ copies' = [k \in Rows |-> 0]
<1>1. ASSUME NEW w \in Workers, AnyStep(w)
      PROVE  UNCHANGED copies \/ (wk[w].pc = "commit" /\ AddRows(w))
  BY <1>1, WorkerFrame
<1>2. CASE Truncate
  BY <1>2 DEF Truncate, ThreadGoto
<1> QED
  BY <1>1, <1>2 DEF Next, AnyStep, Age, ThreadStep, Drain, DeleteRows, CutStage,
     DropStage, ReadPhase, Advance, ReadPhaseOfFailure, ThreadFails, ThreadRaises,
     TickStep, TickRead, TickStart, TickCancel, TickCount, TickTransition, TickRaises,
     CoordinatorRestarts, CancelMigration, RestartBaseline, RequestStep,
     CancelPending, BackToPublishing, queue, oracle, vars

LEMMA NextTInv ==
  ASSUME TInv, [Next]_vars
  PROVE  TInv'
<1>a. /\ phase \in Phases /\ thread \in Threads /\ tick \in Ticks
      /\ restartable \in BOOLEAN /\ staged \in BOOLEAN
      /\ request \in {"none", "cancel", "transition"}
      /\ faults \in 0 .. MaxFaults /\ restarts \in 0 .. MaxRestarts
      /\ wk \in WkType /\ copies \in CopiesType
  BY DEF TInv, TypeOK, WkType, CopiesType
<1>b. TypeOK' <=>
        /\ phase' \in Phases /\ thread' \in Threads /\ tick' \in Ticks
        /\ restartable' \in BOOLEAN /\ staged' \in BOOLEAN
        /\ request' \in {"none", "cancel", "transition"}
        /\ faults' \in 0 .. MaxFaults /\ restarts' \in 0 .. MaxRestarts
        /\ wk' \in WkType /\ copies' \in CopiesType /\ chunk' \in ChunkType
  BY DEF TypeOK, WkType, CopiesType, ChunkType
<1>1. chunk' \in ChunkType
  BY NextChunkType
<1>2. copies' \in CopiesType
  BY <1>a, NextCopies DEF AddRows, CopiesType
<1>3. wk' \in WkType
  <2>1. CASE DeleteRows
    BY <2>1, <1>a DEF DeleteRows, WkType
  <2> QED
    BY <2>1, <1>a, OtherFrame, WorkerOwn
<1>6. restartable' \in BOOLEAN
  <2>1. CASE UNCHANGED restartable
    BY <2>1, <1>a
  <2>2. CASE TickTransition
    BY <2>2, <1>a DEF TickTransition
  <2>3. CASE ThreadFails
    BY <2>3 DEF ThreadFails
  <2>4. CASE BackToPublishing
    BY <2>4 DEF BackToPublishing
  <2> QED
    BY <2>1, <2>2, <2>3, <2>4, WorkerFrame DEF Next, AnyStep, Age, ThreadStep, Drain,
       DeleteRows, Truncate, CutStage, DropStage, ReadPhase, Advance,
       ReadPhaseOfFailure, ThreadRaises, TickStep, TickRead, TickStart, TickCancel,
       TickCount, TickRaises, CoordinatorRestarts, CancelMigration, RestartBaseline,
       RequestStep, CancelPending, vars
<1>7. staged' \in BOOLEAN
  <2>1. CASE DropStage
    BY <2>1 DEF DropStage
  <2> QED
    BY <1>a, <2>1, WorkerFrame DEF Next, AnyStep, Age, ThreadStep, Drain, DeleteRows,
       Truncate, CutStage, ReadPhase, Advance, ReadPhaseOfFailure, ThreadFails,
       ThreadRaises, TickStep, TickRead, TickStart, TickCancel, TickCount,
       TickTransition, TickRaises, CoordinatorRestarts, CancelMigration,
       RestartBaseline, RequestStep, CancelPending, BackToPublishing, oracle, vars
<1>4. /\ phase' \in Phases /\ thread' \in Threads /\ tick' \in Ticks
      /\ request' \in {"none", "cancel", "transition"}
      /\ faults' \in 0 .. MaxFaults /\ restarts' \in 0 .. MaxRestarts
  <2>1. ASSUME NEW w \in Workers, AnyStep(w)
        PROVE  /\ UNCHANGED <<phase, thread, tick, request, restarts>>
               /\ faults' \in 0 .. MaxFaults
    BY <2>1, <1>a, WorkerFrame
  <2>2. CASE ThreadStep
    BY <2>2, <1>a DEF ThreadStep, Drain, DeleteRows, Truncate, CutStage, DropStage,
       ReadPhase, Advance, ReadPhaseOfFailure, ThreadFails, ThreadGoto, Phases,
       Published, Threads, bounds
  <2>3. CASE TickStep
    <3>1. CASE TickRead
      BY <3>1, <1>a DEF TickRead, Ticks, bounds
    <3>2. CASE TickStart \/ TickCancel \/ TickCount
      BY <3>2, <1>a DEF TickStart, TickCancel, TickCount, ThreadGoto, Ticks, Threads,
         bounds
    <3>3. CASE TickTransition
      BY <3>3, <1>a DEF TickTransition, Ticks, Phases, Published, bounds
    <3> QED
      BY <2>3, <3>1, <3>2, <3>3 DEF TickStep
  <2>4. CASE ThreadRaises \/ TickRaises \/ CoordinatorRestarts
    <3>1. faults' \in 0 .. MaxFaults
      <4>1. faults < MaxFaults /\ faults' = faults + 1
        BY <2>4 DEF ThreadRaises, TickRaises, CoordinatorRestarts, Fault
      <4> QED
        BY <4>1, <1>a
    <3> QED
      BY <3>1, <2>4, <1>a DEF ThreadRaises, TickRaises, CoordinatorRestarts,
         ThreadGoto, Threads, Ticks
  <2>5. CASE CancelMigration \/ RestartBaseline \/ RequestStep
    BY <2>5, <1>a DEF CancelMigration, RestartBaseline, RequestStep, CancelPending,
       BackToPublishing, Phases, bounds, oracle, coordinator
  <2> QED
    BY <1>a, <2>1, <2>2, <2>3, <2>4, <2>5 DEF Next, AnyStep, Age, oracle,
       coordinator, bounds, vars
<1>5. JobOK'
  <2>1. ASSUME NEW w \in Workers, AnyStep(w)
        PROVE  JobOK'
    <3>1. Cut' = Cut /\ Cut \subseteq Chunks
      BY <2>1, WorkerChunk, AllOrNone DEF TInv, TypeOK, ChunkType
    <3> QED
      BY <2>1, <3>1, WorkerOwn DEF TInv, JobOK, Idle
  <2>2. CASE DeleteRows
    <3>1. \A w \in Workers : /\ wk'[w].pc = wk[w].pc /\ wk'[w].job = wk[w].job
                             /\ wk'[w].row = FALSE
      BY <2>2, <1>a DEF DeleteRows, WkType
    <3>2. \A w \in Workers : wk[w].pc # "claiming"
      BY <2>2 DEF DeleteRows, Locked, TInv, JobOK
    <3> QED
      BY <3>1, <3>2 DEF TInv, JobOK
  <2>3. CASE UNCHANGED wk /\ Cut \subseteq Cut'
    BY <2>3 DEF TInv, JobOK
  <2>4. CASE CutStage
    <3>1. Cut \subseteq Cut'
      BY <2>4, AllOrNone DEF CutStage, TInv, TypeOK, ChunkType, Cut
    <3> QED
      BY <2>3, <2>4, <3>1 DEF CutStage, queue
  <2> QED
    BY <2>1, <2>2, <2>3, <2>4, OtherFrame, NextChunkType
<1> QED
  BY <1>b, <1>1, <1>2, <1>3, <1>4, <1>5, <1>6, <1>7 DEF TInv

(* Every variable keeps its type: a worker never acts on a chunk that there *)
(* is not, and a claim in progress keeps its row from being deleted.        *)
THEOREM TypeCorrect == Safety => []TypeOK
<1>1. Safety => []TInv
  BY InitTInv, NextTInv, PTL DEF Safety
<1>2. TInv => TypeOK
  BY DEF TInv
<1> QED
  BY <1>1, <1>2, PTL

----------------------------------------------------------------------------
(* A unique index keeps every key single. *)

LEMMA NextSingle ==
  ASSUME TInv, Single, [Next]_vars
  PROVE  Single'
<1> SUFFICES ASSUME Keyed
             PROVE  Single'
  BY DEF Single
<1>a. /\ \A k \in Rows : copies[k] \in 0 .. 1
      /\ \A v \in Workers : wk[v].pc = "commit" =>
           wk[v].job \in Chunks /\ \A k \in StageRows[wk[v].job] : copies[k] = 0
      /\ \A v, w \in Workers : v # w /\ wk[v].pc = "commit" /\ wk[w].pc = "commit" =>
           StageRows[wk[v].job] \cap StageRows[wk[w].job] = {}
  <2>1. copies \in CopiesType
    BY DEF TInv, TypeOK, CopiesType
  <2>2. \A v \in Workers : wk[v].pc = "commit" =>
          wk[v].job \in Chunks /\ StageRows[wk[v].job] \subseteq Rows
    BY DEF TInv, JobOK
  <2> QED
    BY <2>1, <2>2 DEF Single, Duplicate, CopiesType
<1>1. ASSUME NEW w \in Workers, AnyStep(w)
      PROVE  Single'
  <2>1. \A k \in Rows : copies'[k] <= 1
    BY <1>1, <1>a, WorkerFrame DEF AddRows
  <2>2. \A v \in Workers : v # w => wk'[v] = wk[v]
    BY <1>1, WorkerOwn
  <2>3. ASSUME NEW v \in Workers, v # w, wk[v].pc = "commit"
        PROVE  \A k \in StageRows[wk[v].job] : copies'[k] = 0
    <3>1. \A k \in StageRows[wk[v].job] : k \in Rows
      BY <2>3, <1>a
    <3> QED
      BY <1>1, <1>a, <2>3, <3>1, WorkerFrame DEF AddRows
  <2>4. wk'[w].pc = "commit" =>
          /\ UNCHANGED copies /\ wk'[w].job = wk[w].job
          /\ ~Waits(w) /\ ~Duplicate(w)
    BY <1>1, WorkerOwn DEF Idle
  <2>5. \A v \in Workers : wk'[v].pc = "commit" => ~Duplicate(v)'
    BY <2>2, <2>3, <2>4 DEF Duplicate
  <2>6. \A v \in Workers : v # w /\ wk'[v].pc = "commit" /\ wk'[w].pc = "commit" =>
          StageRows[wk'[v].job] \cap StageRows[wk'[w].job] = {}
    BY <2>2, <2>4 DEF Waits
  <2>7. \A u, v \in Workers : u # v /\ wk'[u].pc = "commit" /\ wk'[v].pc = "commit" =>
          StageRows[wk'[u].job] \cap StageRows[wk'[v].job] = {}
    BY <1>a, <2>2, <2>6
  <2> QED
    BY <2>1, <2>5, <2>7 DEF Single
<1>2. ASSUME \A w \in Workers : wk'[w].pc = wk[w].pc /\ wk'[w].job = wk[w].job,
             \A k \in Rows : copies'[k] = copies[k] \/ copies'[k] = 0
      PROVE  Single'
  <2>1. \A w \in Workers : wk[w].pc = "commit" =>
          \A k \in StageRows[wk[w].job] : copies'[k] = 0
    BY <1>2, <1>a
  <2> QED
    BY <1>2, <1>a, <2>1 DEF Single, Duplicate
<1>3. CASE DeleteRows
  <2>1. wk \in WkType
    BY DEF TInv, TypeOK, WkType
  <2>2. \A w \in Workers : wk'[w].pc = wk[w].pc /\ wk'[w].job = wk[w].job
    BY <1>3, <2>1 DEF DeleteRows, WkType
  <2>3. UNCHANGED copies
    BY <1>3 DEF DeleteRows, oracle
  <2> QED
    BY <1>2, <2>2, <2>3
<1>4. CASE UNCHANGED wk
  <2>1. CASE UNCHANGED copies
    BY <1>2, <1>4, <2>1
  <2>2. CASE copies' = [k \in Rows |-> 0]
    BY <1>2, <1>4, <2>2
  <2> QED
    BY <1>1, <2>1, <2>2, NextCopies
<1> QED
  BY <1>1, <1>3, <1>4, OtherFrame

----------------------------------------------------------------------------
(* The parts of IInv are preserved. *)

(* Only TRUNCATE takes a chunk out of the target.                           *)
LEMMA HasGrows ==
  ASSUME TInv, [Next]_vars, NEW c \in Chunks, Has(c), ~(Truncate /\ thread' = "chunk")
  PROVE  Has(c)'
<1>1. StageRows[c] \subseteq Rows /\ copies \in CopiesType
  BY DEF TInv, TypeOK, CopiesType
<1> QED
  BY <1>1, NextCopies DEF Has, AddRows, CopiesType

(* A commit brings the whole chunk.                                         *)
LEMMA CommitBrings ==
  ASSUME NEW w \in Workers, NEW c \in Chunks, wk[w].job = c, AddRows(w)
  PROVE  Has(c)'
<1>1. StageRows[c] \subseteq Rows
  OBVIOUS
<1>2. \A k \in StageRows[c] : copies'[k] > 0
  BY <1>1 DEF AddRows
<1> QED
  BY <1>2 DEF Has

LEMMA NextClean ==
  ASSUME TInv, Clean, [Next]_vars, Disjoint
  PROVE  Clean'
<1>a. copies \in CopiesType
  BY DEF TInv, TypeOK, CopiesType
<1>1. CASE UNCHANGED copies
  BY <1>1 DEF Clean, Has, Lacks
<1>2. ASSUME NEW w \in Workers, wk[w].pc = "commit", AddRows(w)
      PROVE  Clean'
  <2>1. PICK j \in Chunks : j = wk[w].job
    BY <1>2 DEF TInv, JobOK
  <2>2. \A k \in Rows : k \notin StageRows[j] => copies'[k] = copies[k]
    BY <1>2, <2>1 DEF AddRows
  <2>3. \A k \in Rows \ Stage : copies'[k] = 0
    BY <2>2 DEF Clean, Stage
  <2>4. ASSUME Keyed, NEW c \in Chunks
        PROVE  Has(c)' \/ Lacks(c)'
    <3>1. CASE c = j
      BY <1>2, <2>1, <3>1, CommitBrings
    <3>2. CASE c # j
      <4>1. \A k \in StageRows[c] : k \in Rows /\ k \notin StageRows[j]
        BY <2>4, <3>2 DEF Disjoint
      <4>2. \A k \in StageRows[c] : copies'[k] = copies[k]
        BY <2>2, <4>1
      <4> QED
        BY <2>4, <4>2 DEF Clean, Has, Lacks
    <3> QED
      BY <3>1, <3>2
  <2> QED
    BY <2>3, <2>4 DEF Clean
<1>3. CASE copies' = [k \in Rows |-> 0]
  <2>1. \A c \in Chunks : \A k \in StageRows[c] : copies'[k] = 0
    BY <1>3
  <2> QED
    BY <1>3, <2>1 DEF Clean, Lacks
<1> QED
  BY <1>1, <1>2, <1>3, NextCopies

LEMMA NextCleanOrUntouched ==
  ASSUME TInv, CleanOrUntouched, [Next]_vars, Disjoint
  PROVE  CleanOrUntouched'
<1>1. CASE Clean
  BY <1>1, NextClean DEF CleanOrUntouched
<1>2. CASE Truncate /\ thread' = "chunk"
  <2>1. copies' = [k \in Rows |-> 0]
    BY <1>2 DEF Truncate, ThreadGoto
  <2>2. \A c \in Chunks : \A k \in StageRows[c] : copies'[k] = 0
    BY <2>1
  <2> QED
    BY <2>1, <2>2 DEF CleanOrUntouched, Clean, Lacks
<1>3. ASSUME ~Clean, ~(Truncate /\ thread' = "chunk")
      PROVE  CleanOrUntouched'
  <2>a. /\ chunk = NoRows /\ Cut = {} /\ \A w \in Workers : wk[w].pc = "idle"
        /\ thread \in {"none", "drain", "delete", "truncate", "publish failed?",
                       "publish failed"}
        /\ phase \notin {"BASELINE_LOADING"} \cup Published /\ tick \notin AboutToPublish
    BY <1>3 DEF CleanOrUntouched, Beyond, Cut, NoRows
  <2>1. ~\E w \in Workers : AnyStep(w)
    BY <2>a, WorkerFrame
  <2>2. \A w \in Workers : wk'[w].pc = "idle"
    <3>1. CASE DeleteRows
      BY <3>1, <2>a DEF DeleteRows, TInv, TypeOK
    <3> QED
      BY <3>1, <2>1, <2>a, OtherFrame
  <2>3. ~CutStage
    BY <2>a DEF CutStage
  <2>4. chunk' = NoRows
    <3>1. CASE DeleteRows
      BY <3>1 DEF DeleteRows
    <3>2. CASE ~DeleteRows
      <4>1. chunk' \in ChunkType /\ DOMAIN chunk' = {}
        BY <3>2, <2>3, <2>a, NextChunkType DEF Cut
      <4> QED
        BY <4>1, NoneIsNoRows
    <3> QED
      BY <3>1, <3>2
  <2>5. /\ thread' \in {"none", "drain", "delete", "truncate", "publish failed?",
                        "publish failed"}
        /\ phase' \notin {"BASELINE_LOADING"} \cup Published /\ tick' \notin AboutToPublish
    <3>1. CASE ThreadStep \/ ThreadRaises
      BY <3>1, <2>a, <1>3, <2>3 DEF ThreadStep, Drain, DeleteRows, Truncate, DropStage, ReadPhase,
         Advance, ReadPhaseOfFailure, ThreadFails, ThreadRaises, ThreadGoto, Published
    <3>2. CASE TickRead
      BY <3>2, <2>a DEF TickRead, AboutToPublish, Published, coordinator
    <3>3. CASE TickStart \/ TickCancel \/ TickCount \/ TickRaises \/ CoordinatorRestarts
      BY <3>3, <2>a DEF TickStart, TickCancel, TickCount, TickRaises,
         CoordinatorRestarts, ThreadGoto, AboutToPublish
    <3>4. CASE TickTransition
      BY <3>4, <2>a DEF TickTransition, AboutToPublish, Published, TInv, TypeOK, Ticks
    <3>5. CASE CancelMigration \/ RestartBaseline \/ RequestStep
      BY <3>5, <2>a DEF CancelMigration, RestartBaseline, RequestStep, CancelPending,
         BackToPublishing, Published, coordinator
    <3>6. CASE UNCHANGED vars
      BY <3>6, <2>a DEF vars
    <3> QED
      BY <2>1, <2>a, <3>1, <3>2, <3>3, <3>4, <3>5, <3>6 DEF Next, AnyStep, TickStep
  <2> QED
    BY <2>2, <2>4, <2>5 DEF CleanOrUntouched, Beyond
<1> QED
  BY <1>1, <1>2, <1>3

LEMMA NextPublishingAlone ==
  ASSUME TInv, PublishingAlone, [Next]_vars, ~Delayed
  PROVE  PublishingAlone'
<1> DEFINE Publishing == {"drain", "delete", "truncate", "chunk", "loading?", "loading",
                          "publish failed?", "publish failed"}
<1>a. thread \in Publishing =>
        phase \notin {"BASELINE_LOADING"} \cup Published /\ tick \notin AboutToPublish
  BY DEF PublishingAlone, Beyond
<1> SUFFICES ASSUME thread' \in Publishing
    PROVE  phase' \notin {"BASELINE_LOADING"} \cup Published /\ tick' \notin AboutToPublish
  BY DEF PublishingAlone, Beyond
<1>1. ASSUME NEW w \in Workers, AnyStep(w)
      PROVE  UNCHANGED <<phase, thread, tick>>
  BY <1>1, WorkerFrame
<1>2. CASE ThreadStep \/ ThreadRaises
  BY <1>2, <1>a DEF ThreadStep, Drain, DeleteRows, Truncate, CutStage, DropStage,
     ReadPhase, Advance, ReadPhaseOfFailure, ThreadFails, ThreadRaises, ThreadGoto
<1>3. CASE TickRead
  BY <1>3, <1>a DEF TickRead, AboutToPublish, Published
<1>4. CASE TickStart
  <2>1. CASE UNCHANGED thread
    BY <1>4, <1>a, <2>1 DEF TickStart, AboutToPublish
  <2>2. CASE thread' = "drain" /\ phase = "BASELINE_PUBLISHING"
    BY <1>4, <2>2 DEF TickStart, AboutToPublish, Published
  <2> QED
    BY <1>4, <2>1, <2>2 DEF TickStart, Current, ThreadGoto
<1>5. CASE TickCancel \/ TickCount \/ TickRaises \/ CoordinatorRestarts
  BY <1>5, <1>a DEF TickCancel, TickCount, TickRaises, CoordinatorRestarts, AboutToPublish
<1>6. CASE TickTransition
  BY <1>6, <1>a DEF TickTransition, AboutToPublish, Published, TInv, TypeOK, Ticks
<1>7. CASE CancelMigration \/ RestartBaseline \/ RequestStep
  BY <1>7, <1>a DEF CancelMigration, RestartBaseline, RequestStep, CancelPending,
     BackToPublishing, Published, coordinator
<1> QED
  BY <1>1, <1>2, <1>3, <1>4, <1>5, <1>6, <1>7, <1>a DEF Next, AnyStep, Age, TickStep,
     coordinator, vars

LEMMA NextNoRowLeft ==
  ASSUME TInv, NoRowLeft, [Next]_vars
  PROVE  NoRowLeft'
<1> SUFFICES ASSUME thread' \in {"truncate", "chunk"}
             PROVE  chunk' = NoRows /\ \A w \in Workers : ~wk'[w].row
  BY DEF NoRowLeft
<1>1. CASE DeleteRows
  <2>1. \A w \in Workers : wk'[w].row = FALSE
    BY <1>1 DEF DeleteRows, TInv, TypeOK
  <2> QED
    BY <1>1, <2>1 DEF DeleteRows
<1>2. CASE ~DeleteRows
  <2>1. thread \in {"truncate", "chunk"} /\ ~CutStage
    <3>1. ASSUME NEW w \in Workers, AnyStep(w)
          PROVE  UNCHANGED thread
      BY <3>1, WorkerFrame
    <3>2. ~CutStage
      BY DEF CutStage, ThreadGoto
    <3> QED
      BY <1>2, <3>1, <3>2 DEF Next, AnyStep, Age, ThreadStep, Drain, Truncate, DropStage,
         ReadPhase, Advance, ReadPhaseOfFailure, ThreadFails, ThreadRaises, TickStep,
         TickRead, TickStart, TickCancel, TickCount, TickTransition, TickRaises,
         CoordinatorRestarts, CancelMigration, RestartBaseline, RequestStep,
         CancelPending, BackToPublishing, ThreadGoto, coordinator, vars
  <2>2. chunk = NoRows /\ Cut = {} /\ \A w \in Workers : ~wk[w].row
    BY <2>1 DEF NoRowLeft, Cut, NoRows
  <2>3. chunk' = NoRows
    <3>1. chunk' \in ChunkType /\ DOMAIN chunk' = {}
      BY <1>2, <2>1, <2>2, NextChunkType DEF Cut
    <3> QED
      BY <3>1, NoneIsNoRows
  <2>4. \A w \in Workers : ~wk'[w].row
    BY <1>2, <2>2, OtherFrame, WorkerOwn DEF Idle
  <2> QED
    BY <2>3, <2>4
<1> QED
  BY <1>1, <1>2

(* A chunk that is DONE was DONE before or is completed by its worker.      *)
LEMMA NextDone ==
  ASSUME TInv, [Next]_vars, NEW c \in Cut', chunk'[c].status = "DONE"
  PROVE  /\ c \in Cut
         /\ \/ chunk[c].status = "DONE"
            \/ \E w \in Workers :
                 AnyStep(w) /\ wk[w].row /\ wk[w].pc = "complete" /\ wk[w].job = c
<1>a. chunk \in ChunkType /\ \A d \in Cut : chunk[d] \in Row
  BY AllOrNone DEF TInv, TypeOK, ChunkType
<1>1. ~DeleteRows
  BY DEF DeleteRows, NoRows, Cut
<1>2. CASE CutStage
  <2>1. chunk' # [d \in Chunks |-> NewRow]
    BY DEF NewRow, Cut
  <2>2. UNCHANGED chunk
    BY <1>2, <2>1 DEF CutStage
  <2> QED
    BY <2>2 DEF Cut
<1>3. CASE ~CutStage
  <2>1. c \in Cut
    BY <1>1, <1>3, NextChunkType
  <2>2. ASSUME NEW w \in Workers, AnyStep(w)
        PROVE  \/ chunk[c].status = "DONE"
               \/ wk[w].row /\ wk[w].pc = "complete" /\ wk[w].job = c
    BY <2>1, <2>2, WorkerChunk
  <2>3. ASSUME NEW d \in Cut, Age(d)
        PROVE  chunk[c].status = "DONE"
    <3>1. chunk'[c].status = chunk[c].status
      <4>1. chunk \in [Chunks -> Row] /\ c \in Chunks
        BY <1>a, <2>1, AllOrNone
      <4> QED
        BY <2>3, <4>1, RowsNotDone DEF Age
    <3> QED
      BY <3>1
  <2>4. CASE TickRead
    BY <2>1, <2>4, <1>a, RowsNotDone DEF TickRead
  <2>5. CASE CancelPending
    <3>1. chunk'[c] = chunk[c] \/ chunk'[c] = CancelRow(chunk[c])
      BY <2>1, <2>5 DEF CancelPending
    <3> QED
      BY <2>1, <3>1, <1>a, RowsNotDone
  <2>6. CASE UNCHANGED chunk
    BY <2>1, <2>6
  <2> QED
    BY <1>1, <1>3, <2>1, <2>2, <2>3, <2>4, <2>5, <2>6 DEF Next, AnyStep, ThreadStep,
       Drain, Truncate, DropStage, ReadPhase, Advance, ReadPhaseOfFailure, ThreadFails,
       ThreadRaises, TickStep, TickStart, TickCancel, TickCount, TickTransition,
       TickRaises, CoordinatorRestarts, CancelMigration, RestartBaseline, RequestStep,
       BackToPublishing, queue, vars
<1> QED
  BY <1>2, <1>3

LEMMA NextDoneIsThere ==
  ASSUME TInv, CleanOrUntouched, DoneIsThere, NoRowLeft, [Next]_vars
  PROVE  DoneIsThere'
<1>a. \A w \in Workers : wk[w].pc # "idle" => Clean /\ wk[w].job \in Chunks
  BY DEF CleanOrUntouched, TInv, JobOK
<1>b. Cut \subseteq Chunks
  BY AllOrNone DEF TInv, TypeOK, ChunkType
<1>1. CASE Truncate
  <2>1. UNCHANGED queue /\ Cut = {} /\ \A w \in Workers : ~wk[w].row
    BY <1>1 DEF Truncate, NoRowLeft, NoRows, Cut
  <2> QED
    BY <2>1 DEF DoneIsThere, queue, Cut
<1>2. CASE ~Truncate
  <2>1. ASSUME NEW c \in Cut', chunk'[c].status = "DONE"
        PROVE  Has(c)'
    <3>1. c \in Chunks /\ Has(c)
      BY <2>1, <1>b, NextDone DEF DoneIsThere
    <3> QED
      BY <3>1, <1>2, HasGrows
  <2>2. ASSUME NEW w \in Workers, wk'[w].row, wk'[w].pc \in {"progress", "complete"}
        PROVE  \E c \in Chunks : c = wk'[w].job /\ Has(c)'
    <3>1. CASE wk'[w] = wk[w]
      <4>1. PICK c \in Chunks : c = wk[w].job
        BY <2>2, <3>1, <1>a
      <4> QED
        BY <2>2, <3>1, <4>1, <1>2, HasGrows DEF DoneIsThere
    <3>2. CASE AnyStep(w)
      <4>1. /\ wk[w].pc # "idle" /\ wk'[w].job = wk[w].job /\ wk'[w].row = wk[w].row
            /\ \/ AddRows(w)
               \/ wk[w].pc = "progress" /\ UNCHANGED copies
               \/ Duplicate(w) /\ UNCHANGED copies
        <5>1. wk'[w] # Idle /\ wk'[w].pc # "claiming"
          BY <2>2 DEF Idle
        <5> QED
          BY <2>2, <3>2, <5>1, WorkerOwn
      <4>2. PICK c \in Chunks : c = wk[w].job
        BY <4>1, <1>a
      <4>3. CASE AddRows(w)
        BY <4>1, <4>2, <4>3, CommitBrings
      <4>4. CASE wk[w].pc = "progress" /\ UNCHANGED copies
        <5>1. Has(c)
          BY <2>2, <4>1, <4>2, <4>4 DEF DoneIsThere
        <5> QED
          BY <4>1, <4>2, <4>4, <5>1 DEF Has
      <4>5. CASE Duplicate(w) /\ UNCHANGED copies
        <5>1. Has(c)
          BY <4>1, <4>2, <4>5, <1>a DEF Duplicate, Clean, Lacks
        <5> QED
          BY <4>1, <4>2, <4>5, <5>1 DEF Has
      <4> QED
        BY <4>1, <4>3, <4>4, <4>5
    <3>3. ~DeleteRows
      BY <2>2 DEF DeleteRows, TInv, TypeOK
    <3> QED
      BY <3>1, <3>2, <3>3, OtherFrame, WorkerOwn
  <2>3. \A w \in Workers :
          wk'[w].row /\ wk'[w].pc \in {"progress", "complete"} =>
            \A k \in StageRows[wk'[w].job] : copies'[k] > 0
    BY <2>2 DEF Has
  <2>4. \A c \in Cut' : chunk'[c].status = "DONE" => \A k \in StageRows[c] : copies'[k] > 0
    BY <2>1 DEF Has
  <2> QED
    BY <2>3, <2>4 DEF DoneIsThere, Has
<1> QED
  BY <1>1, <1>2

(* What is decided, and by whom: only the tick's count declares anew that   *)
(* everything is there.                                                     *)
Decided ==
  \/ phase \in Published
  \/ tick \in {"BASELINE_PUBLISHED", "STAGE_DROPPING", "drop"}
  \/ thread \in {"drop", "indexes?", "indexes", "drop failed?", "drop failed"}

LEMMA NextDecided ==
  ASSUME TInv, [Next]_vars, Decided', ~Decided
  PROVE  TickCount /\ tick = "count" /\ tick' = "BASELINE_PUBLISHED"
<1>a. /\ phase \notin Published
      /\ tick \notin {"BASELINE_PUBLISHED", "STAGE_DROPPING", "drop"}
      /\ thread \notin {"drop", "indexes?", "indexes", "drop failed?", "drop failed"}
  BY DEF Decided
<1>b. ASSUME phase' \notin Published,
             tick' \notin {"BASELINE_PUBLISHED", "STAGE_DROPPING", "drop"},
             thread' \notin {"drop", "indexes?", "indexes", "drop failed?", "drop failed"}
      PROVE  FALSE
  BY <1>b DEF Decided
<1>1. ASSUME NEW w \in Workers, AnyStep(w)
      PROVE  FALSE
  BY <1>1, <1>a, <1>b, WorkerFrame
<1>2. CASE ThreadStep \/ ThreadRaises
  BY <1>2, <1>a, <1>b DEF ThreadStep, Drain, DeleteRows, Truncate, CutStage, DropStage,
     ReadPhase, Advance, ReadPhaseOfFailure, ThreadFails, ThreadRaises, ThreadGoto,
     Published
<1>3. CASE TickRead
  BY <1>3, <1>a, <1>b DEF TickRead, Published
<1>4. CASE TickStart \/ TickCancel \/ TickRaises \/ CoordinatorRestarts
  BY <1>4, <1>a, <1>b DEF TickStart, TickCancel, TickRaises, CoordinatorRestarts,
     ThreadGoto
<1>5. CASE TickTransition
  BY <1>5, <1>a, <1>b DEF TickTransition, Published, TInv, TypeOK, Ticks
<1>6. CASE CancelMigration \/ RestartBaseline \/ RequestStep
  BY <1>6, <1>a, <1>b DEF CancelMigration, RestartBaseline, RequestStep, CancelPending,
     BackToPublishing, Published, coordinator
<1>7. CASE TickCount
  BY <1>7, <1>a, <1>b DEF TickCount
<1>8. CASE UNCHANGED <<phase, tick, thread>>
  BY <1>8, <1>a, <1>b
<1> QED
  BY <1>1, <1>2, <1>3, <1>4, <1>5, <1>6, <1>7, <1>8 DEF Next, AnyStep, Age, TickStep,
     coordinator, vars

LEMMA NextAllLoaded ==
  ASSUME IInv, [Next]_vars, Disjoint
  PROVE  AllLoaded'
<1> SUFFICES ASSUME Decided'
             PROVE  Clean' /\ \A c \in Chunks : Has(c)'
  BY DEF AllLoaded, Decided
<1>1. ~(Truncate /\ thread' = "chunk")
  <2> SUFFICES ASSUME Truncate, thread' = "chunk"
               PROVE  FALSE
    OBVIOUS
  <2>1. phase \notin Published /\ tick \notin AboutToPublish
    BY DEF Truncate, IInv, PublishingAlone, Beyond
  <2>2. UNCHANGED <<phase, tick>>
    BY DEF Truncate
  <2> QED
    BY <2>1, <2>2 DEF Decided, AboutToPublish
<1>2. Clean /\ \A c \in Chunks : Has(c)
  <2>1. CASE Decided
    BY <2>1 DEF IInv, AllLoaded, Decided
  <2>2. CASE ~Decided
    <3>1. TickCount /\ tick = "count" /\ tick' = "BASELINE_PUBLISHED"
      BY <2>2, NextDecided DEF IInv
    <3>2. Cut # {} /\ \A c \in Cut : chunk[c].status = "DONE"
      BY <3>1 DEF TickCount
    <3>3. Cut = Chunks
      BY <3>2, AllOrNone DEF IInv, TInv, TypeOK, ChunkType
    <3>4. Clean
      BY <3>1 DEF IInv, CleanOrUntouched, Beyond, AboutToPublish
    <3> QED
      BY <3>2, <3>3, <3>4 DEF IInv, DoneIsThere
  <2> QED
    BY <2>1, <2>2
<1> QED
  BY <1>1, <1>2, NextClean, HasGrows DEF IInv

----------------------------------------------------------------------------
(* The theorem. *)

LEMMA InitIInv == Init => IInv /\ Single
<1> SUFFICES ASSUME Init PROVE IInv /\ Single
  OBVIOUS
<1>1. TInv
  BY InitTInv
<1>2. CleanOrUntouched
  BY DEF Init, CleanOrUntouched, Beyond, AboutToPublish, Published, Idle
<1>3. DoneIsThere /\ NoRowLeft
  BY DEF Init, DoneIsThere, NoRowLeft, NoRows, Cut, Idle
<1>4. PublishingAlone /\ AllLoaded
  BY DEF Init, PublishingAlone, AllLoaded, Published
<1>5. Single
  BY DEF Init, Single, Idle
<1> QED
  BY <1>1, <1>2, <1>3, <1>4, <1>5 DEF IInv

LEMMA NextIInv ==
  ASSUME IInv, Single, [Next]_vars, ~Delayed, Disjoint
  PROVE  IInv' /\ Single'
BY NextTInv, NextCleanOrUntouched, NextDoneIsThere, NextNoRowLeft, NextPublishingAlone,
   NextAllLoaded, NextSingle DEF IInv

(* Once the baseline is published the target holds exactly the rows of the  *)
(* stage table, with an index each of them once: however many workers load, *)
(* overrun their claims, die or repeat an insert, however often the         *)
(* operator cancels or restarts and the coordinator dies.  Two hypotheses   *)
(* stay, each with a run that shows the property fail without it: a handler *)
(* acts on the phase of its own tick, and if the target has a unique index  *)
(* no key was staged in two chunks.                                         *)
THEOREM PublishedExactly ==
  ASSUME ~Delayed, Disjoint
  PROVE  Safety => []PublishedIsStage
<1>1. Init => IInv /\ Single
  BY InitIInv
<1>2. (IInv /\ Single) /\ [Next]_vars => (IInv /\ Single)'
  BY NextIInv
<1>3. IInv /\ Single => PublishedIsStage
  <2> SUFFICES ASSUME IInv, Single, phase \in Published, NEW k \in Rows
               PROVE  /\ copies[k] > 0 <=> k \in Stage
                      /\ Keyed => copies[k] <= 1
    BY DEF PublishedIsStage
  <2>1. Clean /\ \A c \in Chunks : Has(c)
    BY DEF IInv, AllLoaded
  <2>2. k \notin Stage => copies[k] = 0
    BY <2>1 DEF Clean
  <2>3. k \in Stage => copies[k] > 0
    BY <2>1 DEF Stage, Has
  <2> QED
    BY <2>2, <2>3 DEF Single
<1> QED
  BY <1>1, <1>2, <1>3, PTL DEF Safety

----------------------------------------------------------------------------
(* The changes (CdcApply).                                                 *)

Alive == {"loop", "polling", "applying", "applied", "measured", "checked in"}
ThreadType == [step : Steps, assigned : BOOLEAN, from : Offsets, pos : Offsets, zero : BOOLEAN, end : Offsets]

(* A thread that goes on has seen no event fail too often.                 *)
FailuresBounded ==
  \A w \in CdcWorkers, e \in 1..MaxEvent :
    applier[w].step \notin {"fatal", "stopping"} => failCount[w][e] < PoisonThreshold

CdcTInv == CdcTypeOK /\ FailuresBounded

(* No position is beyond the end of the topic, and a batch has an event.   *)
Positions ==
  /\ committed <= produced
  /\ \A w \in CdcWorkers :
       /\ applier[w].pos <= produced
       /\ InBatch(w) => applier[w].from < applier[w].pos

(* Of the members of the group only the owner of the partition can be at a *)
(* batch: whoever else is at one was put out.                              *)
BatchOfOwner == \A w \in members : InBatch(w) => owner = w

GroupInv == CdcTInv /\ Positions /\ BatchOfOwner

(* An event is applied, or excepted; how far a thread has dealt with them. *)
Good(e) == e \in rolledBack \cup undone \/ target[EventKey[e]] >= e
Done(w) == IF At(w, "applying") THEN applier[w].from ELSE applier[w].pos

(* The owner has dealt with all that is committed, and with all before it. *)
OwnerIsGood ==
  owner # NoWorker /\ applier[owner].step \in Alive =>
    committed <= Done(owner) /\ \A e \in 1..Done(owner) : Good(e)

AppliedInv == OwnerIsGood /\ CommittedIsApplied

(* A position with nothing committed is one that a failed batch has left.  *)
PositionIsCommitted ==
  \A w \in CdcWorkers :
    committed = 0 /\ applier[w].pos > 0 /\ ~ InBatch(w) => firstFailed

(* What it says of the topic when somebody says that it is drained up to   *)
(* its end, wherever the word has got to.                                  *)
Told(end) == end <= committed \/ firstFailed
Tales ==
  /\ \A w \in CdcWorkers : Told(applier[w].end)
  /\ lagRow.measured /\ lagRow.zero => Told(lagRow.end)
  /\ cdcTick.step = "write" => Told(cdcTick.end)
  /\ Told(caughtUpTo)

ToldInv == PositionIsCommitted /\ Tales

CdcIInv == GroupInv /\ AppliedInv /\ ToldInv
HIDE BaselineAssumption
HIDE MaxRetriesAssumption
USE CdcAssumption

LEMMA NewThreadTyped == 0 \in Offsets /\ NewThread \in ThreadType
BY DEF NewThread, ThreadType, Steps, Offsets

LEMMA CdcTypeInit == CdcInit => CdcTInv
<1> SUFFICES ASSUME CdcInit PROVE CdcTInv
  OBVIOUS
<1> USE DEF CdcInit
<1>1. failCount \in [CdcWorkers -> [1..MaxEvent -> 0..PoisonThreshold]]
  BY DEF NoFailure
<1>2. trouble \in [TroubleKinds -> Nat] /\ \A k \in TroubleKinds : trouble[k] <= MaxTroubles[k]
  BY DEF TroubleKinds
<1>3. target \in [Keys -> Offsets]
  BY DEF Offsets
<1>4. FailuresBounded
  BY DEF FailuresBounded, NoFailure
<1>5. applier \in [CdcWorkers -> ThreadType]
  BY NewThreadTyped
<1>6. heartbeat \in [by : CdcWorkers \cup {NoWorker}, fresh : BOOLEAN]
  BY DEF NoHeartbeat
<1>7. lagRow \in [measured : BOOLEAN, zero : BOOLEAN, end : Offsets]
  BY DEF Offsets
<1>8. cdcTick \in [step : {"idle", "read", "write"}, saw : CdcPhases \cup {"none"}, end : Offsets]
  BY DEF NoTick, Offsets
<1>9. cdcPhase \in CdcPhases \cup Stopped /\ cdcPaused \in BOOLEAN
  BY DEF CdcPhases
<1>10. produced \in Offsets /\ committed \in Offsets /\ caughtUpTo \in Offsets
  BY NewThreadTyped
<1>11. /\ firstFailed \in BOOLEAN /\ members \subseteq CdcWorkers
       /\ owner \in members \cup {NoWorker}
       /\ rolledBack \subseteq 1..MaxEvent /\ undone \subseteq 1..MaxEvent
  OBVIOUS
<1> HIDE DEF CdcInit
<1>12. CdcTypeOK
  BY <1>1, <1>2, <1>3, <1>5, <1>6, <1>7, <1>8, <1>10, <1>9, <1>11 DEF CdcTypeOK, ThreadType
<1> QED BY <1>4, <1>12 DEF CdcTInv

(* A trouble is counted up to its bound.                                   *)
LEMMA TroubleTyped ==
  ASSUME CdcTypeOK, NEW kind \in TroubleKinds, Trouble(kind)
  PROVE  trouble' \in [TroubleKinds -> Nat] /\ \A k \in TroubleKinds : trouble'[k] <= MaxTroubles[k]
BY DEF CdcTypeOK, Trouble

(* What one step of a thread may do to the threads.                        *)
LEMMA ThreadGoes ==
  ASSUME CdcTypeOK, NEW w \in CdcWorkers, NEW s \in Steps, Goes(w, s)
  PROVE  /\ applier' \in [CdcWorkers -> ThreadType]
         /\ \A v \in CdcWorkers : v # w => applier'[v] = applier[v]
         /\ applier'[w].step = s /\ applier'[w].assigned = applier[w].assigned
         /\ applier'[w].from = applier[w].from /\ applier'[w].pos = applier[w].pos
         /\ applier'[w].zero = applier[w].zero /\ applier'[w].end = applier[w].end
<1>1. applier \in [CdcWorkers -> ThreadType]
  BY DEF CdcTypeOK, ThreadType
<1>2. applier' = [applier EXCEPT ![w].step = s]
  BY DEF Goes
<1> HIDE CdcAssumption
<1> QED BY <1>1, <1>2, SMT DEF ThreadType

LEMMA ThreadComes ==
  ASSUME CdcTypeOK, NEW w \in CdcWorkers, NEW s \in Steps, Comes(w, s)
  PROVE  /\ applier' \in [CdcWorkers -> ThreadType]
         /\ \A v \in CdcWorkers : v # w => applier'[v] = applier[v]
         /\ applier'[w].step = s /\ applier'[w].assigned = applier[w].assigned
         /\ applier'[w].from = 0 /\ applier'[w].pos = applier[w].pos
         /\ ~ applier'[w].zero /\ applier'[w].end = 0
<1> DEFINE t == [applier[w] EXCEPT !.step = s, !.from = 0, !.zero = FALSE, !.end = 0]
<1> HIDE CdcAssumption
<1>1. applier \in [CdcWorkers -> ThreadType]
  BY DEF CdcTypeOK, ThreadType
<1>2. applier' = [applier EXCEPT ![w] = t]
  BY DEF Comes
<1>3. 0 \in Offsets
  BY NewThreadTyped
<1>4. /\ t \in ThreadType /\ t.step = s /\ t.assigned = applier[w].assigned
      /\ t.from = 0 /\ t.pos = applier[w].pos /\ ~ t.zero /\ t.end = 0
  BY <1>1, <1>3 DEF ThreadType
<1> HIDE DEF t
<1> QED BY <1>1, <1>2, <1>4

LEMMA ThreadQuits ==
  ASSUME CdcTypeOK, NEW w \in CdcWorkers, NEW s \in Steps, Quits(w, s)
  PROVE  /\ applier' \in [CdcWorkers -> ThreadType]
         /\ \A v \in CdcWorkers : v # w => applier'[v] = applier[v]
         /\ applier'[w].step = s /\ applier'[w].assigned = FALSE
         /\ applier'[w].from = 0 /\ applier'[w].pos = 0
         /\ ~ applier'[w].zero /\ applier'[w].end = 0
<1> DEFINE q == [NewThread EXCEPT !.step = s]
<1> HIDE CdcAssumption
<1>1. applier \in [CdcWorkers -> ThreadType]
  BY DEF CdcTypeOK, ThreadType
<1>2. applier' = [applier EXCEPT ![w] = q]
  BY DEF Quits
<1>3. 0 \in Offsets /\ NewThread \in ThreadType
  BY NewThreadTyped
<1>4. \A t \in ThreadType :
        [t EXCEPT !.step = s] = [step |-> s, assigned |-> t.assigned, from |-> t.from,
                                 pos |-> t.pos, zero |-> t.zero, end |-> t.end]
  BY DEF ThreadType
<1>5. q = [step |-> s, assigned |-> FALSE, from |-> 0, pos |-> 0, zero |-> FALSE, end |-> 0]
  BY <1>3, <1>4 DEF NewThread
<1>6. q \in ThreadType
  BY <1>3, <1>5 DEF ThreadType
<1> HIDE DEF q
<1> QED BY <1>1, <1>2, <1>5, <1>6

(* The parts of the type invariant.                                        *)
DbTyped ==
  /\ cdcPhase \in CdcPhases \cup Stopped /\ cdcPaused \in BOOLEAN
  /\ heartbeat \in [by : CdcWorkers \cup {NoWorker}, fresh : BOOLEAN]
  /\ lagRow \in [measured : BOOLEAN, zero : BOOLEAN, end : Offsets]
TickTyped ==
  cdcTick \in [step : {"idle", "read", "write"}, saw : CdcPhases \cup {"none"}, end : Offsets]
KafkaTyped ==
  /\ produced \in Offsets /\ committed \in Offsets
  /\ members \subseteq CdcWorkers /\ owner \in members \cup {NoWorker}
ThreadsTyped == applier \in [CdcWorkers -> ThreadType]
FailuresTyped ==
  failCount \in [CdcWorkers -> [1..MaxEvent -> 0..PoisonThreshold]] /\ FailuresBounded
TableTyped == target \in [Keys -> Offsets] /\ rolledBack \subseteq 1..MaxEvent /\ undone \subseteq 1..MaxEvent
HistoryTyped == firstFailed \in BOOLEAN /\ caughtUpTo \in Offsets
TroublesTyped == trouble \in [TroubleKinds -> Nat] /\ \A k \in TroubleKinds : trouble[k] <= MaxTroubles[k]

LEMMA TypeParts ==
  CdcTInv <=> /\ DbTyped /\ TickTyped /\ KafkaTyped /\ ThreadsTyped /\ FailuresTyped
              /\ TableTyped /\ HistoryTyped /\ TroublesTyped
BY DEF CdcTInv, CdcTypeOK, ThreadType, DbTyped, TickTyped, KafkaTyped, ThreadsTyped,
       FailuresTyped, TableTyped, HistoryTyped, TroublesTyped

LEMMA TypeFrames ==
  ASSUME CdcTInv
  PROVE  /\ UNCHANGED stateDb => DbTyped'
         /\ UNCHANGED cdcTick => TickTyped'
         /\ UNCHANGED kafka => KafkaTyped'
         /\ UNCHANGED applier => ThreadsTyped'
         /\ UNCHANGED <<applier, failCount>> => FailuresTyped'
         /\ UNCHANGED targetTable => TableTyped'
         /\ UNCHANGED history => HistoryTyped'
         /\ UNCHANGED trouble => TroublesTyped'
         /\ \A kind \in TroubleKinds : Trouble(kind) => TroublesTyped'
<1>1. /\ DbTyped /\ TickTyped /\ KafkaTyped /\ ThreadsTyped /\ FailuresTyped
      /\ TableTyped /\ HistoryTyped /\ TroublesTyped
  BY TypeParts
<1>2. UNCHANGED stateDb => DbTyped'
  BY <1>1 DEF DbTyped, stateDb
<1>3. UNCHANGED kafka => KafkaTyped'
  BY <1>1 DEF KafkaTyped, kafka
<1>4. UNCHANGED <<applier, failCount>> => FailuresTyped'
  BY <1>1 DEF FailuresTyped, FailuresBounded
<1>5. UNCHANGED targetTable => TableTyped'
  BY <1>1 DEF TableTyped, targetTable
<1>6. UNCHANGED history => HistoryTyped'
  BY <1>1 DEF HistoryTyped, history
<1>7. \A kind \in TroubleKinds : Trouble(kind) => TroublesTyped'
  BY TroubleTyped DEF CdcTInv, TroublesTyped
<1> QED BY <1>1, <1>2, <1>3, <1>4, <1>5, <1>6, <1>7 DEF TickTyped, ThreadsTyped, TroublesTyped

(* A step of one thread counts no failure: it goes on only if it went on.  *)
LEMMA FailuresFrame ==
  ASSUME CdcTInv, NEW w \in CdcWorkers, UNCHANGED failCount,
         \A v \in CdcWorkers : v # w => applier'[v] = applier[v],
         applier'[w].step \in {"fatal", "stopping"} \/ applier[w].step \notin {"fatal", "stopping"}
  PROVE  FailuresTyped'
<1>1. FailuresTyped
  BY TypeParts
<1> QED BY <1>1 DEF FailuresTyped, FailuresBounded

(* The last of the events that change a row.                               *)
LEMMA LastEvent ==
  ASSUME NEW S \in SUBSET (1..MaxEvent), S # {}
  PROVE  \E m \in S : \A x \in S : x <= m
<1> DEFINE R == {p \in Nat \X Nat : p[1] < p[2]}
<1> DEFINE T == {MaxEvent - x : x \in S}
<1>1. IsWellFoundedOn(R, Nat)
  BY NatLessThanWellFounded DEF OpToRel
<1>2. T \in SUBSET Nat
  <2> SUFFICES ASSUME NEW x \in S PROVE MaxEvent - x \in Nat
    OBVIOUS
  <2>1. x \in 1..MaxEvent
    OBVIOUS
  <2> QED BY <2>1
<1>3. T # {}
  <2>1. PICK x : x \in S
    OBVIOUS
  <2>2. MaxEvent - x \in T
    BY <2>1
  <2> QED BY <2>2
<1> HIDE DEF R, T
<1>4. PICK m \in T : \A y \in T : ~ (<<y, m>> \in R)
  BY <1>1, <1>2, <1>3, WFMin
<1>5. PICK x \in S : m = MaxEvent - x
  BY <1>4 DEF T
<1>6. ASSUME NEW y \in S PROVE y <= x
  <2>1. MaxEvent - y \in T
    BY DEF T
  <2>2. ~ (MaxEvent - y < m)
    BY <1>2, <1>4, <2>1 DEF R
  <2>3. x \in 1..MaxEvent /\ y \in 1..MaxEvent
    OBVIOUS
  <2> QED BY <1>5, <2>2, <2>3
<1> QED BY <1>6

LEMMA LastInIsLast ==
  ASSUME NEW B \in SUBSET (1..MaxEvent), NEW k \in Keys, \E e \in B : EventKey[e] = k
  PROVE  /\ LastIn(k, B) \in B /\ EventKey[LastIn(k, B)] = k
         /\ \A f \in B : EventKey[f] = k => f <= LastIn(k, B)
<1> DEFINE S == {e \in B : EventKey[e] = k}
<1>1. PICK m \in S : \A x \in S : x <= m
  BY LastEvent
<1>2. \E e \in B : EventKey[e] = k /\ \A f \in B : EventKey[f] = k => f <= e
  BY <1>1
<1> HIDE CdcAssumption
<1> QED BY <1>2 DEF LastIn

LEMMA BatchTyped ==
  ASSUME CdcTypeOK, NEW w \in CdcWorkers
  PROVE  /\ applier[w].from \in Offsets /\ applier[w].pos \in Offsets
         /\ Batch(w) \in SUBSET (1..MaxEvent)
<1>1. applier[w].from \in Offsets /\ applier[w].pos \in Offsets
  BY DEF CdcTypeOK
<1> QED BY <1>1 DEF Batch, Offsets

LEMMA WrittenTyped ==
  ASSUME target \in [Keys -> Offsets], NEW B \in SUBSET (1..MaxEvent)
  PROVE  Written(B) \in [Keys -> Offsets]
<1> SUFFICES ASSUME NEW k \in Keys
             PROVE  (IF \E e \in B : EventKey[e] = k THEN LastIn(k, B) ELSE target[k]) \in Offsets
  BY DEF Written
<1>1. CASE \E e \in B : EventKey[e] = k
  <2>1. LastIn(k, B) \in 1..MaxEvent
    BY <1>1, LastInIsLast
  <2> QED BY <1>1, <2>1 DEF Offsets
<1>2. CASE ~ \E e \in B : EventKey[e] = k
  BY <1>2
<1> QED BY <1>1, <1>2

(* A thread that ends; one that leaves the group.                          *)
LEMMA ThreadEnds ==
  ASSUME CdcTInv, NEW w \in CdcWorkers, Ends(w)
  PROVE  /\ ThreadsTyped' /\ FailuresTyped'
         /\ \A v \in CdcWorkers : v # w => applier'[v] = applier[v]
         /\ applier'[w] = NewThread
<1>1. ThreadsTyped /\ FailuresTyped
  BY TypeParts
<1>2. applier' = [applier EXCEPT ![w] = NewThread] /\ failCount' = [failCount EXCEPT ![w] = NoFailure]
  BY DEF Ends
<1>3. NoFailure \in [1..MaxEvent -> 0..PoisonThreshold] /\ \A e \in 1..MaxEvent : NoFailure[e] < PoisonThreshold
  BY DEF NoFailure
<1>4. ThreadsTyped' /\ \A v \in CdcWorkers : v # w => applier'[v] = applier[v] /\ applier'[w] = NewThread
  BY <1>1, <1>2, NewThreadTyped DEF ThreadsTyped
<1>5. failCount' \in [CdcWorkers -> [1..MaxEvent -> 0..PoisonThreshold]]
  BY <1>1, <1>2, <1>3 DEF FailuresTyped
<1>6. FailuresBounded'
  BY <1>1, <1>2, <1>3, <1>4 DEF FailuresTyped, FailuresBounded
<1>7. applier'[w] = NewThread
  BY <1>1, <1>2 DEF ThreadsTyped
<1> QED BY <1>4, <1>5, <1>6, <1>7 DEF FailuresTyped

LEMMA GroupLeft ==
  ASSUME CdcTInv, NEW w \in CdcWorkers, LeavesGroup(w)
  PROVE  KafkaTyped'
<1>1. KafkaTyped
  BY TypeParts
<1> QED BY <1>1 DEF KafkaTyped, LeavesGroup

LEMMA CdcTypeStep == CdcTInv /\ [CdcNext]_cdcVars => CdcTInv'
<1> SUFFICES ASSUME CdcTInv, [CdcNext]_cdcVars PROVE CdcTInv'
  OBVIOUS
<1>1. /\ CdcTypeOK
      /\ DbTyped /\ TickTyped /\ KafkaTyped /\ ThreadsTyped /\ FailuresTyped
      /\ TableTyped /\ HistoryTyped /\ TroublesTyped
  BY TypeParts DEF CdcTInv
<1>2. DbTyped' /\ TickTyped' /\ KafkaTyped' /\ ThreadsTyped' /\ FailuresTyped'
      /\ TableTyped' /\ HistoryTyped' /\ TroublesTyped' => CdcTInv'
  BY TypeParts, PTL
<1>3. ASSUME NEW w \in CdcWorkers, ClaimCdc(w) PROVE CdcTInv'
  <2>1. "loop" \in Steps /\ Goes(w, "loop") /\ At(w, "off")
    BY <1>3 DEF ClaimCdc, Steps
  <2>2. ThreadsTyped'
    BY <1>1, <1>3, <2>1, ThreadGoes DEF ThreadsTyped
  <2>3. FailuresTyped'
    BY <1>1, <1>3, <2>1, ThreadGoes, FailuresFrame DEF ClaimCdc, At
  <2>4. DbTyped'
    BY <1>1, <1>3 DEF ClaimCdc, DbTyped
  <2> QED BY <1>2, <1>3, <2>2, <2>3, <2>4, TypeFrames DEF ClaimCdc
<1>4. ASSUME NEW w \in CdcWorkers, LooksUp(w) PROVE CdcTInv'
  <2>1. "polling" \in Steps /\ "stopping" \in Steps /\ (Goes(w, "polling") \/ Quits(w, "stopping"))
    BY <1>4 DEF LooksUp, Steps
  <2>2. ThreadsTyped'
    BY <1>1, <1>4, <2>1, ThreadGoes, ThreadQuits DEF ThreadsTyped
  <2>3. FailuresTyped'
    BY <1>1, <1>4, <2>1, ThreadGoes, ThreadQuits, FailuresFrame DEF LooksUp, At
  <2> QED BY <1>2, <1>4, <2>2, <2>3, TypeFrames DEF LooksUp
<1>5. ASSUME NEW w \in CdcWorkers, PollJoins(w) PROVE CdcTInv'
  <2>1. /\ {"loop"} \subseteq Steps
        /\ Quits(w, "loop")
    BY <1>5 DEF PollJoins, Quits, Steps
  <2>2. ThreadsTyped'
    BY <1>1, <1>5, <2>1, ThreadQuits DEF ThreadsTyped
  <2>3. FailuresTyped'
    BY <1>1, <1>5, <2>1, ThreadQuits, FailuresFrame DEF PollJoins, At
  <2>4. KafkaTyped'
    BY <1>1, <1>5 DEF PollJoins, KafkaTyped
  <2> QED BY <1>2, <1>5, <2>2, <2>3, <2>4, TypeFrames DEF PollJoins
<1>6. ASSUME NEW w \in CdcWorkers, PollReturnsNone(w) PROVE CdcTInv'
  <2>1. /\ {"loop"} \subseteq Steps
        /\ Goes(w, "loop")
    BY <1>6 DEF PollReturnsNone, Steps
  <2>2. ThreadsTyped'
    BY <1>1, <1>6, <2>1, ThreadGoes DEF ThreadsTyped
  <2>3. FailuresTyped'
    BY <1>1, <1>6, <2>1, ThreadGoes, FailuresFrame DEF PollReturnsNone, At
  <2> QED BY <1>2, <1>6, <2>2, <2>3, TypeFrames DEF PollReturnsNone
<1>7. ASSUME NEW w \in CdcWorkers, PollReturns(w) PROVE CdcTInv'
  <2>1. PICK last \in (applier[w].pos + 1)..produced :
          applier' = [applier EXCEPT ![w] = [@ EXCEPT !.step = "applying", !.from = applier[w].pos, !.pos = last]]
    BY <1>7 DEF PollReturns
  <2>2. applier[w].pos \in Offsets /\ last \in Offsets
    BY <1>1, BatchTyped DEF KafkaTyped, Offsets
  <2> DEFINE t == [applier[w] EXCEPT !.step = "applying", !.from = applier[w].pos, !.pos = last]
  <2>3. t \in ThreadType
    BY <1>1, <2>2 DEF ThreadsTyped, ThreadType, Steps
  <2>4. applier' = [applier EXCEPT ![w] = t]
    BY <2>1
  <2> HIDE DEF t
  <2>5. ThreadsTyped'
    BY <1>1, <2>3, <2>4 DEF ThreadsTyped
  <2>6. FailuresTyped'
    BY <1>1, <1>7, <2>1, FailuresFrame DEF PollReturns, ThreadsTyped, At
  <2> QED BY <1>2, <1>7, <2>5, <2>6, TypeFrames DEF PollReturns
<1>8. ASSUME NEW w \in CdcWorkers, Applies(w) PROVE CdcTInv'
  <2>1. "applied" \in Steps /\ Goes(w, "applied") /\ At(w, "applying")
    BY <1>8 DEF Applies, Steps
  <2>2. ThreadsTyped'
    BY <1>1, <1>8, <2>1, ThreadGoes DEF ThreadsTyped
  <2>3. FailuresTyped'
    BY <1>1, <1>8, <2>1, ThreadGoes, FailuresFrame DEF Applies, At
  <2>4. target' \in [Keys -> Offsets]
    BY <1>1, <1>8, BatchTyped, WrittenTyped DEF Applies, TableTyped
  <2>5. rolledBack' \subseteq 1..MaxEvent /\ undone' \subseteq 1..MaxEvent
    BY <1>1, <1>8 DEF Applies, TableTyped
  <2>6. TableTyped'
    BY <2>4, <2>5 DEF TableTyped
  <2> QED BY <1>2, <1>8, <2>2, <2>3, <2>6, TypeFrames DEF Applies
<1>9. ASSUME NEW w \in CdcWorkers, ApplyFails(w) PROVE CdcTInv'
  <2>1. PICK e \in Batch(w) :
          /\ failCount' = [failCount EXCEPT ![w][e] = @ + 1]
          /\ IF failCount[w][e] + 1 >= PoisonThreshold THEN Quits(w, "fatal") ELSE Comes(w, "loop")
    BY <1>9 DEF ApplyFails
  <2>2. e \in 1..MaxEvent /\ "fatal" \in Steps /\ "loop" \in Steps
    BY <1>1, BatchTyped DEF Steps
  <2>3. ThreadsTyped' /\ \A v \in CdcWorkers : v # w => applier'[v] = applier[v]
    BY <1>1, <2>1, <2>2, ThreadQuits, ThreadComes DEF ThreadsTyped
  <2>4. failCount[w][e] \in 0..PoisonThreshold /\ failCount[w][e] < PoisonThreshold
    BY <1>1, <1>9, <2>2 DEF ApplyFails, At, FailuresTyped, FailuresBounded
  <2>5. failCount' \in [CdcWorkers -> [1..MaxEvent -> 0..PoisonThreshold]]
    BY <1>1, <2>1, <2>2, <2>4 DEF FailuresTyped
  <2>6. /\ \A v \in CdcWorkers : v # w => failCount'[v] = failCount[v]
        /\ \A f \in 1..MaxEvent : f # e => failCount'[w][f] = failCount[w][f]
        /\ failCount'[w][e] = failCount[w][e] + 1
    BY <1>1, <2>1, <2>2 DEF FailuresTyped
  <2>7. ASSUME failCount[w][e] + 1 >= PoisonThreshold PROVE FailuresBounded'
    <3>1. applier'[w].step = "fatal"
      BY <1>1, <2>1, <2>2, <2>7, ThreadQuits
    <3> QED BY <1>1, <2>3, <2>6, <3>1 DEF FailuresTyped, FailuresBounded
  <2>8. ASSUME ~ (failCount[w][e] + 1 >= PoisonThreshold) PROVE FailuresBounded'
    <3>1. failCount'[w][e] < PoisonThreshold
      BY <2>4, <2>6, <2>8
    <3>2. \A f \in 1..MaxEvent : failCount'[w][f] < PoisonThreshold
      BY <1>1, <1>9, <2>6, <3>1 DEF ApplyFails, At, FailuresTyped, FailuresBounded
    <3> QED BY <1>1, <2>3, <2>6, <3>2 DEF FailuresTyped, FailuresBounded
  <2>9. FailuresTyped'
    BY <2>5, <2>7, <2>8 DEF FailuresTyped
  <2>10. TableTyped'
    BY <1>1, <1>9, BatchTyped DEF ApplyFails, TableTyped
  <2>11. HistoryTyped'
    BY <1>1, <1>9 DEF ApplyFails, HistoryTyped
  <2>12. TroublesTyped'
    BY <1>9, TypeFrames DEF ApplyFails, TroubleKinds
  <2> QED BY <1>2, <1>9, <2>3, <2>9, <2>10, <2>11, <2>12, TypeFrames DEF ApplyFails
<1>10. ASSUME NEW w \in CdcWorkers, CommitsPosition(w) PROVE CdcTInv'
  <2>1. /\ {"fatal", "loop"} \subseteq Steps
        /\ Comes(w, "loop") \/ Quits(w, "fatal")
    BY <1>10 DEF CommitsPosition, Steps
  <2>2. ThreadsTyped'
    BY <1>1, <1>10, <2>1, ThreadComes, ThreadQuits DEF ThreadsTyped
  <2>3. FailuresTyped'
    BY <1>1, <1>10, <2>1, ThreadComes, ThreadQuits, FailuresFrame DEF CommitsPosition, At
  <2>4. KafkaTyped'
    BY <1>1, <1>10, BatchTyped DEF CommitsPosition, KafkaTyped
  <2> QED BY <1>2, <1>10, <2>2, <2>3, <2>4, TypeFrames DEF CommitsPosition
<1>11. ASSUME NEW w \in CdcWorkers, Measures(w) PROVE CdcTInv'
  <2>1. DbTyped'
    <3>1. heartbeat' = [by |-> w, fresh |-> TRUE] \/ heartbeat' = heartbeat
      BY <1>11 DEF Measures
    <3>2. UNCHANGED <<cdcPhase, cdcPaused, lagRow>>
      BY <1>11 DEF Measures
    <3>3. [by |-> w, fresh |-> TRUE] \in [by : CdcWorkers \cup {NoWorker}, fresh : BOOLEAN]
      OBVIOUS
    <3>4. heartbeat \in [by : CdcWorkers \cup {NoWorker}, fresh : BOOLEAN]
      BY <1>1 DEF DbTyped
    <3>5. heartbeat' \in [by : CdcWorkers \cup {NoWorker}, fresh : BOOLEAN]
      BY <3>1, <3>3, <3>4
    <3> QED BY <1>1, <3>2, <3>5 DEF DbTyped
  <2>2. CASE UNCHANGED applier
    BY <1>2, <1>11, <2>1, <2>2, TypeFrames DEF Measures
  <2>3. CASE applier' = [applier EXCEPT ![w] = [@ EXCEPT !.step = "measured", !.zero = NoLag(w),
                                                       !.end = IF NoLag(w) THEN produced ELSE 0]]
    <3> DEFINE z == NoLag(w)
    <3> DEFINE end == IF NoLag(w) THEN produced ELSE 0
    <3>1. z \in BOOLEAN /\ end \in Offsets /\ "measured" \in Steps
      BY <1>1, NewThreadTyped DEF NoLag, KafkaTyped, Steps
    <3> HIDE DEF z, end
    <3>2. applier' = [applier EXCEPT ![w] = [@ EXCEPT !.step = "measured", !.zero = z, !.end = end]]
      BY <2>3 DEF z, end
    <3>3. ThreadsTyped'
      BY <1>1, <3>1, <3>2 DEF ThreadsTyped, ThreadType
    <3>4. FailuresTyped'
      BY <1>1, <1>11, <3>2, FailuresFrame DEF Measures, ThreadsTyped, At
    <3> QED BY <1>2, <1>11, <2>1, <3>3, <3>4, TypeFrames DEF Measures
  <2> QED BY <1>11, <2>2, <2>3 DEF Measures
<1>12. ASSUME NEW w \in CdcWorkers, ChecksIn(w) PROVE CdcTInv'
  <2>1. /\ {"checked in", "loop"} \subseteq Steps
        /\ Goes(w, "checked in") \/ Comes(w, "loop")
    BY <1>12 DEF ChecksIn, Steps
  <2>2. ThreadsTyped'
    BY <1>1, <1>12, <2>1, ThreadComes, ThreadGoes DEF ThreadsTyped
  <2>3. FailuresTyped'
    BY <1>1, <1>12, <2>1, ThreadComes, ThreadGoes, FailuresFrame DEF ChecksIn, At
  <2>4. DbTyped'
    BY <1>1, <1>12 DEF ChecksIn, DbTyped, ThreadsTyped, ThreadType
  <2> QED BY <1>2, <1>12, <2>2, <2>3, <2>4, TypeFrames DEF ChecksIn
<1>13. ASSUME NEW w \in CdcWorkers, TriggersLagZero(w) PROVE CdcTInv'
  <2>1. /\ {"loop"} \subseteq Steps
        /\ Comes(w, "loop")
    BY <1>13 DEF TriggersLagZero, Steps
  <2>2. ThreadsTyped'
    BY <1>1, <1>13, <2>1, ThreadComes DEF ThreadsTyped
  <2>3. FailuresTyped'
    BY <1>1, <1>13, <2>1, ThreadComes, FailuresFrame DEF TriggersLagZero, At
  <2>4. DbTyped'
    BY <1>1, <1>13 DEF TriggersLagZero, DbTyped, CdcPhases
  <2>5. HistoryTyped'
    <3>1. applier[w].end \in Offsets
      BY <1>1 DEF ThreadsTyped, ThreadType
    <3> QED BY <1>1, <1>13, <3>1 DEF TriggersLagZero, HistoryTyped
  <2> QED BY <1>2, <1>13, <2>2, <2>3, <2>4, <2>5, TypeFrames DEF TriggersLagZero
<1>14. ASSUME NEW w \in CdcWorkers, MarksFailed(w) PROVE CdcTInv'
  <2>1. /\ {"stopping"} \subseteq Steps
        /\ Quits(w, "stopping")
    BY <1>14 DEF MarksFailed, Steps
  <2>2. ThreadsTyped'
    BY <1>1, <1>14, <2>1, ThreadQuits DEF ThreadsTyped
  <2>3. FailuresTyped'
    BY <1>1, <1>14, <2>1, ThreadQuits, FailuresFrame DEF MarksFailed, At
  <2>4. DbTyped'
    BY <1>1, <1>14 DEF MarksFailed, DbTyped, Stopped, NoHeartbeat
  <2> QED BY <1>2, <1>14, <2>2, <2>3, <2>4, TypeFrames DEF MarksFailed
<1>15. ASSUME NEW w \in CdcWorkers, Closes(w) PROVE CdcTInv'
  <2>1. ThreadsTyped' /\ FailuresTyped' /\ KafkaTyped'
    BY <1>15, ThreadEnds, GroupLeft DEF Closes
  <2>2. DbTyped'
    BY <1>1, <1>15 DEF Closes, DbTyped, NoHeartbeat
  <2> QED BY <1>2, <1>15, <2>1, <2>2, TypeFrames DEF Closes
<1>16. ASSUME NEW w \in CdcWorkers, Breaks(w) PROVE CdcTInv'
  <2>1. /\ {"fatal"} \subseteq Steps
        /\ Quits(w, "fatal")
    BY <1>16 DEF Breaks, Steps
  <2>2. ThreadsTyped'
    BY <1>1, <1>16, <2>1, ThreadQuits DEF ThreadsTyped
  <2>3. applier'[w].step = "fatal" /\ \A v \in CdcWorkers : v # w => applier'[v] = applier[v]
    BY <1>1, <2>1, ThreadQuits
  <2>4. FailuresTyped'
    BY <1>16, <2>3, FailuresFrame DEF Breaks
  <2>5. KafkaTyped'
    BY <1>1, <1>16, BatchTyped DEF Breaks, KafkaTyped
  <2> QED BY <1>2, <1>16, <2>2, <2>4, <2>5, TypeFrames DEF Breaks, TroubleKinds
<1>17. ASSUME NEW w \in CdcWorkers, Ignores(w) PROVE CdcTInv'
  <2>1. /\ {"loop", "polling", "stopping"} \subseteq Steps
        /\ Goes(w, "polling") \/ Comes(w, "loop") \/ Quits(w, "stopping")
    BY <1>17 DEF Ignores, Steps
  <2>2. ThreadsTyped' /\ FailuresTyped'
    <3>1. \/ At(w, "loop") /\ Goes(w, "polling")
          \/ applier[w].step \in {"measured", "checked in"} /\ Comes(w, "loop")
          \/ At(w, "fatal") /\ Quits(w, "stopping")
      BY <1>17 DEF Ignores
    <3>2. /\ applier' \in [CdcWorkers -> ThreadType]
          /\ \A v \in CdcWorkers : v # w => applier'[v] = applier[v]
          /\ applier'[w].step = "stopping" \/ applier[w].step \notin {"fatal", "stopping"}
      BY <1>1, <2>1, <3>1, ThreadComes, ThreadGoes, ThreadQuits DEF At
    <3> QED BY <1>1, <1>17, <3>2, FailuresFrame DEF Ignores, ThreadsTyped
  <2> QED BY <1>2, <1>17, <2>2, TypeFrames DEF Ignores, TroubleKinds
<1>18. ASSUME NEW w \in CdcWorkers, PollFails(w) PROVE CdcTInv'
  <2>1. /\ {"fatal", "loop"} \subseteq Steps
        /\ Goes(w, "loop") \/ Quits(w, "fatal")
    BY <1>18 DEF PollFails, Steps
  <2>2. ThreadsTyped'
    BY <1>1, <1>18, <2>1, ThreadGoes, ThreadQuits DEF ThreadsTyped
  <2>3. FailuresTyped'
    BY <1>1, <1>18, <2>1, ThreadGoes, ThreadQuits, FailuresFrame DEF PollFails, At
  <2>4. DbTyped'
    BY <1>1, <1>18 DEF PollFails, DbTyped
  <2> QED BY <1>2, <1>18, <2>2, <2>3, <2>4, TypeFrames DEF PollFails, TroubleKinds
<1>19. ASSUME NEW w \in CdcWorkers, ShutsDown(w) PROVE CdcTInv'
  <2>1. /\ {"stopping"} \subseteq Steps
        /\ Quits(w, "stopping")
    BY <1>19 DEF ShutsDown, Steps
  <2>2. ThreadsTyped'
    BY <1>1, <1>19, <2>1, ThreadQuits DEF ThreadsTyped
  <2>3. FailuresTyped'
    BY <1>1, <1>19, <2>1, ThreadQuits, FailuresFrame DEF ShutsDown, At
  <2> QED BY <1>2, <1>19, <2>2, <2>3, TypeFrames DEF ShutsDown, TroubleKinds
<1>20. ASSUME NEW w \in CdcWorkers, Dies(w) PROVE CdcTInv'
  BY <1>2, <1>20, ThreadEnds, TypeFrames DEF Dies, TroubleKinds
<1>21. ASSUME NEW w \in CdcWorkers, IsSlow(w) PROVE CdcTInv'
  <2>1. KafkaTyped'
    BY <1>21, GroupLeft, TypeFrames DEF IsSlow
  <2>2. DbTyped'
    BY <1>1, <1>21 DEF IsSlow, DbTyped
  <2> QED BY <1>2, <1>21, <2>1, <2>2, TypeFrames DEF IsSlow, TroubleKinds
<1>22. ASSUME NEW w \in CdcWorkers, SessionExpires(w) PROVE CdcTInv'
  BY <1>2, <1>22, GroupLeft, TypeFrames DEF SessionExpires
<1>23. CASE HeartbeatAges
  <2>1. DbTyped'
    BY <1>1, <1>23 DEF HeartbeatAges, DbTyped
  <2> QED BY <1>2, <1>23, <2>1, TypeFrames DEF HeartbeatAges
<1>24. CASE Rebalances
  <2>1. owner' \in members \cup {NoWorker}
    BY <1>24 DEF Rebalances
  <2>2. KafkaTyped'
    BY <1>1, <1>24, <2>1 DEF Rebalances, KafkaTyped
  <2>3. ASSUME NEW v \in CdcWorkers
        PROVE  applier'[v] \in ThreadType /\ applier'[v].step = applier[v].step
    <3>1. applier[v] \in ThreadType /\ committed \in Offsets
      BY <1>1 DEF ThreadsTyped, KafkaTyped
    <3>2. /\ [applier[v] EXCEPT !.assigned = TRUE, !.pos = committed] \in ThreadType
          /\ [applier[v] EXCEPT !.assigned = FALSE, !.pos = 0] \in ThreadType
          /\ [applier[v] EXCEPT !.assigned = TRUE, !.pos = committed].step = applier[v].step
          /\ [applier[v] EXCEPT !.assigned = FALSE, !.pos = 0].step = applier[v].step
      BY <3>1, NewThreadTyped DEF ThreadType
    <3>3. \/ applier'[v] = [applier[v] EXCEPT !.assigned = TRUE, !.pos = committed]
          \/ applier'[v] = [applier[v] EXCEPT !.assigned = FALSE, !.pos = 0]
          \/ applier'[v] = applier[v]
      BY <1>24 DEF Rebalances, StartOffset
    <3> QED BY <3>1, <3>2, <3>3
  <2>4. applier' = [v \in CdcWorkers |-> applier'[v]]
    BY <1>24 DEF Rebalances
  <2>5. ThreadsTyped'
    BY <2>3, <2>4 DEF ThreadsTyped
  <2>6. FailuresTyped'
    BY <1>1, <1>24, <2>3 DEF Rebalances, FailuresTyped, FailuresBounded
  <2> QED BY <1>2, <1>24, <2>2, <2>5, <2>6, TypeFrames DEF Rebalances
<1>25. CASE Produces
  <2>1. KafkaTyped'
    BY <1>1, <1>25 DEF Produces, KafkaTyped, Offsets
  <2> QED BY <1>2, <1>25, <2>1, TypeFrames DEF Produces
<1>26. CASE CdcTickReads
  <2>1. TickTyped'
    BY <1>1, <1>26, NewThreadTyped DEF CdcTickReads, TickTyped
  <2> QED BY <1>2, <1>26, <2>1, TypeFrames DEF CdcTickReads
<1>27. CASE CdcTickDecides
  <2>1. Declared \in Offsets
    BY <1>1, NewThreadTyped DEF Declared, DbTyped
  <2>2. [cdcTick EXCEPT !.step = "write", !.end = Declared]
          \in [step : {"idle", "read", "write"}, saw : CdcPhases \cup {"none"}, end : Offsets]
    BY <1>1, <2>1 DEF TickTyped
  <2>3. TickTyped'
    BY <1>27, <2>2, NewThreadTyped DEF CdcTickDecides, TickTyped, NoTick
  <2> QED BY <1>2, <1>27, <2>3, TypeFrames DEF CdcTickDecides
<1>28. CASE CdcTickWrites
  <2>1. TickTyped'
    BY <1>28, NewThreadTyped DEF CdcTickWrites, TickTyped, NoTick
  <2>2. DbTyped'
    BY <1>1, <1>28 DEF CdcTickWrites, DbTyped, NextPhase, CdcPhases
  <2>3. HistoryTyped'
    BY <1>1, <1>28 DEF CdcTickWrites, HistoryTyped, TickTyped
  <2> QED BY <1>2, <1>28, <2>1, <2>2, <2>3, TypeFrames DEF CdcTickWrites
<1>29. CASE CdcFailed
  <2>1. TickTyped'
    BY <1>29, NewThreadTyped DEF CdcFailed, TickTyped, NoTick
  <2>2. DbTyped'
    BY <1>1, <1>29 DEF CdcFailed, DbTyped, Stopped
  <2> QED BY <1>2, <1>29, <2>1, <2>2, TypeFrames DEF CdcFailed, TroubleKinds
<1>30. CASE Pauses
  <2>1. DbTyped'
    BY <1>1, <1>30 DEF Pauses, DbTyped, NoHeartbeat
  <2> QED BY <1>2, <1>30, <2>1, TypeFrames DEF Pauses, TroubleKinds
<1>31. CASE Resumes
  <2>1. DbTyped'
    BY <1>1, <1>31 DEF Resumes, DbTyped
  <2> QED BY <1>2, <1>31, <2>1, TypeFrames DEF Resumes
<1>32. CASE Cancels
  <2>1. DbTyped'
    BY <1>1, <1>32 DEF Cancels, DbTyped, Stopped
  <2> QED BY <1>2, <1>32, <2>1, TypeFrames DEF Cancels, TroubleKinds
<1>33. CASE UNCHANGED cdcVars
  BY <1>2, <1>33, TypeFrames DEF cdcVars, stateDb, kafka, targetTable, history
<1> QED
  BY <1>3, <1>4, <1>5, <1>6, <1>7, <1>8, <1>9, <1>10, <1>11, <1>12, <1>13, <1>14, <1>15, <1>16, <1>17,
     <1>18, <1>19, <1>20, <1>21, <1>22, <1>23, <1>24, <1>25, <1>26, <1>27, <1>28, <1>29, <1>30, <1>31,
     <1>32, <1>33
  DEF CdcNext, ThreadGoesOn, CdcTicks

----------------------------------------------------------------------------
(* The kinds of steps, as far as positions, the table and the group go.    *)

Commits(w) ==
  At(w, "applied") /\ owner = w /\ committed' = applier[w].pos /\ UNCHANGED <<produced, members, owner>>

(* A thread is at no batch any more, if it was at one; it keeps its        *)
(* position or gives it up, and begins to go on only outside the group.    *)
Retreats(w) ==
  /\ \A v \in CdcWorkers : v # w => applier'[v] = applier[v]
  /\ applier'[w].step \notin {"applying", "applied"}
  /\ applier'[w].pos = 0 \/ (applier'[w].pos = applier[w].pos /\ (InBatch(w) => Commits(w)))
  /\ applier'[w].step \in Alive =>
       w \notin members \/ (applier[w].step \in Alive \ {"applying"} /\ applier'[w].pos = applier[w].pos)
  /\ \/ applier'[w].end = 0 \/ applier'[w].end = applier[w].end
     \/ applier'[w].end = produced /\ NoLag(w) /\ ~ InBatch(w)

Joins(w) ==
  w \notin members /\ members' = members \cup {w} /\ UNCHANGED <<produced, committed, owner>>

ApplierStep(w) ==
  /\ Retreats(w) /\ UNCHANGED <<targetTable, firstFailed>>
  /\ UNCHANGED kafka \/ Commits(w) \/ Joins(w) \/ LeavesGroup(w)
LeaveStep(w) == LeavesGroup(w) /\ UNCHANGED <<applier, targetTable, firstFailed>>
OtherStep == UNCHANGED <<applier, kafka, targetTable, firstFailed>>

LEMMA Kinds ==
  ASSUME CdcTInv, [CdcNext]_cdcVars
  PROVE  \/ \E w \in CdcWorkers :
              ApplierStep(w) \/ PollReturns(w) \/ Applies(w) \/ ApplyFails(w) \/ LeaveStep(w)
         \/ Rebalances \/ Produces \/ OtherStep
<1>1. CdcTypeOK /\ ThreadsTyped
  BY TypeParts DEF CdcTInv
<1>2. NewThread.step = "off" /\ NewThread.pos = 0 /\ NewThread.end = 0
  BY DEF NewThread
<1>3. ASSUME NEW w \in CdcWorkers, ClaimCdc(w) PROVE ApplierStep(w)
  <2>1. {"loop"} \subseteq Steps
    BY DEF Steps
  <2>2. Retreats(w)
    BY <1>1, <1>3, <2>1, ThreadGoes DEF ClaimCdc, Retreats, At, Alive, InBatch
  <2> QED BY <1>3, <2>2 DEF ClaimCdc, ApplierStep, history
<1>4. ASSUME NEW w \in CdcWorkers, LooksUp(w) PROVE ApplierStep(w)
  <2>1. {"polling", "stopping"} \subseteq Steps
    BY DEF Steps
  <2>2. ASSUME Goes(w, "polling") PROVE Retreats(w)
    BY <1>1, <1>4, <2>1, <2>2, ThreadGoes DEF LooksUp, Retreats, At, Alive, InBatch
  <2>3. ASSUME Quits(w, "stopping") PROVE Retreats(w)
    BY <1>1, <1>4, <2>1, <2>3, ThreadQuits DEF LooksUp, Retreats, At, Alive, InBatch
  <2>4. Retreats(w)
    BY <1>4, <2>2, <2>3 DEF LooksUp
  <2> QED BY <1>4, <2>4 DEF LooksUp, ApplierStep, history
<1>5. ASSUME NEW w \in CdcWorkers, PollJoins(w) PROVE ApplierStep(w)
  <2>1. {"loop"} \subseteq Steps
    BY DEF Steps
  <2>2. Retreats(w)
    BY <1>1, <1>5, <2>1, ThreadQuits DEF PollJoins, Retreats, At, Alive, InBatch, Quits
  <2> QED BY <1>5, <2>2 DEF PollJoins, ApplierStep, history, Joins
<1>6. ASSUME NEW w \in CdcWorkers, PollReturnsNone(w) PROVE ApplierStep(w)
  <2>1. {"loop"} \subseteq Steps
    BY DEF Steps
  <2>2. Retreats(w)
    BY <1>1, <1>6, <2>1, ThreadGoes DEF PollReturnsNone, Retreats, At, Alive, InBatch
  <2> QED BY <1>6, <2>2 DEF PollReturnsNone, ApplierStep, history
<1>7. ASSUME NEW w \in CdcWorkers, CommitsPosition(w) PROVE ApplierStep(w)
  <2>1. {"fatal", "loop"} \subseteq Steps
    BY DEF Steps
  <2>2. CASE owner = w
    <3>1. Commits(w) /\ Comes(w, "loop") /\ applier[w].step = "applied"
      BY <1>7, <2>2 DEF CommitsPosition, Commits, At
    <3>2. Retreats(w)
      BY <1>1, <2>1, <3>1, ThreadComes DEF Retreats, Alive
    <3> QED BY <1>7, <3>1, <3>2 DEF CommitsPosition, ApplierStep, history
  <2>3. CASE owner # w
    <3>1. UNCHANGED kafka /\ Quits(w, "fatal")
      BY <1>7, <2>3 DEF CommitsPosition, kafka
    <3>2. Retreats(w)
      BY <1>1, <2>1, <3>1, ThreadQuits DEF Retreats, Alive
    <3> QED BY <1>7, <3>1, <3>2 DEF CommitsPosition, ApplierStep, history
  <2> QED BY <2>2, <2>3
<1>8. ASSUME NEW w \in CdcWorkers, Measures(w) PROVE ApplierStep(w)
  <2>1. CASE UNCHANGED applier
    <3>1. Retreats(w)
      BY <1>8, <2>1 DEF Measures, Retreats, At, Alive, InBatch
    <3> QED BY <1>8, <3>1 DEF Measures, ApplierStep, history
  <2>2. CASE applier' = [applier EXCEPT ![w] = [@ EXCEPT !.step = "measured", !.zero = NoLag(w),
                                                       !.end = IF NoLag(w) THEN produced ELSE 0]]
    <3> DEFINE z == NoLag(w)
    <3> DEFINE end == IF NoLag(w) THEN produced ELSE 0
    <3>1. end = 0 \/ (end = produced /\ NoLag(w))
      OBVIOUS
    <3> HIDE DEF z, end
    <3>2. applier' = [applier EXCEPT ![w] = [@ EXCEPT !.step = "measured", !.zero = z, !.end = end]]
      BY <2>2 DEF z, end
    <3>3. /\ \A v \in CdcWorkers : v # w => applier'[v] = applier[v]
          /\ applier'[w].step = "measured" /\ applier'[w].pos = applier[w].pos
          /\ applier'[w].end = end
      BY <1>1, <3>2 DEF ThreadsTyped, ThreadType
    <3>4. Retreats(w)
      BY <1>8, <3>1, <3>3 DEF Measures, Retreats, At, Alive, InBatch
    <3> QED BY <1>8, <3>4 DEF Measures, ApplierStep, history
  <2> QED BY <1>8, <2>1, <2>2 DEF Measures
<1>9. ASSUME NEW w \in CdcWorkers, ChecksIn(w) PROVE ApplierStep(w)
  <2>1. {"checked in", "loop"} \subseteq Steps
    BY DEF Steps
  <2>2. ASSUME Goes(w, "checked in") PROVE Retreats(w)
    BY <1>1, <1>9, <2>1, <2>2, ThreadGoes DEF ChecksIn, Retreats, At, Alive, InBatch
  <2>3. ASSUME Comes(w, "loop") PROVE Retreats(w)
    BY <1>1, <1>9, <2>1, <2>3, ThreadComes DEF ChecksIn, Retreats, At, Alive, InBatch
  <2>4. Retreats(w)
    BY <1>9, <2>2, <2>3 DEF ChecksIn
  <2> QED BY <1>9, <2>4 DEF ChecksIn, ApplierStep, history
<1>10. ASSUME NEW w \in CdcWorkers, TriggersLagZero(w) PROVE ApplierStep(w)
  <2>1. {"loop"} \subseteq Steps
    BY DEF Steps
  <2>2. Retreats(w)
    BY <1>1, <1>10, <2>1, ThreadComes DEF TriggersLagZero, Retreats, At, Alive, InBatch
  <2> QED BY <1>10, <2>2 DEF TriggersLagZero, ApplierStep, history
<1>11. ASSUME NEW w \in CdcWorkers, MarksFailed(w) PROVE ApplierStep(w)
  <2>1. {"stopping"} \subseteq Steps
    BY DEF Steps
  <2>2. Retreats(w)
    BY <1>1, <1>11, <2>1, ThreadQuits DEF MarksFailed, Retreats, At, Alive, InBatch
  <2> QED BY <1>11, <2>2 DEF MarksFailed, ApplierStep, history
<1>12. ASSUME NEW w \in CdcWorkers, Closes(w) PROVE ApplierStep(w)
  <2>1. Retreats(w)
    BY <1>2, <1>12, ThreadEnds DEF Closes, Retreats, Alive, InBatch
  <2> QED BY <1>12, <2>1 DEF Closes, ApplierStep, history
<1>13. ASSUME NEW w \in CdcWorkers, Breaks(w) PROVE ApplierStep(w)
  <2>1. {"fatal"} \subseteq Steps
    BY DEF Steps
  <2>2. Retreats(w)
    BY <1>1, <1>13, <2>1, ThreadQuits DEF Breaks, Retreats, At, Alive, InBatch
  <2> QED BY <1>13, <2>2 DEF Breaks, ApplierStep, history, Commits, kafka, At
<1>14. ASSUME NEW w \in CdcWorkers, Ignores(w) PROVE ApplierStep(w)
  <2>1. {"polling", "loop", "stopping"} \subseteq Steps
    BY DEF Steps
  <2>2. ASSUME At(w, "loop"), Goes(w, "polling") PROVE Retreats(w)
    BY <1>1, <2>1, <2>2, ThreadGoes DEF Retreats, At, Alive, InBatch
  <2>3. ASSUME applier[w].step \in {"measured", "checked in"}, Comes(w, "loop") PROVE Retreats(w)
    BY <1>1, <2>1, <2>3, ThreadComes DEF Retreats, Alive, InBatch
  <2>4. ASSUME At(w, "fatal"), Quits(w, "stopping") PROVE Retreats(w)
    BY <1>1, <2>1, <2>4, ThreadQuits DEF Retreats, Alive, InBatch
  <2>5. Retreats(w)
    BY <1>14, <2>2, <2>3, <2>4 DEF Ignores
  <2> QED BY <1>14, <2>5 DEF Ignores, ApplierStep, history
<1>15. ASSUME NEW w \in CdcWorkers, PollFails(w) PROVE ApplierStep(w)
  <2>1. {"fatal", "loop"} \subseteq Steps
    BY DEF Steps
  <2>2. ASSUME Goes(w, "loop") PROVE Retreats(w)
    BY <1>1, <1>15, <2>1, <2>2, ThreadGoes DEF PollFails, Retreats, At, Alive, InBatch
  <2>3. ASSUME Quits(w, "fatal") PROVE Retreats(w)
    BY <1>1, <1>15, <2>1, <2>3, ThreadQuits DEF PollFails, Retreats, At, Alive, InBatch
  <2>4. Retreats(w)
    BY <1>15, <2>2, <2>3 DEF PollFails
  <2> QED BY <1>15, <2>4 DEF PollFails, ApplierStep, history
<1>16. ASSUME NEW w \in CdcWorkers, ShutsDown(w) PROVE ApplierStep(w)
  <2>1. {"stopping"} \subseteq Steps
    BY DEF Steps
  <2>2. Retreats(w)
    BY <1>1, <1>16, <2>1, ThreadQuits DEF ShutsDown, Retreats, At, Alive, InBatch
  <2> QED BY <1>16, <2>2 DEF ShutsDown, ApplierStep, history
<1>17. ASSUME NEW w \in CdcWorkers, Dies(w) PROVE ApplierStep(w)
  <2>1. Retreats(w)
    BY <1>2, <1>17, ThreadEnds DEF Dies, Retreats, Alive, InBatch
  <2> QED BY <1>17, <2>1 DEF Dies, ApplierStep, history
<1>18. ASSUME NEW w \in CdcWorkers, IsSlow(w) PROVE LeaveStep(w) \/ OtherStep
  BY <1>18 DEF IsSlow, LeaveStep, OtherStep, history
<1>19. ASSUME NEW w \in CdcWorkers, SessionExpires(w) PROVE LeaveStep(w)
  BY <1>19 DEF SessionExpires, LeaveStep, history
<1>20. CASE \/ HeartbeatAges \/ CdcTickReads \/ CdcTickDecides \/ CdcTickWrites
            \/ CdcFailed \/ Pauses \/ Resumes \/ Cancels
  BY <1>20 DEF HeartbeatAges, CdcTickReads, CdcTickDecides, CdcTickWrites, CdcFailed, Pauses, Resumes, Cancels,
                 OtherStep, history
<1>21. CASE UNCHANGED cdcVars
  BY <1>21 DEF cdcVars, OtherStep, kafka, targetTable
<1> QED BY <1>3, <1>4, <1>5, <1>6, <1>7, <1>8, <1>9, <1>10, <1>11, <1>12,
            <1>13, <1>14, <1>15, <1>16, <1>17, <1>18, <1>19, <1>20, <1>21
         DEF CdcNext, ThreadGoesOn, CdcTicks

----------------------------------------------------------------------------
(* The positions and the group.                                            *)

LEMMA GroupInit == CdcInit => Positions /\ BatchOfOwner
<1> SUFFICES ASSUME CdcInit PROVE Positions /\ BatchOfOwner
  OBVIOUS
<1>1. \A w \in CdcWorkers : applier[w] = NewThread
  BY DEF CdcInit
<1>2. NewThread.step = "off" /\ NewThread.pos = 0
  BY DEF NewThread
<1>3. committed = 0 /\ produced \in 0..MaxEvent /\ members = {}
  BY DEF CdcInit, Offsets
<1> QED BY <1>1, <1>2, <1>3 DEF Positions, BatchOfOwner, InBatch

(* What one step of a thread does to a batch of another, and to its own.   *)
LEMMA GroupStep ==
  ASSUME GroupInv, [CdcNext]_cdcVars
  PROVE  Positions' /\ BatchOfOwner'
<1>1. /\ CdcTInv /\ Positions /\ BatchOfOwner /\ ThreadsTyped /\ KafkaTyped /\ CdcTypeOK
  BY TypeParts DEF GroupInv, CdcTInv
<1>2. /\ committed \in Nat /\ produced \in Nat
     /\ \A v \in CdcWorkers : applier[v].pos \in Nat /\ applier[v].from \in Nat
  BY <1>1, BatchTyped DEF KafkaTyped, Offsets
<1>3. ASSUME NEW w \in CdcWorkers, ApplierStep(w) PROVE Positions' /\ BatchOfOwner'
  <2>1. Retreats(w)
    BY <1>3 DEF ApplierStep
  <2>2. produced' = produced /\ committed' <= produced
    BY <1>1, <1>3 DEF ApplierStep, kafka, Commits, Joins, LeavesGroup, Positions
  <2>3. Positions'
    BY <1>1, <1>2, <2>1, <2>2 DEF Positions, Retreats, InBatch
  <2>4. ASSUME NEW v \in members', InBatch(v)' PROVE owner' = v
    <3>1. v # w /\ v \in members
      BY <1>1, <1>3, <2>1, <2>4 DEF Retreats, ApplierStep, kafka, Commits, Joins, LeavesGroup, InBatch
    <3>2. v \in CdcWorkers /\ InBatch(v)
      BY <1>1, <2>1, <2>4, <3>1 DEF Retreats, InBatch, KafkaTyped
    <3>3. owner = v
      BY <1>1, <3>1, <3>2 DEF BatchOfOwner
    <3> QED BY <1>3, <3>1, <3>3 DEF ApplierStep, kafka, Commits, Joins, LeavesGroup
  <2> QED BY <2>3, <2>4 DEF BatchOfOwner
<1>4. ASSUME NEW w \in CdcWorkers, PollReturns(w) PROVE Positions' /\ BatchOfOwner'
  <2>1. PICK last \in (applier[w].pos + 1)..produced :
          applier' = [applier EXCEPT ![w] = [@ EXCEPT !.step = "applying", !.from = applier[w].pos, !.pos = last]]
    BY <1>4 DEF PollReturns
  <2>2. /\ \A v \in CdcWorkers : v # w => applier'[v] = applier[v]
        /\ applier'[w].from = applier[w].pos /\ applier'[w].pos = last
    BY <1>1, <2>1 DEF ThreadsTyped, ThreadType
  <2>3. UNCHANGED <<produced, committed, members, owner>> /\ owner = w
    BY <1>4 DEF PollReturns, kafka
  <2>4. Positions'
    BY <1>1, <1>2, <2>2, <2>3 DEF Positions, InBatch
  <2>5. BatchOfOwner'
    BY <1>1, <2>2, <2>3 DEF BatchOfOwner, InBatch, KafkaTyped
  <2> QED BY <2>4, <2>5
<1>5. ASSUME NEW w \in CdcWorkers, Applies(w) PROVE Positions' /\ BatchOfOwner'
  <2>1. /\ \A v \in CdcWorkers : v # w => applier'[v] = applier[v]
        /\ applier[w].step = "applying" /\ applier'[w].step = "applied"
        /\ applier'[w].from = applier[w].from /\ applier'[w].pos = applier[w].pos
    BY <1>1, <1>5, ThreadGoes DEF Applies, At, Steps
  <2>2. UNCHANGED <<produced, committed, members, owner>>
    BY <1>5 DEF Applies, kafka
  <2>3. Positions'
    BY <1>1, <2>1, <2>2 DEF Positions, InBatch
  <2>4. BatchOfOwner'
    BY <1>1, <2>1, <2>2 DEF BatchOfOwner, InBatch, KafkaTyped
  <2> QED BY <2>3, <2>4
<1>6. ASSUME NEW w \in CdcWorkers, ApplyFails(w) PROVE Positions' /\ BatchOfOwner'
  <2>1. /\ \A v \in CdcWorkers : v # w => applier'[v] = applier[v]
        /\ applier'[w].step \in {"loop", "fatal"}
        /\ applier'[w].pos = applier[w].pos \/ applier'[w].pos = 0
    BY <1>1, <1>6, ThreadComes, ThreadQuits DEF ApplyFails, Steps
  <2>2. UNCHANGED <<produced, committed, members, owner>>
    BY <1>6 DEF ApplyFails, kafka
  <2>3. Positions'
    BY <1>1, <1>2, <2>1, <2>2 DEF Positions, InBatch
  <2>4. BatchOfOwner'
    BY <1>1, <2>1, <2>2 DEF BatchOfOwner, InBatch, KafkaTyped
  <2> QED BY <2>3, <2>4
<1>7. ASSUME NEW w \in CdcWorkers, LeaveStep(w) PROVE Positions' /\ BatchOfOwner'
  BY <1>1, <1>7 DEF LeaveStep, LeavesGroup, Positions, BatchOfOwner, InBatch
<1>8. CASE Rebalances
  <2>1. UNCHANGED <<produced, committed, members>>
    BY <1>8 DEF Rebalances
  <2>2. ASSUME NEW v \in members PROVE ~ InBatch(v)
    BY <1>1, <1>8 DEF Rebalances, BatchOfOwner, KafkaTyped
  <2>3. ASSUME NEW v \in CdcWorkers
        PROVE  /\ applier'[v].step = applier[v].step
               /\ applier'[v] = applier[v] \/ (v \in members /\ applier'[v].pos \in {0, committed})
    <3>1. /\ [applier[v] EXCEPT !.assigned = TRUE, !.pos = committed].step = applier[v].step
          /\ [applier[v] EXCEPT !.assigned = TRUE, !.pos = committed].pos = committed
          /\ [applier[v] EXCEPT !.assigned = FALSE, !.pos = 0].step = applier[v].step
          /\ [applier[v] EXCEPT !.assigned = FALSE, !.pos = 0].pos = 0
      BY <1>1 DEF ThreadsTyped, ThreadType
    <3>2. \/ v \in members /\ applier'[v] = [applier[v] EXCEPT !.assigned = TRUE, !.pos = committed]
          \/ v \in members /\ applier'[v] = [applier[v] EXCEPT !.assigned = FALSE, !.pos = 0]
          \/ applier'[v] = applier[v]
      BY <1>8 DEF Rebalances, StartOffset
    <3> QED BY <3>1, <3>2
  <2>4. Positions'
    BY <1>1, <1>2, <2>1, <2>2, <2>3 DEF Positions, InBatch
  <2>5. BatchOfOwner'
    BY <1>1, <2>1, <2>2, <2>3 DEF BatchOfOwner, InBatch, KafkaTyped
  <2> QED BY <2>4, <2>5
<1>9. CASE Produces
  <2>1. produced' = produced + 1 /\ UNCHANGED <<committed, members, owner, applier>>
    BY <1>9 DEF Produces
  <2> QED BY <1>1, <1>2, <2>1 DEF Positions, BatchOfOwner, InBatch
<1>10. CASE OtherStep
  BY <1>1, <1>10 DEF OtherStep, kafka, Positions, BatchOfOwner, InBatch
<1> QED BY <1>1, <1>3, <1>4, <1>5, <1>6, <1>7, <1>8, <1>9, <1>10, Kinds

----------------------------------------------------------------------------
(* What is applied.                                                        *)

LEMMA AppliedInit == CdcInit => AppliedInv
<1> SUFFICES ASSUME CdcInit PROVE AppliedInv
  OBVIOUS
<1>1. owner = NoWorker /\ committed = 0
  BY DEF CdcInit
<1> QED BY <1>1 DEF AppliedInv, OwnerIsGood, CommittedIsApplied

(* The events of an applied batch are in the target, those before it are   *)
(* as well as they were, and so are all others when the worker is out of   *)
(* the group: what it writes over is marked.                               *)
LEMMA AppliesGood ==
  ASSUME GroupInv, NEW w \in CdcWorkers, Applies(w), NEW e \in 1..MaxEvent,
         e \in Batch(w) \/ (Good(e) /\ (owner # w \/ e <= applier[w].from))
  PROVE  Good(e)'
<1> DEFINE k == EventKey[e]
<1> DEFINE B == Batch(w)
<1>1. /\ CdcTypeOK /\ k \in Keys /\ B \in SUBSET (1..MaxEvent) /\ target \in [Keys -> Offsets]
      /\ applier[w].from \in Offsets /\ applier[w].pos \in Offsets
  BY BatchTyped DEF GroupInv, CdcTInv, CdcTypeOK
<1>2. target' = Written(B) /\ rolledBack' = rolledBack \ B
  BY DEF Applies
<1>3. undone' = {f \in 1..MaxEvent : /\ target'[EventKey[f]] < f
                                     /\ f \in undone \/ (owner # w /\ target[EventKey[f]] >= f)}
  BY DEF Applies
<1>4. B = (applier[w].from + 1)..applier[w].pos
  BY DEF Batch
<1>5. target' \in [Keys -> Offsets]
  BY <1>1, <1>2, WrittenTyped
<1>6. target'[k] \in Nat /\ target[k] \in Nat
  BY <1>5, <1>1 DEF Offsets
<1>7. target'[k] = IF \E f \in B : EventKey[f] = k THEN LastIn(k, B) ELSE target[k]
  BY <1>1, <1>2 DEF Written
<1> HIDE DEF k, B
<1>8. CASE e \in B
  <2>1. \E f \in B : EventKey[f] = k
    BY <1>8 DEF k
  <2>2. e <= LastIn(k, B)
    BY <1>1, <1>8, <2>1, LastInIsLast DEF k
  <2>3. target'[k] >= e
    BY <1>6, <1>7, <2>1, <2>2
  <2> QED BY <2>3 DEF Good, k
<1>9. CASE e \notin B /\ Good(e)
  <2>1. CASE target'[k] >= e
    BY <2>1 DEF Good, k
  <2>2. CASE ~ (target'[k] >= e)
    <3>1. target'[k] < e
      BY <1>6, <2>2
    <3>2. CASE e \in rolledBack
      BY <1>2, <1>9, <3>2 DEF Good
    <3>3. CASE e \in undone
      BY <1>3, <3>1, <3>3 DEF Good, k
    <3>4. CASE target[k] >= e
      <4>1. CASE owner # w
        BY <1>3, <3>1, <3>4, <4>1 DEF Good, k
      <4>2. CASE owner = w
        <5>1. e <= applier[w].from
          BY <1>9, <4>2 DEF B
        <5>2. \E f \in B : EventKey[f] = k
          BY <1>6, <1>7, <3>1, <3>4
        <5>3. LastIn(k, B) \in B
          BY <1>1, <5>2, LastInIsLast
        <5>4. LastIn(k, B) \in B /\ applier[w].from \in Nat
          BY <1>1, <5>3 DEF Offsets
        <5>5. LastIn(k, B) \in Nat /\ LastIn(k, B) > applier[w].from
          BY <1>4, <5>4
        <5> QED BY <1>7, <3>1, <5>1, <5>2, <5>4, <5>5
      <4> QED BY <4>1, <4>2
    <3> QED BY <1>9, <3>2, <3>3, <3>4 DEF Good, k
  <2> QED BY <2>1, <2>2
<1> QED BY <1>8, <1>9 DEF B

LEMMA AppliedStep ==
  ASSUME GroupInv, AppliedInv, [CdcNext]_cdcVars
  PROVE  AppliedInv'
<1>1. /\ CdcTInv /\ Positions /\ BatchOfOwner /\ ThreadsTyped /\ KafkaTyped /\ CdcTypeOK
  BY TypeParts DEF GroupInv, CdcTInv
<1>2. /\ committed \in Nat /\ produced \in Nat /\ committed <= produced /\ produced <= MaxEvent
      /\ \A v \in CdcWorkers : /\ applier[v].pos \in Nat /\ applier[v].from \in Nat
                               /\ applier[v].pos <= produced
  BY <1>1, BatchTyped DEF KafkaTyped, Offsets, Positions
<1>3. /\ \A e \in 1..committed : Good(e)
      /\ owner # NoWorker /\ applier[owner].step \in Alive =>
           committed <= Done(owner) /\ \A e \in 1..Done(owner) : Good(e)
      /\ owner # NoWorker => owner \in CdcWorkers /\ owner \in members
  BY <1>1 DEF AppliedInv, OwnerIsGood, CommittedIsApplied, Good, KafkaTyped
<1>4. ASSUME /\ \A e \in 1..committed' : Good(e)'
             /\ owner' # NoWorker /\ applier'[owner'].step \in Alive =>
                  committed' <= Done(owner)' /\ \A e \in 1..Done(owner)' : Good(e)'
      PROVE  AppliedInv'
  BY <1>4 DEF AppliedInv, OwnerIsGood, CommittedIsApplied, Good
<1>5. ASSUME NEW w \in CdcWorkers, ApplierStep(w) PROVE AppliedInv'
  <2>1. Retreats(w) /\ \A e : Good(e)' <=> Good(e)
    BY <1>5 DEF ApplierStep, Good, targetTable
  <2>2. committed' = committed \/ Commits(w)
    BY <1>5 DEF ApplierStep, kafka, Joins, LeavesGroup
  <2>3. ASSUME Commits(w) PROVE owner = w /\ committed' = Done(w) /\ \A e \in 1..committed' : Good(e)
    BY <1>1, <1>3, <2>3 DEF Commits, At, Done, Alive, KafkaTyped
  <2>4. ASSUME owner' # NoWorker, applier'[owner'].step \in Alive
        PROVE  committed' <= Done(owner)' /\ \A e \in 1..Done(owner)' : Good(e)
    <3>1. owner' = owner
      BY <1>5, <2>4 DEF ApplierStep, kafka, Commits, Joins, LeavesGroup
    <3>2. CASE owner # w
      <4>1. applier'[owner] = applier[owner] /\ committed' = committed
        BY <1>3, <2>1, <2>2, <2>3, <2>4, <3>1, <3>2 DEF Retreats
      <4> QED BY <1>3, <2>4, <3>1, <4>1 DEF Done, At
    <3>3. CASE owner = w
      <4>1. /\ applier[w].step \in Alive \ {"applying"} /\ applier'[w].pos = applier[w].pos
            /\ applier'[w].step # "applying"
        BY <1>3, <2>1, <2>4, <3>1, <3>3 DEF Retreats
      <4>2. Done(owner)' = applier[w].pos
        BY <3>1, <3>3, <4>1 DEF Done, At
      <4>3. Done(w) = applier[w].pos
        BY <4>1 DEF Done, At
      <4>4. committed <= Done(w) /\ \A e \in 1..Done(w) : Good(e)
        BY <1>3, <2>4, <3>1, <3>3, <4>1
      <4>5. committed' <= Done(w)
        BY <1>2, <2>2, <2>3, <4>3, <4>4
      <4> QED BY <3>3, <4>2, <4>3, <4>4, <4>5
    <3> QED BY <3>2, <3>3
  <2> QED BY <1>4, <1>3, <2>1, <2>2, <2>3, <2>4
<1>6. ASSUME NEW w \in CdcWorkers, PollReturns(w) PROVE AppliedInv'
  <2>1. PICK last \in (applier[w].pos + 1)..produced :
          applier' = [applier EXCEPT ![w] = [@ EXCEPT !.step = "applying", !.from = applier[w].pos, !.pos = last]]
    BY <1>6 DEF PollReturns
  <2>2. applier'[w].from = applier[w].pos /\ applier'[w].step = "applying"
    BY <1>1, <2>1 DEF ThreadsTyped, ThreadType
  <2>3. /\ UNCHANGED <<committed, members, owner>> /\ owner = w /\ applier[w].step = "polling"
        /\ \A e : Good(e)' <=> Good(e)
    BY <1>6 DEF PollReturns, kafka, targetTable, Good, At
  <2>4. Done(w)' = Done(w) /\ applier[w].step \in Alive
    BY <2>2, <2>3 DEF Done, At, Alive
  <2> QED BY <1>4, <1>3, <2>3, <2>4
<1>7. ASSUME NEW w \in CdcWorkers, Applies(w) PROVE AppliedInv'
  <2>1. /\ \A v \in CdcWorkers : v # w => applier'[v] = applier[v]
        /\ applier[w].step = "applying" /\ applier'[w].step = "applied"
        /\ applier'[w].pos = applier[w].pos
    BY <1>1, <1>7, ThreadGoes DEF Applies, At, Steps
  <2>2. UNCHANGED <<committed, members, owner>>
    BY <1>7 DEF Applies, kafka
  <2>3. CASE owner # w
    <3>1. \A e \in 1..MaxEvent : Good(e) => Good(e)'
      BY <1>7, <2>3, AppliesGood
    <3>2. \A e \in 1..committed : e \in 1..MaxEvent
      BY <1>2
    <3>3. ASSUME owner # NoWorker, applier'[owner].step \in Alive
          PROVE  committed <= Done(owner)' /\ \A e \in 1..Done(owner)' : Good(e)'
      <4>1. applier'[owner] = applier[owner] /\ owner \in CdcWorkers
        BY <1>3, <2>1, <2>3, <3>3
      <4>2. Done(owner)' = Done(owner) /\ Done(owner) \in Nat /\ Done(owner) <= MaxEvent
        BY <1>1, <1>2, <2>2, <4>1 DEF Done, At, Positions, InBatch
      <4> QED BY <1>3, <3>1, <3>3, <4>1, <4>2
    <3> QED BY <1>4, <1>3, <2>2, <3>1, <3>2, <3>3
  <2>4. CASE owner = w
    <3>1. /\ Done(w) = applier[w].from /\ Done(w)' = applier[w].pos
          /\ applier[w].from < applier[w].pos /\ committed <= applier[w].from
      BY <1>1, <1>3, <2>1, <2>4 DEF Done, At, Alive, Positions, InBatch, KafkaTyped
    <3>2. \A e \in 1..applier[w].pos : e \in 1..MaxEvent /\ (e \in Batch(w) \/ e \in 1..applier[w].from)
      BY <1>2 DEF Batch
    <3>3. owner # NoWorker /\ applier[owner].step \in Alive
      BY <2>1, <2>4 DEF Alive
    <3>4. \A e \in 1..Done(w) : Good(e)
      BY <1>3, <2>4, <3>3
    <3>5. \A e \in 1..applier[w].from : Good(e) /\ e <= applier[w].from
      BY <1>2, <3>1, <3>4
    <3>6. \A e \in 1..applier[w].pos : Good(e)'
      BY <1>7, <3>2, <3>5, AppliesGood
    <3>7. committed <= applier[w].pos
      BY <1>2, <3>1
    <3> QED BY <1>4, <1>2, <2>2, <2>4, <3>1, <3>6, <3>7
  <2> QED BY <2>3, <2>4
<1>8. ASSUME NEW w \in CdcWorkers, ApplyFails(w) PROVE AppliedInv'
  <2>1. /\ \A v \in CdcWorkers : v # w => applier'[v] = applier[v]
        /\ applier[w].step = "applying"
        /\ \/ applier'[w].step = "loop" /\ applier'[w].pos = applier[w].pos
           \/ applier'[w].step = "fatal"
    BY <1>1, <1>8, ThreadComes, ThreadQuits DEF ApplyFails, At, Steps
  <2>2. UNCHANGED <<committed, members, owner, target, undone>> /\ rolledBack' = rolledBack \cup Batch(w)
    BY <1>8 DEF ApplyFails, kafka
  <2>3. \A e : Good(e) \/ e \in Batch(w) => Good(e)'
    BY <2>2 DEF Good
  <2>4. ASSUME owner # NoWorker, applier'[owner].step \in Alive
        PROVE  committed <= Done(owner)' /\ \A e \in 1..Done(owner)' : Good(e)'
    <3>1. CASE owner # w
      <4>1. applier'[owner] = applier[owner]
        BY <1>3, <2>1, <2>4, <3>1
      <4>2. Done(owner)' = Done(owner)
        BY <2>2, <4>1 DEF Done, At
      <4> QED BY <1>3, <2>3, <2>4, <4>1, <4>2
    <3>2. CASE owner = w
      <4>1. applier'[w].step = "loop" /\ applier'[w].pos = applier[w].pos
        BY <2>1, <2>4, <3>2 DEF Alive
      <4>2. /\ Done(w) = applier[w].from /\ Done(w)' = applier[w].pos
            /\ applier[w].from < applier[w].pos
        BY <1>1, <2>1, <4>1 DEF Done, At, Positions, InBatch
      <4>3. committed <= applier[w].from /\ \A e \in 1..applier[w].from : Good(e)
        BY <1>3, <2>1, <2>4, <3>2, <4>2 DEF Alive
      <4>4. \A e \in 1..applier[w].pos : e \in Batch(w) \/ e \in 1..applier[w].from
        BY <1>2 DEF Batch
      <4>5. committed <= applier[w].pos
        BY <1>2, <4>2, <4>3
      <4> QED BY <2>2, <2>3, <3>2, <4>2, <4>3, <4>4, <4>5
    <3> QED BY <3>1, <3>2
  <2> QED BY <1>4, <1>3, <2>2, <2>3, <2>4
<1>9. ASSUME NEW w \in CdcWorkers, LeaveStep(w) PROVE AppliedInv'
  <2>1. /\ UNCHANGED <<applier, committed>> /\ \A e : Good(e)' <=> Good(e)
        /\ owner' = owner \/ owner' = NoWorker
    BY <1>9 DEF LeaveStep, LeavesGroup, Good, targetTable
  <2>2. owner' = owner => Done(owner)' = Done(owner)
    BY <2>1 DEF Done, At
  <2> QED BY <1>4, <1>3, <2>1, <2>2
<1>10. CASE Rebalances
  <2>1. UNCHANGED <<committed, members>> /\ \A e : Good(e)' <=> Good(e)
    BY <1>10 DEF Rebalances, targetTable, Good
  <2>2. ASSUME owner' # NoWorker PROVE Done(owner)' = committed
    <3>1. owner' \in members /\ owner' \in CdcWorkers
      BY <1>1, <1>10, <2>2 DEF Rebalances, KafkaTyped
    <3>2. ~ InBatch(owner')
      BY <1>1, <1>10, <3>1 DEF Rebalances, BatchOfOwner, KafkaTyped
    <3>3. applier'[owner'] = [applier[owner'] EXCEPT !.assigned = TRUE, !.pos = committed]
      BY <1>10, <3>1 DEF Rebalances, StartOffset
    <3>4. applier'[owner'].pos = committed /\ applier'[owner'].step = applier[owner'].step
      BY <1>1, <3>1, <3>3 DEF ThreadsTyped, ThreadType
    <3> QED BY <3>2, <3>4 DEF Done, At, InBatch
  <2> QED BY <1>4, <1>2, <1>3, <2>1, <2>2
<1>11. CASE Produces \/ OtherStep
  <2>1. UNCHANGED <<applier, committed, owner>> /\ \A e : Good(e)' <=> Good(e)
    BY <1>11 DEF Produces, OtherStep, kafka, targetTable, Good
  <2>2. Done(owner)' = Done(owner)
    BY <2>1 DEF Done, At
  <2> QED BY <1>4, <1>3, <2>1, <2>2
<1> QED BY <1>1, <1>5, <1>6, <1>7, <1>8, <1>9, <1>10, <1>11, Kinds

----------------------------------------------------------------------------
(* What is told of the end of the topic.                                   *)

LEMMA ToldInit == CdcInit => ToldInv
<1> SUFFICES ASSUME CdcInit PROVE ToldInv
  OBVIOUS
<1>1. \A w \in CdcWorkers : applier[w] = NewThread
  BY DEF CdcInit
<1>2. NewThread.pos = 0 /\ NewThread.end = 0
  BY DEF NewThread
<1>3. committed = 0 /\ caughtUpTo = 0 /\ ~ lagRow.measured /\ cdcTick.step = "idle"
  BY DEF CdcInit, NoTick
<1> QED BY <1>1, <1>2, <1>3 DEF ToldInv, PositionIsCommitted, Tales, Told

(* The committed offset never goes back, and a failure is never forgotten. *)
LEMMA CommittedGrows ==
  ASSUME GroupInv, AppliedInv, [CdcNext]_cdcVars
  PROVE  /\ committed \in Nat /\ committed' \in Nat /\ committed' >= committed
         /\ firstFailed => firstFailed'
<1>1. CdcTInv /\ KafkaTyped /\ Positions /\ CdcTypeOK
  BY TypeParts DEF GroupInv, CdcTInv
<1>2. committed \in Nat /\ \A w \in CdcWorkers : applier[w].pos \in Nat
  BY <1>1, BatchTyped DEF KafkaTyped, Offsets
<1>3. ASSUME NEW w \in CdcWorkers, Commits(w)
      PROVE  committed' \in Nat /\ committed' >= committed
  <2>1. owner # NoWorker /\ applier[owner].step \in Alive /\ Done(owner) = applier[w].pos
    BY <1>3 DEF Commits, At, Done, Alive
  <2>2. committed <= applier[w].pos
    BY <2>1 DEF AppliedInv, OwnerIsGood
  <2> QED BY <1>2, <1>3, <2>2 DEF Commits
<1>4. committed' = committed \/ \E w \in CdcWorkers : Commits(w)
  BY <1>1, Kinds DEF ApplierStep, PollReturns, Applies, ApplyFails, LeaveStep, Rebalances, Produces, OtherStep,
     kafka, Joins, LeavesGroup
<1>5. firstFailed => firstFailed'
  BY <1>1, Kinds DEF ApplierStep, PollReturns, Applies, ApplyFails, LeaveStep, Rebalances, Produces, OtherStep, history
<1> QED BY <1>2, <1>3, <1>4, <1>5

LEMMA PositionStep ==
  ASSUME GroupInv, AppliedInv, PositionIsCommitted, [CdcNext]_cdcVars
  PROVE  PositionIsCommitted'
<1>1. /\ CdcTInv /\ KafkaTyped /\ Positions /\ CdcTypeOK /\ ThreadsTyped
      /\ \A v \in CdcWorkers : applier[v].pos \in Nat /\ applier[v].from \in Nat
      /\ committed \in Nat /\ committed' \in Nat /\ committed' >= committed
      /\ firstFailed => firstFailed'
  BY TypeParts, BatchTyped, CommittedGrows DEF GroupInv, CdcTInv, Offsets
<1> SUFFICES ASSUME NEW v \in CdcWorkers, committed' = 0, applier'[v].pos > 0, ~ InBatch(v)', ~ firstFailed'
             PROVE  FALSE
  BY DEF PositionIsCommitted
<1>2. committed = 0 /\ ~ firstFailed
  BY <1>1
<1>3. applier[v].pos > 0 => InBatch(v)
  BY <1>2 DEF PositionIsCommitted
<1>4. ~ (applier'[v] = applier[v])
  BY <1>3 DEF InBatch
<1>5. ASSUME NEW w \in CdcWorkers, ApplierStep(w) PROVE FALSE
  <2>1. v = w /\ InBatch(w) /\ Commits(w)
    BY <1>3, <1>4, <1>5 DEF ApplierStep, Retreats
  <2> QED BY <1>1, <2>1 DEF Commits, Positions
<1>6. ASSUME NEW w \in CdcWorkers, PollReturns(w) PROVE FALSE
  <2>1. PICK last \in (applier[w].pos + 1)..produced :
          applier' = [applier EXCEPT ![w] = [@ EXCEPT !.step = "applying", !.from = applier[w].pos, !.pos = last]]
    BY <1>6 DEF PollReturns
  <2>2. applier'[w].step = "applying" /\ \A u \in CdcWorkers : u # w => applier'[u] = applier[u]
    BY <1>1, <2>1 DEF ThreadsTyped, ThreadType
  <2> QED BY <1>4, <2>2 DEF InBatch
<1>7. ASSUME NEW w \in CdcWorkers, Applies(w) PROVE FALSE
  <2>1. applier'[w].step = "applied" /\ \A u \in CdcWorkers : u # w => applier'[u] = applier[u]
    BY <1>1, <1>7, ThreadGoes DEF Applies, Steps
  <2> QED BY <1>4, <2>1 DEF InBatch
<1>8. ASSUME NEW w \in CdcWorkers, ApplyFails(w) PROVE FALSE
  BY <1>2, <1>8 DEF ApplyFails
<1>9. CASE Rebalances
  <2>1. /\ [applier[v] EXCEPT !.assigned = TRUE, !.pos = committed].pos = committed
        /\ [applier[v] EXCEPT !.assigned = FALSE, !.pos = 0].pos = 0
    BY <1>1 DEF ThreadsTyped, ThreadType
  <2>2. \/ applier'[v] = [applier[v] EXCEPT !.assigned = TRUE, !.pos = committed]
        \/ applier'[v] = [applier[v] EXCEPT !.assigned = FALSE, !.pos = 0]
        \/ applier'[v] = applier[v]
    BY <1>9 DEF Rebalances, StartOffset
  <2>3. applier'[v].pos = 0
    BY <1>2, <1>4, <2>1, <2>2
  <2> QED BY <2>3
<1>10. CASE (\E w \in CdcWorkers : LeaveStep(w)) \/ Produces \/ OtherStep
  BY <1>4, <1>10 DEF LeaveStep, Produces, OtherStep
<1> QED BY <1>1, <1>5, <1>6, <1>7, <1>8, <1>9, <1>10, Kinds

(* Where a tale comes from.                                                *)
LEMMA TaleSources ==
  ASSUME CdcTInv, [CdcNext]_cdcVars
  PROVE  /\ lagRow' = lagRow \/ \E w \in CdcWorkers : lagRow'.end = applier[w].end
         /\ \/ cdcTick' = cdcTick \/ cdcTick'.step # "write" \/ cdcTick'.end = 0
            \/ cdcTick'.end = lagRow.end /\ lagRow.measured /\ lagRow.zero
         /\ \/ caughtUpTo' = caughtUpTo
            \/ \E w \in CdcWorkers : caughtUpTo' = applier[w].end
            \/ cdcTick.step = "write" /\ caughtUpTo' = cdcTick.end
<1>1. TickTyped
  BY TypeParts
(* Who makes or passes on a tale.                                          *)
<1>2. ASSUME NEW w \in CdcWorkers, ThreadGoesOn(w)
      PROVE  /\ lagRow' = lagRow \/ ChecksIn(w)
             /\ caughtUpTo' = caughtUpTo \/ TriggersLagZero(w)
             /\ cdcTick' = cdcTick
  BY <1>2 DEF ThreadGoesOn, stateDb, history, ClaimCdc, LooksUp, PollJoins, PollReturnsNone, PollReturns,
     Applies, CommitsPosition, Measures, ChecksIn, TriggersLagZero, MarksFailed, Closes
<1>3. ASSUME NEW w \in CdcWorkers,
             \/ ApplyFails(w) \/ Breaks(w) \/ Ignores(w) \/ PollFails(w)
             \/ ShutsDown(w) \/ Dies(w) \/ IsSlow(w) \/ SessionExpires(w)
      PROVE  UNCHANGED <<lagRow, caughtUpTo, cdcTick>>
  BY <1>3 DEF stateDb, history, ApplyFails, Breaks, Ignores, PollFails, ShutsDown, Dies, IsSlow, SessionExpires
<1>4. ASSUME HeartbeatAges \/ Rebalances \/ Produces \/ CdcFailed \/ Pauses \/ Resumes \/ Cancels
      PROVE  UNCHANGED <<lagRow, caughtUpTo>> /\ (cdcTick' = cdcTick \/ cdcTick' = NoTick)
  BY <1>4 DEF stateDb, history, HeartbeatAges, Rebalances, Produces, CdcFailed, Pauses, Resumes, Cancels
<1>5. ASSUME CdcTickReads \/ CdcTickDecides PROVE UNCHANGED <<lagRow, caughtUpTo>>
  BY <1>5 DEF stateDb, history, CdcTickReads, CdcTickDecides
<1>6. ASSUME CdcTickWrites
      PROVE  /\ UNCHANGED lagRow /\ cdcTick' = NoTick /\ cdcTick.step = "write"
             /\ caughtUpTo' = caughtUpTo \/ caughtUpTo' = cdcTick.end
  BY <1>6 DEF CdcTickWrites
<1>7. UNCHANGED cdcVars => UNCHANGED <<lagRow, caughtUpTo, cdcTick>>
  BY DEF cdcVars
<1>8. ASSUME NEW w \in CdcWorkers, ChecksIn(w) PROVE lagRow'.end = applier[w].end
  <2>1. lagRow' = [measured |-> TRUE, zero |-> applier[w].zero, end |-> applier[w].end]
    BY <1>8 DEF ChecksIn
  <2> QED BY <2>1
<1>9. ASSUME NEW w \in CdcWorkers, TriggersLagZero(w)
      PROVE  caughtUpTo' = caughtUpTo \/ caughtUpTo' = applier[w].end
  BY <1>9 DEF TriggersLagZero
<1>10. lagRow' = lagRow \/ \E w \in CdcWorkers : lagRow'.end = applier[w].end
  BY <1>2, <1>3, <1>4, <1>5, <1>6, <1>7, <1>8 DEF CdcNext, CdcTicks
<1>11. \/ caughtUpTo' = caughtUpTo
       \/ \E w \in CdcWorkers : caughtUpTo' = applier[w].end
       \/ cdcTick.step = "write" /\ caughtUpTo' = cdcTick.end
  BY <1>2, <1>3, <1>4, <1>5, <1>6, <1>7, <1>9 DEF CdcNext, CdcTicks
<1>12. cdcTick' = cdcTick \/ CdcTickReads \/ CdcTickDecides \/ cdcTick' = NoTick
  BY <1>2, <1>3, <1>4, <1>6, <1>7 DEF CdcNext, CdcTicks
<1>13. CdcTickReads => cdcTick'.step # "write"
  BY DEF CdcTickReads
<1>14. NoTick.step # "write"
  BY DEF NoTick
<1>15. ASSUME CdcTickDecides
       PROVE  \/ cdcTick' = NoTick \/ cdcTick'.end = 0
              \/ cdcTick'.end = lagRow.end /\ lagRow.measured /\ lagRow.zero
  <2>1. CASE ~ CdcReady
    BY <1>15, <2>1 DEF CdcTickDecides
  <2>2. CASE CdcReady
    <3>1. cdcTick'.end = Declared
      BY <1>1, <1>15, <2>2 DEF CdcTickDecides, TickTyped
    <3>2. Declared = 0 \/ (Declared = lagRow.end /\ cdcTick.saw = "CDC_CATCHING_UP")
      BY DEF Declared
    <3>3. cdcTick.saw = "CDC_CATCHING_UP" => lagRow.measured /\ lagRow.zero
      BY <2>2 DEF CdcReady
    <3> QED BY <3>1, <3>2, <3>3
  <2> QED BY <2>1, <2>2
<1> QED BY <1>10, <1>11, <1>12, <1>13, <1>15, <1>14

LEMMA TalesStep ==
  ASSUME GroupInv, AppliedInv, ToldInv, [CdcNext]_cdcVars
  PROVE  Tales'
<1>1. /\ CdcTInv /\ KafkaTyped /\ CdcTypeOK /\ ThreadsTyped /\ Tales /\ PositionIsCommitted
      /\ committed \in Nat /\ committed' \in Nat /\ committed' >= committed
      /\ firstFailed => firstFailed'
  BY TypeParts, CommittedGrows DEF GroupInv, CdcTInv, ToldInv
<1> DEFINE ToldNext(end) == end <= committed' \/ firstFailed'
<1>2. \A end \in Nat : Told(end) => ToldNext(end)
  BY <1>1 DEF Told
<1>3. /\ produced \in Nat /\ lagRow.end \in Nat /\ cdcTick.end \in Nat /\ caughtUpTo \in Nat
      /\ \A v \in CdcWorkers : applier[v].end \in Nat /\ applier[v].pos \in Nat
  <2>1. /\ produced \in Offsets /\ lagRow.end \in Offsets /\ cdcTick.end \in Offsets
        /\ caughtUpTo \in Offsets
    BY <1>1 DEF CdcTypeOK
  <2>2. \A v \in CdcWorkers : applier[v].end \in Offsets /\ applier[v].pos \in Offsets
    BY <1>1 DEF ThreadsTyped, ThreadType
  <2> QED BY <2>1, <2>2 DEF Offsets
<1>4. ToldNext(0)
  BY <1>1
<1>5. /\ \A w \in CdcWorkers : ToldNext(applier[w].end)
      /\ lagRow.measured /\ lagRow.zero => ToldNext(lagRow.end)
      /\ cdcTick.step = "write" => ToldNext(cdcTick.end)
      /\ ToldNext(caughtUpTo)
  BY <1>1, <1>2, <1>3 DEF Tales
(* The threads: only a measurement makes a new tale.                       *)
<1>6. ASSUME NEW w \in CdcWorkers, NoLag(w), ~ InBatch(w) PROVE ToldNext(produced)
  <2>1. CASE committed > 0
    BY <1>1, <1>2, <1>3, <1>6, <2>1 DEF NoLag, Told
  <2>2. CASE ~ (committed > 0)
    <3>1. committed = 0 /\ produced = applier[w].pos
      BY <1>1, <1>6, <2>2 DEF NoLag
    <3>2. produced = 0 \/ firstFailed
      BY <1>1, <1>3, <1>6, <3>1 DEF PositionIsCommitted
    <3> QED BY <1>1, <1>4, <3>2
  <2> QED BY <2>1, <2>2
<1> HIDE DEF ToldNext
<1>7. \A v \in CdcWorkers : ToldNext(applier'[v].end)
  <2>1. ASSUME NEW w \in CdcWorkers, ApplierStep(w), NEW v \in CdcWorkers PROVE ToldNext(applier'[v].end)
    BY <1>4, <1>5, <1>6, <2>1 DEF ApplierStep, Retreats
  <2>2. ASSUME NEW w \in CdcWorkers, PollReturns(w), NEW v \in CdcWorkers PROVE ToldNext(applier'[v].end)
    <3>1. PICK last \in (applier[w].pos + 1)..produced :
            applier' = [applier EXCEPT ![w] = [@ EXCEPT !.step = "applying", !.from = applier[w].pos, !.pos = last]]
      BY <2>2 DEF PollReturns
    <3>2. applier'[v].end = applier[v].end
      BY <1>1, <3>1 DEF ThreadsTyped, ThreadType
    <3> QED BY <1>5, <3>2
  <2>3. ASSUME NEW w \in CdcWorkers, Applies(w), NEW v \in CdcWorkers PROVE ToldNext(applier'[v].end)
    <3>1. applier'[w].end = applier[w].end /\ \A u \in CdcWorkers : u # w => applier'[u] = applier[u]
      BY <1>1, <2>3, ThreadGoes DEF Applies, Steps
    <3> QED BY <1>5, <3>1
  <2>4. ASSUME NEW w \in CdcWorkers, ApplyFails(w), NEW v \in CdcWorkers PROVE ToldNext(applier'[v].end)
    <3>1. applier'[w].end = 0 /\ \A u \in CdcWorkers : u # w => applier'[u] = applier[u]
      BY <1>1, <2>4, ThreadComes, ThreadQuits DEF ApplyFails, Steps
    <3> QED BY <1>4, <1>5, <3>1
  <2>5. ASSUME Rebalances, NEW v \in CdcWorkers PROVE ToldNext(applier'[v].end)
    <3>1. /\ [applier[v] EXCEPT !.assigned = TRUE, !.pos = committed].end = applier[v].end
          /\ [applier[v] EXCEPT !.assigned = FALSE, !.pos = 0].end = applier[v].end
      BY <1>1 DEF ThreadsTyped, ThreadType
    <3>2. \/ applier'[v] = [applier[v] EXCEPT !.assigned = TRUE, !.pos = committed]
          \/ applier'[v] = [applier[v] EXCEPT !.assigned = FALSE, !.pos = 0]
          \/ applier'[v] = applier[v]
      BY <2>5 DEF Rebalances, StartOffset
    <3>3. applier'[v].end = applier[v].end
      BY <3>1, <3>2
    <3> QED BY <1>5, <3>3
  <2>6. ASSUME (\E w \in CdcWorkers : LeaveStep(w)) \/ Produces \/ OtherStep, NEW v \in CdcWorkers
        PROVE  ToldNext(applier'[v].end)
    <3>1. applier' = applier
      BY <2>6 DEF LeaveStep, Produces, OtherStep
    <3> QED BY <1>5, <3>1
  <2> QED BY <1>1, <2>1, <2>2, <2>3, <2>4, <2>5, <2>6, Kinds
(* The others pass on what they were told.                                 *)
<1>8. lagRow'.measured /\ lagRow'.zero => ToldNext(lagRow'.end)
  BY <1>1, <1>5, TaleSources
<1>9. cdcTick'.step = "write" => ToldNext(cdcTick'.end)
  BY <1>1, <1>4, <1>5, TaleSources
<1>10. ToldNext(caughtUpTo')
  BY <1>1, <1>5, TaleSources
<1> QED BY <1>7, <1>8, <1>9, <1>10 DEF Tales, Told, ToldNext

----------------------------------------------------------------------------
(* The theorems.                                                           *)

LEMMA CdcInvStep == CdcIInv /\ [CdcNext]_cdcVars => CdcIInv'
<1> SUFFICES ASSUME CdcIInv, [CdcNext]_cdcVars PROVE CdcIInv'
  OBVIOUS
<1>1. CdcTInv'
  BY CdcTypeStep DEF CdcIInv, GroupInv
<1>2. Positions' /\ BatchOfOwner'
  BY GroupStep DEF CdcIInv
<1>3. AppliedInv'
  BY AppliedStep DEF CdcIInv
<1>4. PositionIsCommitted' /\ Tales'
  BY PositionStep, TalesStep DEF CdcIInv, ToldInv
<1> QED BY <1>1, <1>2, <1>3, <1>4 DEF CdcIInv, GroupInv, ToldInv

LEMMA CdcInvHolds == CdcSpec => []CdcIInv
<1>1. CdcInit => CdcIInv
  BY CdcTypeInit, GroupInit, AppliedInit, ToldInit DEF CdcIInv, GroupInv
<1> QED BY <1>1, CdcInvStep, PTL DEF CdcSpec

(* The variables of CdcApply keep their types.                             *)
THEOREM CdcTypeCorrect == CdcSpec => []CdcTypeOK
<1>1. CdcIInv => CdcTypeOK
  BY DEF CdcIInv, GroupInv, CdcTInv
<1> QED BY <1>1, CdcInvHolds, PTL

(* However the workers die, overlap, are put out of the group and come     *)
(* back, what the group has committed is in the target, unless its batch   *)
(* failed or a worker that the group had given up put its row back.        *)
THEOREM CommittedIsAppliedHolds == CdcSpec => []CommittedIsApplied
<1>1. CdcIInv => CommittedIsApplied
  BY DEF CdcIInv, AppliedInv
<1> QED BY <1>1, CdcInvHolds, PTL

(* A migration is declared caught up only when all that was in the topic   *)
(* at some measurement is committed, unless a first batch failed.          *)
THEOREM CaughtUpIsCommittedHolds == CdcSpec => []CaughtUpIsCommitted
<1>1. CdcIInv => CaughtUpIsCommitted
  BY DEF CdcIInv, ToldInv, Tales, Told, CaughtUpIsCommitted
<1> QED BY <1>1, CdcInvHolds, PTL

(* The two parts together: what one of them does leaves the other as it is. *)
THEOREM BaselineAndCdcTypeCorrect == MCSpec => []BaselineAndCdcTypeOK
<1>1. BaselineOver => TInv
  <2> SUFFICES ASSUME BaselineOver PROVE TInv
    OBVIOUS
  <2> USE MaxRetriesAssumption, BaselineAssumption
  <2>1. Idle \in [pc : PCs, job : 0 .. NumChunks, row : BOOLEAN] /\ Idle.pc = "idle" /\ ~ Idle.row
    BY DEF Idle, PCs, NoChunk
  <2>2. wk \in WkType /\ JobOK
    BY <2>1 DEF BaselineOver, WkType, JobOK
  <2>3. copies \in CopiesType
    BY DEF BaselineOver, CopiesType
  <2>4. phase \in Phases
    BY DEF BaselineOver, Phases, Published
  <2>5. thread \in Threads
    BY DEF BaselineOver, Threads
  <2>6. tick \in Ticks
    BY DEF BaselineOver, Ticks
  <2>7. /\ restartable \in BOOLEAN /\ staged \in BOOLEAN /\ chunk = NoRows
        /\ request \in {"none", "cancel", "transition"}
    BY DEF BaselineOver
  <2>8. faults \in 0 .. MaxFaults /\ restarts \in 0 .. MaxRestarts
    BY DEF BaselineOver
  <2> QED BY <2>2, <2>3, <2>4, <2>7, <2>8, <2>5, <2>6 DEF TInv, TypeOK, WkType, CopiesType
<1>2. MCInit => TInv /\ CdcTInv
  BY <1>1, InitTInv, CdcTypeInit DEF MCInit
<1>3. [BaselineStep \/ ChangesStep]_allVars => [Next]_vars /\ [CdcNext]_cdcVars
  BY DEF BaselineStep, ChangesStep, OfBaseline, OfChanges, allVars
<1>4. TInv /\ CdcTInv /\ [BaselineStep \/ ChangesStep]_allVars => TInv' /\ CdcTInv'
  BY <1>3, NextTInv, CdcTypeStep
<1>5. TInv /\ CdcTInv => BaselineAndCdcTypeOK
  BY DEF TInv, CdcTInv, BaselineAndCdcTypeOK
<1> QED BY <1>2, <1>4, <1>5, PTL DEF MCSpec
=============================================================================
