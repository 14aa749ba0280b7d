--------------------------- MODULE BulkLoadProofs ---------------------------
(***************************************************************************)
(* Theorems about BulkLoad, for any number of workers, chunks, batches and *)
(* retries.                                                                *)
(***************************************************************************)
EXTENDS BulkLoad, FiniteSetTheorems, TLAPS

USE MaxRetriesAssumption, BulkLoadAssumption

(* Every statement on a row of migration_chunks yields a row.               *)
LEMMA RowTypes ==
  ASSUME NEW r \in Row
  PROVE  /\ NewRow \in Row
         /\ ClaimRow(r) \in Row
         /\ ProgressRow(r) \in Row
         /\ CompleteRow(r) \in Row
         /\ CancelRow(r) \in Row
         /\ FailPermanentRow(r) \in Row
         /\ FailRow(r) \in Row
         /\ ResetStaleRow(r) \in Row
         /\ RetryRow(r) \in Row
         /\ [r EXCEPT !.claimed_at = "stale"] \in Row
<1> USE DEF Row, Statuses, Ages
<1>1. NewRow \in Row
  BY DEF NewRow
<1>2. ClaimRow(r) \in Row /\ ProgressRow(r) \in Row /\ CompleteRow(r) \in Row
  BY DEF ClaimRow, ProgressRow, CompleteRow
<1>3. CancelRow(r) \in Row /\ FailPermanentRow(r) \in Row
  BY DEF CancelRow, FailPermanentRow
<1>4. FailRow(r) \in Row
  BY DEF FailRow, FailPermanentRow
<1>5. ResetStaleRow(r) \in Row
  BY DEF ResetStaleRow
<1>6. RetryRow(r) \in Row
  BY <1>1 DEF RetryRow
<1>7. [r EXCEPT !.claimed_at = "stale"] \in Row
  OBVIOUS
<1> QED
  BY ONLY <1>1, <1>2, <1>3, <1>4, <1>5, <1>6, <1>7

----------------------------------------------------------------------------
(* The inductive invariant. *)

(* What a worker's program counter says about its chunk: the job is a chunk *)
(* whenever there is one, and a flush is of one of its batches.             *)
JobOK ==
  \A w \in Workers :
    /\ wk[w].pc # "idle" => wk[w].job \in Chunks
    /\ wk[w].pc \in {"flush", "progress"} => wk[w].pos < Batches

(* A worker's batches are in the destination as far as it believes.         *)
LoadedSoFar ==
  \A w \in Workers :
    /\ wk[w].pc # "idle" =>
         \A b \in 1 .. wk[w].pos : copies[wk[w].job][b] > 0
    /\ wk[w].pc = "progress" => copies[wk[w].job][wk[w].pos + 1] > 0
    /\ wk[w].pc = "complete" => wk[w].pos = Batches

(* What the coordinator read before it decided is still true of the table.  *)
DecisionHolds == tick = "BULK_LOADED" => \A c \in Chunks : Present(c)

IInv == TypeOK /\ JobOK /\ LoadedSoFar /\ DecisionHolds /\ LoadedIsPresent

(* Within the ten minutes a worker owns its row: the row is a fresh claim   *)
(* while the worker loads it, still PENDING while the claim commits, and    *)
(* the job of nobody else.                                                  *)
Owned ==
  ~Late =>
    /\ \A w \in Workers : wk[w].pc \notin {"idle", "claiming"} =>
         Active(chunk[wk[w].job]) /\ chunk[wk[w].job].claimed_at = "fresh"
    /\ \A w \in Workers : wk[w].pc = "claiming" =>
         chunk[wk[w].job].status = "PENDING"
    /\ \A v, w \in Workers :
         v # w /\ wk[v].pc # "idle" /\ wk[w].pc # "idle" => wk[v].job # wk[w].job

EInv == TypeOK /\ JobOK /\ Owned

----------------------------------------------------------------------------
(* Type correctness. *)

LEMMA InitTypeOK == Init => TypeOK
<1> SUFFICES ASSUME Init PROVE TypeOK
  OBVIOUS
<1> USE DEF Init
<1>1. phase \in Phases /\ tick \in Ticks
  BY DEF Phases, Ticks
<1>2. paused \in BOOLEAN
  OBVIOUS
<1>3. chunk \in [Chunks -> Row]
  BY DEF NewRow, Row, Statuses, Ages
<1>4. wk \in [Workers -> [pc : PCs, job : 0 .. NumChunks, pos : 0 .. Batches]]
  BY DEF Idle, PCs, NoChunk
<1>5. copies \in [Chunks -> [1 .. Batches -> 0 .. 2]]
  OBVIOUS
<1>6. /\ chunksDone \in 0 .. NumChunks + 1
      /\ deaths \in 0 .. MaxDeaths /\ asked \in 0 .. MaxAsked
  OBVIOUS
<1> QED
  BY <1>1, <1>2, <1>3, <1>4, <1>5, <1>6 DEF TypeOK

WkType == [Workers -> [pc : PCs, job : 0 .. NumChunks, pos : 0 .. Batches]]
CopiesType == [Chunks -> [1 .. Batches -> 0 .. 2]]

LEMMA WorkerTypeOK ==
  ASSUME TypeOK, JobOK, NEW w \in Workers, WorkerStep(w) \/ WorkerFault(w)
  PROVE  TypeOK'
<1> DEFINE c == wk[w].job
<1>a. wk \in WkType /\ chunk \in [Chunks -> Row] /\ copies \in CopiesType
  BY DEF TypeOK, WkType, CopiesType
<1>b. wk[w].pc # "idle" => c \in Chunks /\ chunk[c] \in Row
  BY <1>a DEF JobOK
<1>c. wk[w].pc \in {"flush", "progress"} => wk[w].pos + 1 \in 1 .. Batches
  BY <1>a DEF JobOK, WkType
<1>d. Idle \in [pc : PCs, job : 0 .. NumChunks, pos : 0 .. Batches]
  BY DEF Idle, PCs, NoChunk
<1>e. \A pc \in PCs : Goto(w, pc) => wk' \in WkType
  BY <1>a DEF Goto, WkType
<1>f. Leave(w) => wk' \in WkType
  BY <1>a, <1>d DEF Leave, WkType
<1>g. \A d \in Chunks, r \in Row : UpdateRow(d, r) => chunk' \in [Chunks -> Row]
  BY <1>a DEF UpdateRow
<1>1. CASE ClaimBegin(w)
  <2>1. wk' \in WkType
    <3>1. PICK d \in Chunks :
            wk' = [wk EXCEPT ![w] = [pc |-> "claiming", job |-> d, pos |-> 0]]
      BY <1>1 DEF ClaimBegin
    <3>2. [pc |-> "claiming", job |-> d, pos |-> 0]
            \in [pc : PCs, job : 0 .. NumChunks, pos : 0 .. Batches]
      BY DEF PCs, Chunks
    <3> QED
      BY <3>1, <3>2, <1>a DEF WkType
  <2> QED
    BY <1>1, <2>1 DEF ClaimBegin, TypeOK, WkType
<1>2. CASE ClaimCommit(w)
  <2>1. wk' \in WkType
    BY <1>2, <1>e DEF ClaimCommit, PCs
  <2>2. chunk' \in [Chunks -> Row]
    BY <1>2, <1>b, <1>g, RowTypes DEF ClaimCommit
  <2> QED
    BY <1>2, <2>1, <2>2 DEF ClaimCommit, TypeOK, WkType
<1>3. CASE Check(w) \/ ReadFails(w) \/ FlushFails(w)
  <2>1. wk' \in WkType
    BY <1>3, <1>e DEF Check, ReadFails, FlushFails, PCs
  <2> QED
    BY <1>3, <2>1 DEF Check, ReadFails, FlushFails, TypeOK, WkType
<1>4. CASE Flush(w) \/ FlushAnswerLost(w)
  <2>1. wk' \in WkType
    BY <1>4, <1>e DEF Flush, FlushAnswerLost, PCs
  <2>2. copies' \in CopiesType
    <3>1. InsertBatch(w) /\ c \in Chunks /\ wk[w].pos + 1 \in 1 .. Batches
      BY <1>4, <1>b, <1>c DEF Flush, FlushAnswerLost
    <3> QED
      BY <3>1, <1>a DEF InsertBatch, CopiesType
  <2> QED
    BY <1>4, <2>1, <2>2 DEF Flush, FlushAnswerLost, TypeOK, WkType, CopiesType
<1>5. CASE Progress(w)
  <2>1. wk' \in WkType
    BY <1>5, <1>a, <1>c DEF Progress, PCs, WkType
  <2>2. chunk' \in [Chunks -> Row]
    BY <1>5, <1>b, <1>g, RowTypes DEF Progress
  <2> QED
    BY <1>5, <2>1, <2>2 DEF Progress, TypeOK, WkType
<1>6. CASE Complete(w)
  <2>1. wk' \in WkType
    BY <1>6, <1>f DEF Complete
  <2>2. chunk' \in [Chunks -> Row]
    BY <1>6, <1>b, <1>g, RowTypes DEF Complete
  <2>3. chunksDone' \in 0 .. NumChunks + 1
    BY <1>6 DEF Complete, TypeOK
  <2> QED
    BY <1>6, <2>1, <2>2, <2>3 DEF Complete, TypeOK, WkType
<1>7. CASE CancelChunk(w) \/ FailChunk(w)
  <2>1. wk' \in WkType
    BY <1>7, <1>f DEF CancelChunk, FailChunk
  <2>2. chunk' \in [Chunks -> Row]
    BY <1>7, <1>b, <1>g, RowTypes DEF CancelChunk, FailChunk
  <2> QED
    BY <1>7, <2>1, <2>2 DEF CancelChunk, FailChunk, TypeOK, WkType
<1>8. CASE Abandon(w)
  <2>1. wk' \in WkType
    BY <1>8, <1>f DEF Abandon
  <2>2. deaths' \in 0 .. MaxDeaths
    BY <1>8 DEF Abandon, TypeOK
  <2> QED
    BY <1>8, <2>1, <2>2 DEF Abandon, TypeOK, WkType
<1> QED
  BY <1>1, <1>2, <1>3, <1>4, <1>5, <1>6, <1>7, <1>8 DEF WorkerStep, WorkerFault

LEMMA NextTypeOK ==
  ASSUME TypeOK, JobOK, [Next]_vars
  PROVE  TypeOK'
<1> USE DEF TypeOK
<1>1. ASSUME NEW w \in Workers, WorkerStep(w) \/ WorkerFault(w)
      PROVE  TypeOK'
  BY <1>1, WorkerTypeOK
<1>2. ASSUME NEW c \in Chunks, Age(c)
      PROVE  TypeOK'
  BY <1>2, RowTypes DEF Age, UpdateRow
<1>3. CASE TickRead
  BY <1>3, RowTypes DEF TickRead, Ticks
<1>4. CASE TickCount \/ CoordinatorRestarts \/ TickRaises
  BY <1>4 DEF TickCount, CoordinatorRestarts, TickRaises, Ticks
<1>5. CASE TickTransition
  BY <1>5 DEF TickTransition, Ticks, Phases
<1>6. CASE CancelMigration \/ Pause \/ Resume
  BY <1>6 DEF CancelMigration, Pause, Resume, Phases
<1>7. CASE RetryFailedChunks
  <2>1. chunk' \in [Chunks -> Row]
    BY <1>7, RowTypes DEF RetryFailedChunks
  <2>2. asked' \in 0 .. MaxAsked
    BY <1>7 DEF RetryFailedChunks
  <2> QED
    BY <1>7, <2>1, <2>2 DEF RetryFailedChunks
<1>8. CASE UNCHANGED vars
  BY <1>8 DEF vars
<1> QED
  BY <1>1, <1>2, <1>3, <1>4, <1>5, <1>6, <1>7, <1>8
     DEF Next, TickStep, OperatorStep

----------------------------------------------------------------------------
(* What a step leaves alone. *)

(* A worker changes its own state only, and nothing of the coordinator's.   *)
LEMMA WorkerFrame ==
  ASSUME TypeOK, NEW w \in Workers, WorkerStep(w) \/ WorkerFault(w)
  PROVE  /\ \A v \in Workers : v # w => wk'[v] = wk[v]
         /\ tick' = tick
         /\ phase' = phase
<1>1. \A pc \in PCs : Goto(w, pc) => \A v \in Workers : v # w => wk'[v] = wk[v]
  BY DEF Goto, TypeOK
<1>2. Leave(w) => \A v \in Workers : v # w => wk'[v] = wk[v]
  BY DEF Leave, TypeOK
<1>3. CASE ClaimBegin(w)
  BY <1>3 DEF ClaimBegin, TypeOK
<1>4. CASE ClaimCommit(w)
  BY <1>4, <1>1 DEF ClaimCommit, PCs
<1>5. CASE Check(w) \/ ReadFails(w) \/ FlushFails(w)
  BY <1>5, <1>1 DEF Check, ReadFails, FlushFails, PCs
<1>6. CASE Flush(w) \/ FlushAnswerLost(w)
  BY <1>6, <1>1 DEF Flush, FlushAnswerLost, PCs
<1>7. CASE Progress(w)
  BY <1>7 DEF Progress, TypeOK
<1>8. CASE Complete(w) \/ CancelChunk(w) \/ FailChunk(w) \/ Abandon(w)
  BY <1>8, <1>2 DEF Complete, CancelChunk, FailChunk, Abandon
<1> QED
  BY <1>3, <1>4, <1>5, <1>6, <1>7, <1>8 DEF WorkerStep, WorkerFault

(* Where the worker itself is after Goto and Leave.                         *)
LEMMA OwnState ==
  ASSUME TypeOK, NEW w \in Workers
  PROVE  /\ \A pc \in PCs : Goto(w, pc) =>
              wk'[w].pc = pc /\ wk'[w].job = wk[w].job /\ wk'[w].pos = wk[w].pos
         /\ Leave(w) => wk'[w].pc = "idle" /\ wk'[w].pos = 0
BY DEF TypeOK, Goto, Leave, Idle

(* Everything but a worker's step leaves the workers and Oracle alone.      *)
LEMMA OtherFrame ==
  ASSUME [Next]_vars
  PROVE  \/ \E w \in Workers : WorkerStep(w) \/ WorkerFault(w)
         \/ UNCHANGED <<wk, copies, chunksDone>>
BY DEF Next, TickStep, OperatorStep, Age, TickRead, TickCount, TickTransition,
       CoordinatorRestarts, TickRaises, CancelMigration, Pause, Resume, RetryFailedChunks, vars

(* No step removes a batch from the destination.                            *)
LEMMA NothingRemoved ==
  ASSUME TypeOK, JobOK, [Next]_vars, NEW c \in Chunks, NEW b \in 1 .. Batches,
         copies[c][b] > 0
  PROVE  copies'[c][b] > 0
<1>1. CASE UNCHANGED copies
  BY <1>1
<1>2. ASSUME NEW w \in Workers, InsertBatch(w), wk[w].pc = "flush"
      PROVE  copies'[c][b] > 0
  <2>1. wk[w].job \in Chunks /\ wk[w].pos + 1 \in 1 .. Batches
    BY <1>2 DEF JobOK, TypeOK
  <2>2. copies \in [Chunks -> [1 .. Batches -> 0 .. 2]]
    BY DEF TypeOK
  <2>3. CASE wk[w].job = c
    <3>1. copies'[c] = [copies[c] EXCEPT ![wk[w].pos + 1] = IF @ = 0 THEN 1 ELSE 2]
      BY <1>2, <2>2, <2>3 DEF InsertBatch
    <3>2. copies[c] \in [1 .. Batches -> 0 .. 2]
      BY <2>2
    <3> QED
      BY <3>1, <3>2
  <2>4. CASE wk[w].job # c
    BY <1>2, <2>2, <2>4 DEF InsertBatch
  <2> QED
    BY <2>3, <2>4
<1>3. ASSUME NEW w \in Workers, WorkerStep(w) \/ WorkerFault(w)
      PROVE  UNCHANGED copies \/ (InsertBatch(w) /\ wk[w].pc = "flush")
  BY <1>3 DEF WorkerStep, WorkerFault, ClaimBegin, ClaimCommit, Check, Flush,
     Progress, Complete, CancelChunk, FailChunk, ReadFails, FlushAnswerLost,
     FlushFails, Abandon
<1> QED
  BY <1>1, <1>2, <1>3, OtherFrame

----------------------------------------------------------------------------
(* The parts of IInv are preserved. *)

LEMMA NextJobOK ==
  ASSUME TypeOK, JobOK, [Next]_vars
  PROVE  JobOK'
<1>1. CASE UNCHANGED <<wk, copies, chunksDone>>
  BY <1>1 DEF JobOK
<1>2. ASSUME NEW w \in Workers, WorkerStep(w) \/ WorkerFault(w)
      PROVE  JobOK'
  <2>1. /\ wk'[w].pc # "idle" => wk'[w].job \in Chunks
        /\ wk'[w].pc \in {"flush", "progress"} => wk'[w].pos < Batches
    <3>1. CASE ClaimBegin(w)
      <4>1. PICK d \in Chunks :
              wk' = [wk EXCEPT ![w] = [pc |-> "claiming", job |-> d, pos |-> 0]]
        BY <3>1 DEF ClaimBegin
      <4> QED
        BY <4>1 DEF TypeOK
    <3>2. CASE ClaimCommit(w)
      BY <3>2, OwnState DEF ClaimCommit, JobOK, PCs
    <3>3. CASE Check(w)
      BY <3>3, OwnState DEF Check, JobOK, PCs
    <3>4. CASE Flush(w) \/ FlushAnswerLost(w) \/ FlushFails(w) \/ ReadFails(w)
      BY <3>4, OwnState DEF Flush, FlushAnswerLost, FlushFails, ReadFails, JobOK, PCs
    <3>5. CASE Progress(w)
      BY <3>5 DEF Progress, JobOK, TypeOK
    <3>6. CASE Complete(w) \/ CancelChunk(w) \/ FailChunk(w) \/ Abandon(w)
      BY <3>6, OwnState DEF Complete, CancelChunk, FailChunk, Abandon
    <3> QED
      BY <1>2, <3>1, <3>2, <3>3, <3>4, <3>5, <3>6 DEF WorkerStep, WorkerFault
  <2> QED
    BY <1>2, <2>1, WorkerFrame DEF JobOK
<1> QED
  BY <1>1, <1>2, OtherFrame

LEMMA NextLoadedSoFar ==
  ASSUME TypeOK, JobOK, LoadedSoFar, [Next]_vars
  PROVE  LoadedSoFar'
<1> DEFINE
      So(v) == /\ wk[v].pc # "idle" =>
                    \A b \in 1 .. wk[v].pos : copies[wk[v].job][b] > 0
               /\ wk[v].pc = "progress" => copies[wk[v].job][wk[v].pos + 1] > 0
               /\ wk[v].pc = "complete" => wk[v].pos = Batches
<1>1. CASE UNCHANGED <<wk, copies, chunksDone>>
  BY <1>1 DEF LoadedSoFar
<1>2. ASSUME NEW w \in Workers, WorkerStep(w) \/ WorkerFault(w)
      PROVE  LoadedSoFar'
  <2>1. ASSUME NEW v \in Workers, v # w
        PROVE  So(v)'
    <3>1. wk'[v] = wk[v] /\ wk[v].pos \in 0 .. Batches
      BY <1>2, <2>1, WorkerFrame DEF TypeOK
    <3>2. /\ wk[v].pc # "idle" => wk[v].job \in Chunks
          /\ wk[v].pc = "progress" => wk[v].pos + 1 \in 1 .. Batches
      BY <3>1 DEF JobOK
    <3>3. \A b \in 1 .. Batches : wk[v].pc # "idle" /\ copies[wk[v].job][b] > 0 =>
            copies'[wk[v].job][b] > 0
      BY <3>2, NothingRemoved
    <3> QED
      BY <3>1, <3>2, <3>3 DEF LoadedSoFar
  <2>2. So(w)'
    <3>a. So(w) /\ wk[w].pos \in 0 .. Batches
      BY DEF LoadedSoFar, TypeOK
    <3>1. CASE ClaimBegin(w)
      <4>1. PICK d \in Chunks :
              wk' = [wk EXCEPT ![w] = [pc |-> "claiming", job |-> d, pos |-> 0]]
        BY <3>1 DEF ClaimBegin
      <4>2. wk'[w] = [pc |-> "claiming", job |-> d, pos |-> 0]
        BY <4>1 DEF TypeOK
      <4> QED
        BY <4>2
    <3>2. CASE ClaimCommit(w) \/ ReadFails(w) \/ FlushFails(w)
      BY <3>a, <3>2, OwnState DEF ClaimCommit, ReadFails, FlushFails, PCs
    <3>3. CASE Check(w)
      BY <3>a, <3>3, OwnState DEF Check, PCs
    <3>4. CASE Flush(w) \/ FlushAnswerLost(w)
      <4>1. InsertBatch(w) /\ wk[w].job \in Chunks /\ wk[w].pos + 1 \in 1 .. Batches
        BY <3>4, <3>a DEF Flush, FlushAnswerLost, JobOK
      <4>2. copies \in [Chunks -> [1 .. Batches -> 0 .. 2]]
        BY DEF TypeOK
      <4>3. copies'[wk[w].job][wk[w].pos + 1] > 0
        BY <4>1, <4>2 DEF InsertBatch
      <4>4. \A b \in 1 .. wk[w].pos : copies'[wk[w].job][b] > 0
        BY <3>4, <3>a, <4>1, NothingRemoved DEF Flush, FlushAnswerLost
      <4>5. /\ wk'[w].pc \in {"flush", "progress", "fail"}
            /\ wk'[w].job = wk[w].job /\ wk'[w].pos = wk[w].pos
        BY <3>4, OwnState DEF Flush, FlushAnswerLost, PCs
      <4> QED
        BY <4>3, <4>4, <4>5
    <3>5. CASE Progress(w)
      <4>1. /\ wk'[w].pc = "check" /\ wk'[w].job = wk[w].job
            /\ wk'[w].pos = wk[w].pos + 1 /\ copies' = copies
        BY <3>5 DEF Progress, TypeOK
      <4>2. \A b \in 1 .. wk[w].pos + 1 : copies[wk[w].job][b] > 0
        BY <3>5, <3>a DEF Progress
      <4> QED
        BY <4>1, <4>2
    <3>6. CASE Complete(w) \/ CancelChunk(w) \/ FailChunk(w) \/ Abandon(w)
      BY <3>6, OwnState DEF Complete, CancelChunk, FailChunk, Abandon
    <3> QED
      BY <1>2, <3>1, <3>2, <3>3, <3>4, <3>5, <3>6 DEF WorkerStep, WorkerFault
  <2> QED
    BY <2>1, <2>2 DEF LoadedSoFar
<1> QED
  BY <1>1, <1>2, OtherFrame

(* Only complete_chunk makes a row DONE.                                    *)
LEMMA NotMadeDone ==
  ASSUME NEW r \in Row
  PROVE  /\ ClaimRow(r).status # "DONE" /\ ProgressRow(r).status # "DONE"
         /\ CancelRow(r).status = "DONE" => r.status = "DONE"
         /\ FailPermanentRow(r).status # "DONE" /\ FailRow(r).status # "DONE"
         /\ ResetStaleRow(r).status = "DONE" => r.status = "DONE"
         /\ RetryRow(r).status = "DONE" => r.status = "DONE"
BY DEF Row, ClaimRow, ProgressRow, CancelRow, FailPermanentRow, FailRow,
       ResetStaleRow, RetryRow, NewRow

LEMMA NextDone ==
  ASSUME TypeOK, JobOK, [Next]_vars, NEW c \in Chunks, chunk'[c].status = "DONE"
  PROVE  \/ chunk[c].status = "DONE"
         \/ \E w \in Workers : Complete(w) /\ wk[w].job = c
<1>a. chunk \in [Chunks -> Row]
  BY DEF TypeOK
<1>1. ASSUME NEW w \in Workers, WorkerStep(w) \/ WorkerFault(w), ~Complete(w)
      PROVE  chunk[c].status = "DONE"
  <2>1. wk[w].pc # "idle" => wk[w].job \in Chunks
    BY DEF JobOK
  <2>2. CASE UNCHANGED chunk
    BY <2>2
  <2>3. CASE ClaimCommit(w)
    BY <2>1, <2>3, <1>a, NotMadeDone DEF ClaimCommit, UpdateRow
  <2>4. CASE Progress(w)
    BY <2>1, <2>4, <1>a, NotMadeDone DEF Progress, UpdateRow
  <2>5. CASE CancelChunk(w)
    BY <2>1, <2>5, <1>a, NotMadeDone DEF CancelChunk, UpdateRow
  <2>6. CASE FailChunk(w)
    BY <2>1, <2>6, <1>a, NotMadeDone DEF FailChunk, UpdateRow
  <2> QED
    BY <1>1, <2>2, <2>3, <2>4, <2>5, <2>6 DEF WorkerStep, WorkerFault, ClaimBegin,
       Check, Flush, ReadFails, FlushAnswerLost, FlushFails, Abandon
<1>2. ASSUME NEW w \in Workers, Complete(w), wk[w].job # c
      PROVE  chunk[c].status = "DONE"
  BY <1>2, <1>a DEF Complete, UpdateRow
<1>3. ASSUME NEW d \in Chunks, Age(d)
      PROVE  chunk[c].status = "DONE"
  BY <1>3, <1>a DEF Age, UpdateRow, Row
<1>4. CASE TickRead \/ RetryFailedChunks
  BY <1>4, <1>a, NotMadeDone DEF TickRead, RetryFailedChunks
<1>5. CASE UNCHANGED chunk
  BY <1>5
<1> QED
  BY <1>1, <1>2, <1>3, <1>4, <1>5 DEF Next, TickStep, OperatorStep, TickCount,
     TickTransition, CoordinatorRestarts, TickRaises, CancelMigration, Pause, Resume, vars

LEMMA NextLoadedIsPresent ==
  ASSUME IInv, [Next]_vars
  PROVE  DecisionHolds' /\ LoadedIsPresent'
<1> USE DEF IInv
<1>1. \A c \in Chunks : Present(c) => Present(c)'
  BY NothingRemoved DEF Present
<1>2. \A c \in Chunks : chunk'[c].status = "DONE" => Present(c)'
  <2> SUFFICES ASSUME NEW c \in Chunks, chunk'[c].status = "DONE"
               PROVE  Present(c)'
    OBVIOUS
  <2>1. CASE chunk[c].status = "DONE"
    BY <1>1, <2>1 DEF LoadedIsPresent
  <2>2. ASSUME NEW w \in Workers, Complete(w), wk[w].job = c
        PROVE  Present(c)'
    BY <1>1, <2>2 DEF Complete, LoadedSoFar, Present
  <2> QED
    BY <2>1, <2>2, NextDone
<1>3. DecisionHolds'
  <2>1. CASE TickCount
    <3>1. tick' = "BULK_LOADED" => \A c \in Chunks : chunk[c].status = "DONE"
      BY <2>1 DEF TickCount
    <3> QED
      BY <1>1, <3>1 DEF DecisionHolds, LoadedIsPresent
  <2>2. CASE UNCHANGED tick
    BY <1>1, <2>2 DEF DecisionHolds
  <2>3. CASE TickRead \/ TickTransition \/ CoordinatorRestarts \/ TickRaises
    BY <2>3 DEF TickRead, TickTransition, CoordinatorRestarts, TickRaises, DecisionHolds
  <2> QED
    BY <2>1, <2>2, <2>3, WorkerFrame DEF Next, TickStep, OperatorStep, Age,
       CancelMigration, Pause, Resume, RetryFailedChunks, vars
<1>4. phase' = "BULK_LOADED" => phase = "BULK_LOADED" \/ tick = "BULK_LOADED"
  <2>1. CASE UNCHANGED phase
    BY <2>1
  <2>2. CASE TickTransition \/ CancelMigration
    BY <2>2 DEF TickTransition, CancelMigration
  <2> QED
    BY <2>1, <2>2, WorkerFrame DEF Next, TickStep, OperatorStep, Age, TickRead,
       TickCount, CoordinatorRestarts, TickRaises, Pause, Resume, RetryFailedChunks, vars
<1> QED
  BY <1>1, <1>2, <1>3, <1>4 DEF DecisionHolds, LoadedIsPresent

LEMMA InitIInv == Init => IInv
<1> SUFFICES ASSUME Init PROVE IInv
  OBVIOUS
<1>1. TypeOK
  BY InitTypeOK
<1>2. JobOK /\ LoadedSoFar
  BY DEF Init, Idle, JobOK, LoadedSoFar
<1>3. DecisionHolds /\ LoadedIsPresent
  BY DEF Init, NewRow, DecisionHolds, LoadedIsPresent
<1> QED
  BY <1>1, <1>2, <1>3 DEF IInv

LEMMA NextIInv == IInv /\ [Next]_vars => IInv'
BY NextTypeOK, NextJobOK, NextLoadedSoFar, NextLoadedIsPresent DEF IInv

THEOREM Invariance == Safety => []IInv
BY InitIInv, NextIInv, PTL DEF Safety

----------------------------------------------------------------------------
(* Ownership within the ten minutes. *)

LEMMA NextOwned ==
  ASSUME TypeOK, JobOK, Owned, ~Late, [Next]_vars
  PROVE  Owned'
<1> DEFINE
      Own(v) == /\ wk[v].pc \notin {"idle", "claiming"} =>
                     /\ Active(chunk[wk[v].job])
                     /\ chunk[wk[v].job].claimed_at = "fresh"
                /\ wk[v].pc = "claiming" => chunk[wk[v].job].status = "PENDING"
      Apart(u, v) == u # v /\ wk[u].pc # "idle" /\ wk[v].pc # "idle" =>
                       wk[u].job # wk[v].job
<1>a. chunk \in [Chunks -> Row]
  BY DEF TypeOK
<1>b. \A v \in Workers : Own(v) /\ (wk[v].pc # "idle" => wk[v].job \in Chunks)
  BY DEF Owned, JobOK
<1>c. \A u, v \in Workers : Apart(u, v)
  BY DEF Owned
<1>1. CASE UNCHANGED <<wk, chunk>>
  BY <1>1 DEF Owned, Active
<1>2. ASSUME NEW w \in Workers, WorkerStep(w) \/ WorkerFault(w)
      PROVE  Owned'
  <2>1. \A v \in Workers : v # w => wk'[v] = wk[v]
    BY <1>2, WorkerFrame
  <2>2. \A c \in Chunks : chunk'[c] # chunk[c] => wk[w].pc # "idle" /\ wk[w].job = c
    BY <1>2, <1>a DEF WorkerStep, WorkerFault, ClaimBegin, ClaimCommit, Check,
       Flush, Progress, Complete, CancelChunk, FailChunk, ReadFails,
       FlushAnswerLost, FlushFails, Abandon, UpdateRow
  <2>3. ASSUME NEW v \in Workers, v # w
        PROVE  Own(v)'
    <3>1. wk[v].pc # "idle" => chunk'[wk[v].job] = chunk[wk[v].job]
      BY <1>b, <1>c, <2>2, <2>3
    <3> QED
      BY <1>b, <2>1, <2>3, <3>1 DEF Active
  <2>4. wk'[w].pc # "idle" =>
          /\ Own(w)'
          /\ \/ wk[w].pc # "idle" /\ wk'[w].job = wk[w].job
             \/ \A v \in Workers : v # w /\ wk[v].pc # "idle" => wk[v].job # wk'[w].job
    <3>1. CASE ClaimBegin(w)
      <4>1. PICK d \in Chunks :
              /\ chunk[d].status = "PENDING" /\ ~Locked(d)
              /\ wk' = [wk EXCEPT ![w] = [pc |-> "claiming", job |-> d, pos |-> 0]]
        BY <3>1 DEF ClaimBegin, Claimable
      <4>2. wk'[w] = [pc |-> "claiming", job |-> d, pos |-> 0] /\ chunk' = chunk
        BY <3>1, <4>1 DEF ClaimBegin, TypeOK
      <4>3. \A v \in Workers : wk[v].pc # "idle" => wk[v].job # d
        BY <1>b, <4>1 DEF Locked, Active
      <4> QED
        BY <4>1, <4>2, <4>3
    <3>2. CASE ClaimCommit(w)
      <4>1. chunk'[wk[w].job] = ClaimRow(chunk[wk[w].job])
        BY <3>2, <1>a, <1>b DEF ClaimCommit, UpdateRow
      <4>2. Active(ClaimRow(chunk[wk[w].job]))
            /\ ClaimRow(chunk[wk[w].job]).claimed_at = "fresh"
        BY <3>2, <1>a, <1>b DEF ClaimCommit, ClaimRow, Active, Row
      <4> QED
        BY <3>2, <4>1, <4>2, OwnState DEF ClaimCommit, PCs, Active
    <3>3. CASE Check(w) \/ ReadFails(w) \/ Flush(w) \/ FlushAnswerLost(w) \/ FlushFails(w)
      BY <3>3, <1>b, OwnState DEF Check, ReadFails, Flush, FlushAnswerLost,
         FlushFails, PCs, Active
    <3>4. CASE Progress(w)
      <4>1. chunk'[wk[w].job] = ProgressRow(chunk[wk[w].job])
        BY <3>4, <1>a, <1>b DEF Progress, UpdateRow
      <4>2. /\ ProgressRow(chunk[wk[w].job]).status = "RUNNING"
            /\ ProgressRow(chunk[wk[w].job]).claimed_at = "fresh"
        BY <3>4, <1>a, <1>b DEF Progress, ProgressRow, Row
      <4>3. wk'[w].pc = "check" /\ wk'[w].job = wk[w].job
        BY <3>4 DEF Progress, TypeOK
      <4> QED
        BY <3>4, <4>1, <4>2, <4>3 DEF Progress, Active
    <3>5. CASE Complete(w) \/ CancelChunk(w) \/ FailChunk(w) \/ Abandon(w)
      BY <3>5, OwnState DEF Complete, CancelChunk, FailChunk, Abandon
    <3> QED
      BY <1>2, <3>1, <3>2, <3>3, <3>4, <3>5 DEF WorkerStep, WorkerFault
  <2>5. Own(w)'
    BY <2>4
  <2>6. ASSUME NEW u \in Workers, NEW v \in Workers
        PROVE  Apart(u, v)'
    BY <1>c, <2>1, <2>4
  <2> QED
    BY <2>3, <2>5, <2>6 DEF Owned
<1>3. ASSUME UNCHANGED wk,
             \A c \in Chunks : chunk'[c] # chunk[c] =>
               /\ \A w \in Workers : ~Holds(w, c)
               /\ chunk[c].status # "PENDING"
      PROVE  Owned'
  <2>1. \A w \in Workers : wk[w].pc # "idle" => chunk'[wk[w].job] = chunk[wk[w].job]
    BY <1>3, <1>b DEF Holds
  <2> QED
    BY <1>3, <1>b, <1>c, <2>1 DEF Owned, Active
<1>4. ASSUME NEW c \in Chunks, Age(c)
      PROVE  Owned'
  BY <1>3, <1>4, <1>a DEF Age, UpdateRow, Active
<1>5. CASE TickRead
  <2>1. UNCHANGED wk
    BY <1>5 DEF TickRead
  <2>2. \A c \in Chunks : chunk'[c] # chunk[c] =>
          Active(chunk[c]) /\ chunk[c].claimed_at = "stale"
    BY <1>5, <1>a DEF TickRead, ResetStaleRow
  <2> QED
    BY <1>3, <1>b, <2>1, <2>2 DEF Holds, Active
<1>6. CASE RetryFailedChunks
  <2>1. UNCHANGED wk
    BY <1>6 DEF RetryFailedChunks
  <2>2. \A c \in Chunks : chunk'[c] # chunk[c] => chunk[c].status = "FAILED"
    BY <1>6, <1>a DEF RetryFailedChunks, RetryRow
  <2> QED
    BY <1>3, <1>b, <2>1, <2>2 DEF Holds, Active
<1> QED
  BY <1>1, <1>2, <1>4, <1>5, <1>6 DEF Next, TickStep, OperatorStep, TickCount,
     TickTransition, CoordinatorRestarts, TickRaises, CancelMigration, Pause, Resume, vars

LEMMA InitEInv == Init => EInv
<1> SUFFICES ASSUME Init PROVE EInv
  OBVIOUS
<1>1. TypeOK
  BY InitTypeOK
<1>2. JobOK /\ Owned
  BY DEF Init, Idle, JobOK, Owned
<1> QED
  BY <1>1, <1>2 DEF EInv

LEMMA NextEInv == EInv /\ [Next]_vars => EInv'
<1> SUFFICES ASSUME EInv, [Next]_vars PROVE EInv'
  OBVIOUS
<1>1. TypeOK' /\ JobOK'
  BY NextTypeOK, NextJobOK DEF EInv
<1>2. Owned'
  <2>1. CASE Late
    BY <2>1 DEF Owned
  <2>2. CASE ~Late
    BY <2>2, NextOwned DEF EInv
  <2> QED
    BY <2>1, <2>2
<1> QED
  BY <1>1, <1>2 DEF EInv

LEMMA Ownership == Safety => []EInv
BY InitEInv, NextEInv, PTL DEF Safety

(* Within the ten minutes nothing touches a DONE chunk.                     *)
LEMMA NextDoneKept ==
  ASSUME EInv, [Next]_vars, ~Late, NEW c \in Chunks, chunk[c].status = "DONE"
  PROVE  chunk'[c] = chunk[c] /\ copies'[c] = copies[c]
<1>a. chunk \in [Chunks -> Row] /\ copies \in [Chunks -> [1 .. Batches -> 0 .. 2]]
  BY DEF EInv, TypeOK
<1>b. \A w \in Workers : wk[w].pc # "idle" => wk[w].job # c
  BY DEF EInv, Owned, Active
<1>1. ASSUME NEW w \in Workers, WorkerStep(w) \/ WorkerFault(w)
      PROVE  chunk'[c] = chunk[c] /\ copies'[c] = copies[c]
  BY <1>1, <1>a, <1>b DEF WorkerStep, WorkerFault, ClaimBegin, ClaimCommit, Check,
     Flush, Progress, Complete, CancelChunk, FailChunk, ReadFails,
     FlushAnswerLost, FlushFails, Abandon, UpdateRow, InsertBatch
<1>2. ASSUME NEW d \in Chunks, Age(d)
      PROVE  chunk'[c] = chunk[c] /\ copies'[c] = copies[c]
  BY <1>2, <1>a DEF Age, UpdateRow, Active
<1>3. CASE TickRead \/ RetryFailedChunks
  BY <1>3, <1>a DEF TickRead, RetryFailedChunks, ResetStaleRow, RetryRow, Active
<1>4. CASE UNCHANGED <<chunk, copies>>
  BY <1>4
<1> QED
  BY <1>1, <1>2, <1>3, <1>4 DEF Next, TickStep, OperatorStep, TickCount,
     TickTransition, CoordinatorRestarts, TickRaises, CancelMigration, Pause, Resume, vars

----------------------------------------------------------------------------
(* The theorems. *)

(* Every variable keeps its type: in particular a retry count never exceeds *)
(* _MAX_RETRIES and a worker never loads past the last batch of its chunk.  *)
THEOREM TypeCorrect == Safety => []TypeOK
<1>1. IInv => TypeOK
  BY DEF IInv
<1> QED
  BY <1>1, Invariance, PTL

(* However many workers overrun their claims, die, fail or retry: a DONE    *)
(* chunk is wholly in the destination, and BULK_LOADED is only ever reached *)
(* when every chunk is (complete_chunk, _handle_bulk_loading).              *)
THEOREM NoRowLost == Safety => []LoadedIsPresent
<1>1. IInv => LoadedIsPresent
  BY DEF IInv
<1> QED
  BY <1>1, Invariance, PTL

(* While no worker overruns its claim, a chunk has at most one loader, with *)
(* any number of workers (FOR UPDATE SKIP LOCKED, and claimed_at).          *)
THEOREM Exclusive == Safety => []OneLoaderPerChunk
<1>1. EInv => OneLoaderPerChunk
  <2> SUFFICES ASSUME EInv, ~Late, NEW c \in Chunks
               PROVE  Cardinality({w \in Workers : Holds(w, c)}) <= 1
    BY DEF OneLoaderPerChunk
  <2> DEFINE H == {w \in Workers : Holds(w, c)}
  <2>1. \A v, w \in H : v = w
    BY DEF EInv, Owned, Holds
  <2>2. CASE H = {}
    BY <2>2, FS_EmptySet
  <2>3. CASE H # {}
    <3>1. PICK w \in H : TRUE
      BY <2>3
    <3>2. H = {w}
      BY <2>1, <3>1
    <3> QED
      BY <3>2, FS_Singleton
  <2> QED
    BY <2>2, <2>3
<1> QED
  BY <1>1, Ownership, PTL

(* While no worker overruns its claim, no statement of the queue touches a  *)
(* DONE chunk again and nothing is written to its part of the destination.  *)
THEOREM DoneStaysDone == Safety => DoneIsFinal
<1>1. EInv /\ [Next]_vars =>
        [~Late => \A c \in Chunks : chunk[c].status = "DONE" =>
           chunk'[c] = chunk[c] /\ copies'[c] = copies[c]]_vars
  BY NextDoneKept
<1> QED
  BY <1>1, Ownership, PTL DEF Safety, DoneIsFinal

(* While no worker overruns its claim, chunks_done counts the DONE chunks:  *)
(* complete_chunk increments it once per chunk and nothing undoes a chunk.  *)
THEOREM CounterExact == Safety => []DoneCounterExact
<1> DEFINE D == {c \in Chunks : chunk[c].status = "DONE"}
<1>1. IsFiniteSet(Chunks) /\ Cardinality(Chunks) = NumChunks
  BY FS_Interval DEF Chunks
<1>2. Init => DoneCounterExact
  <2> SUFFICES ASSUME Init PROVE chunksDone = Cardinality(D)
    BY DEF DoneCounterExact
  <2>1. D = {}
    BY DEF Init, NewRow
  <2> QED
    BY <2>1, FS_EmptySet DEF Init
<1>3. EInv /\ DoneCounterExact /\ [Next]_vars => DoneCounterExact'
  <2> SUFFICES ASSUME EInv, chunksDone = Cardinality(D), [Next]_vars, ~Late
               PROVE  chunksDone' = Cardinality(D')
    BY DEF DoneCounterExact
  <2>1. ASSUME NEW w \in Workers, Complete(w)
        PROVE  chunksDone' = Cardinality(D')
    <3>1. wk[w].job \in Chunks /\ wk[w].job \notin D
      BY <2>1 DEF Complete, EInv, JobOK, Owned, Active
    <3>2. D' = D \cup {wk[w].job}
      BY <2>1, <3>1 DEF Complete, UpdateRow, CompleteRow, EInv, TypeOK, Row
    <3>3. IsFiniteSet(D) /\ Cardinality(D) \in Nat /\ Cardinality(D) <= NumChunks
      BY <1>1, FS_Subset, FS_CardinalityType
    <3>4. Cardinality(D') = Cardinality(D) + 1
      BY <3>1, <3>2, <3>3, FS_AddElement
    <3>5. chunksDone' = chunksDone + 1
      BY <2>1, <3>3 DEF Complete
    <3> QED
      BY <3>4, <3>5
  <2>2. CASE ~\E w \in Workers : Complete(w)
    <3>1. D' = D
      BY <2>2, NextDone, NextDoneKept DEF EInv
    <3>2. chunksDone' = chunksDone
      BY <2>2 DEF Next, WorkerStep, WorkerFault, ClaimBegin, ClaimCommit, Check,
         Flush, Progress, CancelChunk, FailChunk, ReadFails, FlushAnswerLost,
         FlushFails, Abandon, Age, TickStep, TickRead, TickCount, TickTransition,
         CoordinatorRestarts, TickRaises, OperatorStep, CancelMigration, Pause, Resume,
         RetryFailedChunks, vars
    <3> QED
      BY <3>1, <3>2
  <2> QED
    BY <2>1, <2>2
<1> QED
  BY <1>2, <1>3, Ownership, PTL DEF Safety

----------------------------------------------------------------------------
(* The bulk load implements TableLoad: every flush loads one unit, nothing  *)
(* removes one, and the load is declared complete only when all are there.  *)

LEMMA InitRefines == Init => Load!Init
BY DEF Init, Load!Init, Units

LEMMA NextRefines ==
  ASSUME IInv, [Next]_vars
  PROVE  [Load!Next]_(Load!vars)
<1> DEFINE P == {u \in Units : copies[u[1]][u[2]] > 0}
<1> USE DEF IInv
<1>1. ASSUME NEW w \in Workers, InsertBatch(w), wk[w].pc = "flush", UNCHANGED phase
      PROVE  [Load!Next]_(Load!vars)
  <2> DEFINE u == <<wk[w].job, wk[w].pos + 1>>
  <2>1. wk[w].job \in Chunks /\ wk[w].pos + 1 \in 1 .. Batches
    BY <1>1 DEF JobOK, TypeOK
  <2>2. copies \in [Chunks -> [1 .. Batches -> 0 .. 2]]
    BY DEF TypeOK
  <2>3. \A v \in Units : copies'[v[1]][v[2]] > 0 <=> copies[v[1]][v[2]] > 0 \/ v = u
    <3> SUFFICES ASSUME NEW c \in Chunks, NEW b \in 1 .. Batches
                 PROVE  copies'[c][b] > 0 <=>
                          copies[c][b] > 0 \/ (c = wk[w].job /\ b = wk[w].pos + 1)
      BY DEF Units
    <3>1. CASE c = wk[w].job
      <4>1. copies'[c] = [copies[c] EXCEPT ![wk[w].pos + 1] = IF @ = 0 THEN 1 ELSE 2]
        BY <1>1, <2>2, <3>1 DEF InsertBatch
      <4>2. copies[c] \in [1 .. Batches -> 0 .. 2]
        BY <2>2
      <4> QED
        BY <2>1, <3>1, <4>1, <4>2
    <3>2. CASE c # wk[w].job
      BY <1>1, <2>2, <3>2 DEF InsertBatch
    <3> QED
      BY <3>1, <3>2
  <2>4. u \in Units /\ P' = P \cup {u}
    BY <2>1, <2>3 DEF Units
  <2> QED
    BY <1>1, <2>4 DEF Load!Next, Load!Load
<1>2. CASE UNCHANGED <<copies, phase>>
  BY <1>2 DEF Load!vars
<1>3. CASE TickTransition
  <2>1. P' = P
    BY <1>3 DEF TickTransition
  <2>2. CASE tick = "BULK_LOADED"
    <3>1. P = Units
      BY <2>2 DEF DecisionHolds, Present, Units
    <3> QED
      BY <1>3, <2>1, <2>2, <3>1 DEF TickTransition, Load!Next, Load!Declare
  <2>3. CASE tick # "BULK_LOADED"
    BY <1>3, <2>1, <2>3 DEF TickTransition, Load!Next, Load!Withdraw
  <2> QED
    BY <2>2, <2>3
<1>4. CASE CancelMigration
  BY <1>4 DEF CancelMigration, Load!Next, Load!Withdraw
<1> QED
  BY <1>1, <1>2, <1>3, <1>4 DEF Next, WorkerStep, WorkerFault, ClaimBegin,
     ClaimCommit, Check, Flush, Progress, Complete, CancelChunk, FailChunk,
     ReadFails, FlushAnswerLost, FlushFails, Abandon, Age, TickStep, TickRead,
     TickCount, CoordinatorRestarts, TickRaises, OperatorStep, Pause, Resume,
     RetryFailedChunks, vars

(* The detailed load implements the abstract one, for every value of the    *)
(* constants.                                                               *)
THEOREM Refinement == Safety => ImplementsTableLoad
BY InitRefines, NextRefines, Invariance, PTL
   DEF Safety, ImplementsTableLoad, Load!Spec

=============================================================================
