-------------------------- MODULE DataCompareProofs --------------------------
(***************************************************************************)
(* Theorems about DataCompare, for any tables, any number of comparisons,  *)
(* workers, retries, failures, restarts and clicks.                        *)
(***************************************************************************)
EXTENDS DataCompare, FiniteSetTheorems, FunctionTheorems, TLAPS

USE CompareAssumption

TaskRow == [st : Unfinished \cup {"none", "gone", "DONE", "FAILED"}, total : Nat, done : Nat,
            verdict : {"none", "same", "differs"}]
Chunk == [side : Sides, i : Nat, st : {"PENDING", "CLAIMED", "DONE", "FAILED"}, tries : 0..MaxRetries]
Thread == [do : {"cut", "insert", "last_n", "query", "decide"}, task : TaskIds, wrong : BOOLEAN]
Counting == [do : {"count"}, task : TaskIds, chunk : Chunk]
Deciding == [do : {"decide"}, task : TaskIds]
Migration == [phase : {"DATA_VERIFYING", "DATA_MISMATCH", "COMPLETED", "FAILED"}, task : TaskIds \cup {NoTask},
              paused : BOOLEAN, forced : BOOLEAN]
Creator == [at : {"none", "begun", "inserted"}, task : TaskIds \cup {NoTask}]

----------------------------------------------------------------------------
(* The inductive invariant. *)

Typed ==
  /\ content \in [source : Nat, target : Nat]
  /\ task \in [TaskIds -> TaskRow]
  /\ chunks \in [TaskIds -> SUBSET Chunk]
  /\ threads \subseteq Thread
  /\ worker \in [Workers -> {Free} \cup Counting \cup Deciding]
  /\ mig \in Migration
  /\ creator \in Creator /\ (creator.task # NoTask <=> creator.at = "inserted")
  /\ \A t, u \in tick : t = u
  /\ tick \subseteq TaskIds \cup {NoTask}
  /\ lost \subseteq TaskIds /\ submitting \in BOOLEAN

(* The chunks of a full comparison are both tables, each row of them once.  *)
Size(s) == IF s = "source" THEN content.source ELSE content.target
Twins(c, d) == c.side = d.side /\ c.i = d.i
Sliced(t) ==
  /\ \A c \in chunks[t] : c.i \in 1..Size(c.side)
  /\ \A s \in Sides : \A i \in 1..Size(s) : \E c \in chunks[t] : c.side = s /\ c.i = i
  /\ \A c, d \in chunks[t] : Twins(c, d) => c = d
  /\ task[t].total = Chunked(t)

ChunksOK ==
  \A t \in TaskIds :
    /\ chunks[t] # {} => task[t].st \in {"RUNNING", "DONE", "FAILED"} /\ Sliced(t)
    /\ task[t].st = "DONE" => \A c \in chunks[t] : c.st = "DONE"
    /\ task[t].st = "FAILED" => \A c \in chunks[t] : c.st \in {"DONE", "FAILED"}

(* A task has one thread at most, and while it has it no chunk; where the   *)
(* thread is the status tells, unless the task was deleted.                 *)
Before(do) == CASE do \in {"cut", "last_n"} -> {"PENDING"}
                [] do = "insert" -> {"CHUNKING"}
                [] do = "query" -> {"RUNNING"}
                [] OTHER -> {"RUNNING", "DONE"}
ThreadsOK ==
  \A t \in TaskIds : \A h \in threads :
    h.task = t => /\ chunks[t] = {}
                  /\ task[t].st \in Before(h.do) \cup {"gone"}
                  /\ h.do = "decide" /\ task[t].st # "gone" => Sliced(t)
OneThread == \A g, h \in threads : g.task = h.task => g = h
CreatorOK ==
  \A t \in TaskIds : creator.task = t => /\ chunks[t] = {} /\ task[t].st \in {"PENDING", "gone"}
                                         /\ \A h \in threads : h.task # t

(* A migration is verified by a full comparison.                            *)
InFull(t) == /\ task[t].st # "none"
             /\ \A h \in threads : h.task = t => h.do \notin {"last_n", "query"}
             /\ task[t].st = "RUNNING" => Sliced(t)
VerifiesInFull == \A t \in TaskIds : t = mig.task \/ t = creator.task \/ t \in tick => InFull(t)

(* A chunk that is claimed has one worker, and every worker has the chunk   *)
(* it works on, unless the task was deleted.                                *)
At(w, do, t) == worker[w].do = do /\ worker[w].task = t
WorkersOK ==
  \A t \in TaskIds : \A w \in Workers :
    /\ At(w, "count", t) => /\ worker[w].chunk.st = "CLAIMED"
                            /\ worker[w].chunk \in chunks[t] \/ task[t].st = "gone"
    /\ At(w, "decide", t) => chunks[t] # {} \/ task[t].st = "gone"
    /\ \A v \in Workers : v # w /\ At(v, "count", t) /\ At(w, "count", t)
                            => worker[v].chunk # worker[w].chunk \/ task[t].st = "gone"
ClaimedIsHeld ==
  \A t \in TaskIds : \A c \in chunks[t] :
    c.st = "CLAIMED" => t \in lost \/ \E w \in Workers : At(w, "count", t) /\ worker[w].chunk = c

CompareIInv == /\ Typed /\ ChunksOK /\ ThreadsOK /\ OneThread /\ CreatorOK /\ VerifiesInFull
               /\ WorkersOK /\ ClaimedIsHeld /\ VerdictIsTrue /\ NeverStranded

----------------------------------------------------------------------------
(* The chunks of a task and its decision.                                   *)

LEMMA SizeType == Typed => \A s \in Sides : Size(s) \in Nat
BY DEF Typed, Size, Sides

(* A side of a table that was cut has as many chunks as rows.               *)
LEMMA SideIsCounted ==
  ASSUME Typed, NEW t \in TaskIds, Sliced(t), NEW s \in Sides
  PROVE  LET S == {c \in chunks[t] : c.side = s}
         IN IsFiniteSet(S) /\ Cardinality(S) = Size(s)
<1> DEFINE S == {c \in chunks[t] : c.side = s}
           f == [c \in S |-> c.i]
<1>1. Size(s) \in Nat
  BY SizeType
<1>2. \A c \in S : c.i \in 1..Size(s)
  BY DEF Sliced
<1>3. \A i \in 1..Size(s) : \E c \in S : c.i = i
  BY DEF Sliced
<1>4. \A c, d \in S : c.i = d.i => c = d
  BY DEF Sliced, Twins
<1> HIDE DEF S
<1>5. f \in Injection(S, 1..Size(s))
  BY <1>2, <1>4 DEF Injection, IsInjective
<1>6. f \in Surjection(S, 1..Size(s))
  BY <1>2, <1>3 DEF Surjection
<1>7. IsFiniteSet(1..Size(s)) /\ Cardinality(1..Size(s)) = Size(s)
  BY <1>1, FS_Interval
<1>8. IsFiniteSet(S) /\ Cardinality(S) = Size(s)
  BY <1>5, <1>6, <1>7, FS_Injection
<1> QED BY <1>8 DEF S

LEMMA ChunksAreCounted ==
  ASSUME Typed, NEW t \in TaskIds, Sliced(t)
  PROVE  /\ IsFiniteSet(chunks[t]) /\ Cardinality(chunks[t]) = Chunked(t)
         /\ Chunked(t) \in Nat
         /\ Chunked(t) = 0 => chunks[t] = {} /\ Same
<1> DEFINE S == {c \in chunks[t] : c.side = "source"}
           T == {c \in chunks[t] : c.side = "target"}
<1>1. /\ IsFiniteSet(S) /\ Cardinality(S) = content.source
      /\ IsFiniteSet(T) /\ Cardinality(T) = content.target
  BY SideIsCounted DEF Sides, Size
<1>2. chunks[t] = S \cup T
  BY DEF Typed, Chunk, Sides
<1>3. S \cap T = {}
  OBVIOUS
<1>4. content.source \in Nat /\ content.target \in Nat
  BY DEF Typed
<1> HIDE DEF S, T
<1>5. Cardinality(S \cup T) = content.source + content.target - 0
  <2>1. Cardinality(S \cup T) = Cardinality(S) + Cardinality(T) - Cardinality(S \cap T)
    BY <1>1, FS_Union
  <2>2. Cardinality(S \cap T) = 0
    BY <1>3, FS_EmptySet
  <2> QED BY <1>1, <2>1, <2>2
<1>6. IsFiniteSet(chunks[t]) /\ Cardinality(chunks[t]) = Chunked(t) /\ Chunked(t) \in Nat
  <2>1. IsFiniteSet(S \cup T)
    BY <1>1, FS_Union
  <2>2. Chunked(t) = content.source + content.target
    BY DEF Chunked
  <2> QED BY <1>2, <1>4, <1>5, <2>1, <2>2
<1>7. ASSUME Chunked(t) = 0 PROVE chunks[t] = {} /\ Same
  <2>1. content.source = 0 /\ content.target = 0
    BY <1>4, <1>7 DEF Chunked
  <2>2. S = {} /\ T = {}
    BY <1>1, <2>1, FS_EmptySet
  <2> QED BY <1>2, <2>1, <2>2 DEF Same
<1> QED BY <1>6, <1>7

(* try_aggregate: when every chunk is done the verdict is the truth.        *)
LEMMA DecisionIsTrue ==
  ASSUME Typed, NEW t \in TaskIds, task[t].st = "RUNNING", Sliced(t)
  PROVE  /\ Decided(t) \in TaskRow
         /\ Decided(t).total = task[t].total
         /\ Decided(t).st \in {"RUNNING", "DONE", "FAILED"}
         /\ Decided(t).st = "RUNNING" => \E c \in chunks[t] : c.st \in {"PENDING", "CLAIMED"}
         /\ Decided(t).st # "RUNNING" => \A c \in chunks[t] : c.st \in {"DONE", "FAILED"}
         /\ Decided(t).st = "FAILED" => chunks[t] # {}
         /\ Decided(t).st = "DONE" => /\ \A c \in chunks[t] : c.st = "DONE"
                                      /\ Decided(t).verdict = "same" <=> Same
                                      /\ Decided(t).done = Decided(t).total
<1> DEFINE open == Having(t, "PENDING") \cup Having(t, "CLAIMED")
           done == Cardinality(Having(t, "DONE"))
           st == IF open # {} THEN "RUNNING" ELSE IF Having(t, "FAILED") # {} THEN "FAILED" ELSE "DONE"
           verdict == IF Having(t, "DONE") = chunks[t] THEN Verdict(t) ELSE "none"
<1>1. task[t] \in TaskRow /\ chunks[t] \subseteq Chunk
  BY DEF Typed
<1>2. Decided(t) = [task[t] EXCEPT !.done = done, !.st = st, !.verdict = verdict]
  BY DEF Decided
<1>3. done \in Nat
  <2>1. IsFiniteSet(chunks[t])
    BY ChunksAreCounted
  <2>2. Having(t, "DONE") \in SUBSET chunks[t]
    BY DEF Having
  <2> QED BY <2>1, <2>2, FS_Subset, FS_CardinalityType
<1>4. verdict \in {"none", "same", "differs"}
  BY DEF Verdict
<1>5. /\ open # {} <=> \E c \in chunks[t] : c.st \in {"PENDING", "CLAIMED"}
      /\ Having(t, "FAILED") # {} <=> \E c \in chunks[t] : c.st = "FAILED"
      /\ \A c \in chunks[t] : c.st \in {"PENDING", "CLAIMED", "DONE", "FAILED"}
  BY <1>1 DEF Having, Chunk
<1>6. st \in {"RUNNING", "DONE", "FAILED"}
  OBVIOUS
<1>7. ASSUME \A c \in chunks[t] : c.st = "DONE"
      PROVE  done = task[t].total /\ (verdict = "same" <=> Same)
  <2>1. Having(t, "DONE") = chunks[t]
    BY <1>7 DEF Having
  <2>2. done = task[t].total
    BY <2>1, ChunksAreCounted DEF Sliced
  <2>3. verdict = Verdict(t)
    BY <2>1
  <2>4. /\ Cardinality({c \in chunks[t] : c.side = "source"}) = content.source
        /\ Cardinality({c \in chunks[t] : c.side = "target"}) = content.target
    BY SideIsCounted DEF Sides, Size
  <2>5. Verdict(t) = "same" <=> Same
    BY <2>1, <2>4 DEF Verdict, Same
  <2> QED BY <2>2, <2>3, <2>5
<1>8. st = "RUNNING" <=> open # {}
  OBVIOUS
<1>9. st = "FAILED" => open = {} /\ Having(t, "FAILED") # {}
  OBVIOUS
<1>10. st = "DONE" => open = {} /\ Having(t, "FAILED") = {}
  OBVIOUS
<1> HIDE DEF open, done, st, verdict
<1>11. /\ Decided(t) \in TaskRow /\ Decided(t).total = task[t].total /\ Decided(t).st = st
       /\ Decided(t).done = done /\ Decided(t).verdict = verdict
  BY <1>1, <1>2, <1>3, <1>4, <1>6 DEF TaskRow, Unfinished
<1>12. st # "RUNNING" => \A c \in chunks[t] : c.st \in {"DONE", "FAILED"}
  BY <1>5, <1>8
<1>13. st = "DONE" => \A c \in chunks[t] : c.st = "DONE"
  BY <1>5, <1>10
<1> QED BY <1>5, <1>6, <1>7, <1>8, <1>9, <1>11, <1>12, <1>13

(* A chunk takes another status: the tables stay cut as they are.           *)
LEMMA ReplacedChunk ==
  ASSUME Typed, NEW t \in TaskIds, Sliced(t), NEW c \in chunks[t], NEW d \in Chunk, Twins(c, d),
         chunks' = [chunks EXCEPT ![t] = (@ \ {c}) \cup {d}],
         content' = content, task'[t].total = task[t].total
  PROVE  /\ Sliced(t)' /\ chunks' \in [TaskIds -> SUBSET Chunk]
         /\ \A e \in Chunk : e \in chunks'[t] <=> e = d \/ (e \in chunks[t] /\ e # c)
         /\ \A u \in TaskIds : u # t => chunks'[u] = chunks[u]
<1>1. chunks \in [TaskIds -> SUBSET Chunk]
  BY DEF Typed
<1>2. chunks'[t] = (chunks[t] \ {c}) \cup {d}
  BY <1>1
<1>3. chunks' \in [TaskIds -> SUBSET Chunk]
  <2>1. (chunks[t] \ {c}) \cup {d} \in SUBSET Chunk
    BY <1>1
  <2> QED BY <1>1, <2>1
<1>4. \A e \in chunks'[t] : \E b \in chunks[t] : Twins(b, e) /\ (b = e \/ (b = c /\ e = d))
  BY <1>2 DEF Twins
<1>5. \A b \in chunks[t] : \E e \in chunks'[t] : Twins(b, e)
  BY <1>2 DEF Twins
<1>6. \A s : Size(s)' = Size(s)
  BY DEF Size
<1>7. \A e \in chunks'[t] : e.i \in 1..Size(e.side)
  BY <1>4 DEF Sliced, Twins
<1>8. \A s \in Sides : \A i \in 1..Size(s) : \E e \in chunks'[t] : e.side = s /\ e.i = i
  <2> SUFFICES ASSUME NEW s \in Sides, NEW i \in 1..Size(s) PROVE \E e \in chunks'[t] : e.side = s /\ e.i = i
    OBVIOUS
  <2>1. PICK b \in chunks[t] : b.side = s /\ b.i = i
    BY DEF Sliced
  <2> QED BY <1>5, <2>1 DEF Twins
<1>9. \A e, g \in chunks'[t] : Twins(e, g) => e = g
  <2> SUFFICES ASSUME NEW e \in chunks'[t], NEW g \in chunks'[t], Twins(e, g) PROVE e = g
    OBVIOUS
  <2>1. PICK b \in chunks[t] : Twins(b, e) /\ (b = e \/ (b = c /\ e = d))
    BY <1>4
  <2>2. PICK a \in chunks[t] : Twins(a, g) /\ (a = g \/ (a = c /\ g = d))
    BY <1>4
  <2>3. a = b
    BY <2>1, <2>2 DEF Sliced, Twins
  <2> QED BY <1>2, <2>1, <2>2, <2>3
<1>10. Sliced(t)'
  BY <1>6, <1>7, <1>8, <1>9 DEF Sliced, Chunked
<1> QED BY <1>1, <1>2, <1>3, <1>10

LEMMA SlicedKept ==
  ASSUME NEW t, task'[t].total = task[t].total, chunks'[t] = chunks[t], content' = content
  PROVE  Sliced(t)' <=> Sliced(t)
<1>1. \A s : Size(s)' = Size(s)
  BY DEF Size
<1> QED BY <1>1 DEF Sliced, Chunked

LEMMA ContentKept ==
  ASSUME content' = content
  PROVE  Same' = Same /\ \A t : Chunked(t)' = Chunked(t)
BY DEF Same, Chunked

(* Nobody knows of a task that has not been made yet.                       *)
LEMMA NewTask ==
  ASSUME CompareIInv, NEW t \in Unused
  PROVE  /\ t \in TaskIds /\ task[t].st = "none" /\ chunks[t] = {}
         /\ \A h \in threads : h.task # t
         /\ creator.task # t /\ mig.task # t /\ t \notin tick
         /\ \A w \in Workers : ~At(w, "count", t) /\ ~At(w, "decide", t)
<1> USE DEF CompareIInv
<1>1. t \in TaskIds /\ task[t].st = "none"
  BY DEF Unused
<1>2. chunks[t] = {}
  BY <1>1 DEF ChunksOK
<1>3. \A h \in threads : h.task # t
  BY <1>1 DEF ThreadsOK, Before
<1>4. creator.task # t /\ mig.task # t /\ t \notin tick
  BY <1>1 DEF VerifiesInFull, InFull
<1>5. \A w \in Workers : ~At(w, "count", t) /\ ~At(w, "decide", t)
  BY <1>1, <1>2 DEF WorkersOK
<1> QED BY <1>1, <1>2, <1>3, <1>4, <1>5

LEMMA InsertedTask ==
  ASSUME Typed, NEW t \in TaskIds, task' = Inserted(t)
  PROVE  /\ task' \in [TaskIds -> TaskRow]
         /\ task'[t].st = "PENDING"
         /\ \A u \in TaskIds : u # t => task'[u] = task[u]
<1>1. [NoRow EXCEPT !.st = "PENDING"] \in TaskRow /\ [NoRow EXCEPT !.st = "PENDING"].st = "PENDING"
  BY DEF NoRow, TaskRow, Unfinished
<1> QED BY <1>1 DEF Typed, Inserted

----------------------------------------------------------------------------
(* The invariant at the beginning and after each step.                      *)

LEMMA CompareBegins == CompareInit => CompareIInv
<1> SUFFICES ASSUME CompareInit PROVE CompareIInv
  OBVIOUS
<1>1. \A t \in TaskIds : task[t] = NoRow /\ chunks[t] = {}
  BY DEF CompareInit
<1>2. Typed
  <2>1. NoRow \in TaskRow
    BY DEF NoRow, TaskRow
  <2>2. NoCreator \in Creator /\ NoCreator.task = NoTask /\ NoCreator.at = "none"
    BY DEF NoCreator, Creator
  <2>3. mig \in Migration
    BY DEF CompareInit, Migration
  <2>4. content \in [source : Nat, target : Nat]
    BY DEF CompareInit
  <2>5. worker \in [Workers -> {Free} \cup Counting \cup Deciding]
    BY DEF CompareInit
  <2> QED BY <2>1, <2>2, <2>3, <2>4, <2>5 DEF CompareInit, Typed
<1>3. ChunksOK
  BY <1>1 DEF ChunksOK
<1>4. ThreadsOK /\ OneThread
  BY DEF CompareInit, ThreadsOK, OneThread
<1>5. CreatorOK
  BY DEF CompareInit, CreatorOK, NoCreator, NoTask, TaskIds
<1>6. VerifiesInFull
  BY DEF CompareInit, VerifiesInFull, NoCreator, NoTask, TaskIds
<1>7. WorkersOK
  BY DEF CompareInit, WorkersOK, At, Free
<1>8. ClaimedIsHeld
  BY <1>1 DEF ClaimedIsHeld
<1>9. VerdictIsTrue
  <2>1. mig.phase # "COMPLETED"
    BY DEF CompareInit
  <2> QED BY <1>1, <2>1 DEF VerdictIsTrue, NoRow
<1>10. NeverStranded
  BY <1>1 DEF NeverStranded, NoRow, Unfinished
<1> QED BY <1>2, <1>3, <1>4, <1>5, <1>6, <1>7, <1>8, <1>9, <1>10 DEF CompareIInv

(* The page, and the migration while its comparison is left alone.          *)
LEMMA MigrationMoves ==
  ASSUME CompareIInv, UNCHANGED <<taskVars, creator>>, mig' \in Migration, submitting' \in BOOLEAN,
         mig'.task \in {mig.task, NoTask}, tick' \in {tick, {mig.task}},
         mig'.phase = "COMPLETED" => mig'.forced \/ (mig.phase = "COMPLETED" /\ mig'.forced = mig.forced)
  PROVE  CompareIInv'
<1> USE DEF CompareIInv, taskVars
<1>1. Typed'
  BY DEF Typed, Migration
<1>2. ChunksOK' /\ ThreadsOK'
  BY DEF ChunksOK, ThreadsOK, Sliced, Size, Chunked
<1>3. OneThread' /\ CreatorOK'
  BY DEF OneThread, CreatorOK
<1>4. VerifiesInFull'
  BY DEF VerifiesInFull, InFull, Sliced, Size, Chunked, NoTask, TaskIds
<1>5. WorkersOK' /\ ClaimedIsHeld'
  BY DEF WorkersOK, ClaimedIsHeld, At
<1>6. VerdictIsTrue'
  BY DEF VerdictIsTrue, Same
<1>7. NeverStranded'
  BY DEF NeverStranded, InHand, Having
<1> QED BY <1>1, <1>2, <1>3, <1>4, <1>5, <1>6, <1>7

(* A task is inserted: to the tasks, chunks and workers there are it means  *)
(* nothing.                                                                 *)
LEMMA TaskAppears ==
  ASSUME CompareIInv, NEW t \in Unused, task' = Inserted(t), UNCHANGED <<content, chunks, worker, lost>>,
         mig'.phase = "COMPLETED" => mig.phase = "COMPLETED" /\ mig'.forced = mig.forced
  PROVE  /\ ChunksOK' /\ WorkersOK' /\ ClaimedIsHeld' /\ VerdictIsTrue'
         /\ \A u \in TaskIds : u # t => task'[u] = task[u] /\ (Sliced(u)' <=> Sliced(u))
<1> USE DEF CompareIInv
<1>1. /\ t \in TaskIds /\ chunks[t] = {} /\ task'[t].st = "PENDING"
      /\ \A u \in TaskIds : u # t => task'[u] = task[u]
      /\ \A w \in Workers : ~At(w, "count", t) /\ ~At(w, "decide", t)
  BY NewTask, InsertedTask
<1>2. \A u \in TaskIds : u # t => (Sliced(u)' <=> Sliced(u))
  BY <1>1, SlicedKept
<1>3. ChunksOK'
  BY <1>1, <1>2 DEF ChunksOK
<1>4. WorkersOK'
  BY <1>1 DEF WorkersOK, At
<1>5. ClaimedIsHeld'
  BY <1>1 DEF ClaimedIsHeld, At
<1>6. VerdictIsTrue'
  BY <1>1, ContentKept DEF VerdictIsTrue
<1> QED BY <1>1, <1>2, <1>3, <1>4, <1>5, <1>6

LEMMA CreatorInsertsStep == ASSUME CompareIInv, CreatorInserts PROVE CompareIInv'
<1> USE DEF CompareIInv
<1>1. PICK t \in Unused : /\ task' = Inserted(t) /\ mig' = [mig EXCEPT !.task = t]
                          /\ creator' = [at |-> "inserted", task |-> t]
  BY DEF CreatorInserts
<1>2. UNCHANGED <<content, chunks, threads, worker, lost, tick, submitting>> /\ creator.at = "begun"
  BY DEF CreatorInserts
<1>3. /\ t \in TaskIds /\ chunks[t] = {} /\ \A h \in threads : h.task # t
      /\ task' \in [TaskIds -> TaskRow] /\ task'[t].st = "PENDING"
  BY <1>1, NewTask, InsertedTask DEF Typed
<1>4. mig' \in Migration /\ mig'.phase = mig.phase /\ mig'.forced = mig.forced /\ mig'.task = t
  BY <1>1, <1>3 DEF Typed, Migration
<1>5. /\ ChunksOK' /\ WorkersOK' /\ ClaimedIsHeld' /\ VerdictIsTrue'
      /\ \A u \in TaskIds : u # t => task'[u] = task[u] /\ (Sliced(u)' <=> Sliced(u))
  BY <1>1, <1>2, <1>4, TaskAppears
<1>6. Typed'
  <2>1. creator' \in Creator /\ (creator'.task # NoTask <=> creator'.at = "inserted")
    BY <1>1, <1>3 DEF Creator, NoTask, TaskIds
  <2> QED BY <1>2, <1>3, <1>4, <2>1 DEF Typed
<1>7. ThreadsOK' /\ OneThread'
  BY <1>2, <1>3, <1>5 DEF ThreadsOK, OneThread
<1>8. CreatorOK'
  BY <1>1, <1>2, <1>3 DEF CreatorOK
<1>9. VerifiesInFull'
  BY <1>1, <1>2, <1>3, <1>4, <1>5 DEF VerifiesInFull, InFull
<1>10. NeverStranded'
  <2> SUFFICES ASSUME NEW u \in TaskIds, task'[u].st \in Unfinished
               PROVE  InHand(u)' \/ u \in lost \/ Having(u, "FAILED") # {}
    BY <1>2 DEF NeverStranded, Having
  <2>1. CASE u = t
    BY <1>1, <2>1 DEF InHand
  <2>2. CASE u # t
    <3>1. creator.task # u
      BY DEF Typed, NoTask, TaskIds, CreatorInserts
    <3> QED BY <1>2, <1>5, <2>2, <3>1 DEF NeverStranded, InHand, Having
  <2> QED BY <2>1, <2>2
<1> QED BY <1>5, <1>6, <1>7, <1>8, <1>9, <1>10

LEMMA HandleRunStep == ASSUME CompareIInv, HandleRun PROVE CompareIInv'
<1> USE DEF CompareIInv
<1>1. PICK t \in Unused, f \in FormCanRun :
        /\ task' = Inserted(t)
        /\ threads' = threads \cup {[do |-> IF f.mode = "full" THEN "cut" ELSE "last_n", task |-> t,
                                     wrong |-> f.mode = "last_n" /\ f.order = "foreign"]}
  BY DEF HandleRun
<1> DEFINE new == [do |-> IF f.mode = "full" THEN "cut" ELSE "last_n", task |-> t,
                   wrong |-> f.mode = "last_n" /\ f.order = "foreign"]
<1>2. UNCHANGED <<content, chunks, worker, lost, verifyVars>> /\ submitting' = TRUE
  BY DEF HandleRun
<1>3. /\ t \in TaskIds /\ chunks[t] = {} /\ (\A h \in threads : h.task # t) /\ creator.task # t
      /\ mig.task # t /\ t \notin tick
      /\ task' \in [TaskIds -> TaskRow] /\ task'[t].st = "PENDING"
  BY <1>1, NewTask, InsertedTask DEF Typed
<1>4. /\ ChunksOK' /\ WorkersOK' /\ ClaimedIsHeld' /\ VerdictIsTrue'
      /\ \A u \in TaskIds : u # t => task'[u] = task[u] /\ (Sliced(u)' <=> Sliced(u))
  BY <1>1, <1>2, TaskAppears DEF verifyVars
<1>5. new \in Thread /\ new.task = t /\ new.do \in {"cut", "last_n"}
  BY <1>3 DEF Thread
<1>6. threads' = threads \cup {new}
  BY <1>1
<1> HIDE DEF new
<1>7. Typed'
  BY <1>2, <1>3, <1>5, <1>6 DEF Typed, verifyVars
<1>8. ThreadsOK'
  BY <1>2, <1>3, <1>4, <1>5, <1>6 DEF ThreadsOK, Before
<1>9. OneThread'
  BY <1>3, <1>5, <1>6 DEF OneThread
<1>10. CreatorOK'
  BY <1>2, <1>3, <1>4, <1>5, <1>6 DEF CreatorOK, verifyVars
<1>11. VerifiesInFull'
  BY <1>2, <1>3, <1>4, <1>5, <1>6 DEF VerifiesInFull, InFull, verifyVars
<1>12. NeverStranded'
  <2> SUFFICES ASSUME NEW u \in TaskIds, task'[u].st \in Unfinished
               PROVE  InHand(u)' \/ u \in lost \/ Having(u, "FAILED") # {}
    BY <1>2 DEF NeverStranded, Having
  <2>1. CASE u = t
    BY <1>5, <1>6, <2>1 DEF InHand
  <2>2. CASE u # t
    BY <1>2, <1>4, <1>6, <2>2 DEF NeverStranded, InHand, Having, verifyVars
  <2> QED BY <2>1, <2>2
<1> QED BY <1>4, <1>7, <1>8, <1>9, <1>10, <1>11, <1>12

LEMMA CreatorLaunchesStep == ASSUME CompareIInv, CreatorLaunches PROVE CompareIInv'
<1> USE DEF CompareIInv
<1> DEFINE t == creator.task
           new == [do |-> "cut", task |-> t, wrong |-> FALSE]
<1>1. /\ creator.at = "inserted" /\ creator' = NoCreator /\ threads' = threads \cup {new}
      /\ UNCHANGED <<content, task, chunks, worker, lost, mig, tick, submitting>>
  BY DEF CreatorLaunches
<1>2. t \in TaskIds
  BY <1>1 DEF Typed, Creator, TaskIds, NoTask
<1>3. new \in Thread /\ new.task = t /\ new.do = "cut"
  BY <1>2 DEF Thread
<1>4. /\ chunks[t] = {} /\ task[t].st \in {"PENDING", "gone"} /\ \A h \in threads : h.task # t
  BY <1>2 DEF CreatorOK
<1>5. creator'.task = NoTask /\ NoTask \notin TaskIds
  BY <1>1 DEF NoCreator, NoTask, TaskIds
<1> HIDE DEF t, new
<1>6. \A u \in TaskIds : Sliced(u)' <=> Sliced(u)
  BY <1>1, SlicedKept
<1>7. Typed'
  BY <1>1, <1>3 DEF Typed, NoCreator, Creator
<1>8. ChunksOK' /\ WorkersOK' /\ ClaimedIsHeld'
  BY <1>1, <1>6 DEF ChunksOK, WorkersOK, ClaimedIsHeld, At
<1>9. ThreadsOK'
  BY <1>1, <1>3, <1>4, <1>6 DEF ThreadsOK, Before
<1>10. OneThread'
  BY <1>1, <1>3, <1>4 DEF OneThread
<1>11. CreatorOK'
  BY <1>5 DEF CreatorOK
<1>12. VerifiesInFull'
  BY <1>1, <1>3, <1>4, <1>5, <1>6 DEF VerifiesInFull, InFull, t
<1>13. VerdictIsTrue'
  BY <1>1, ContentKept DEF VerdictIsTrue
<1>14. NeverStranded'
  <2> SUFFICES ASSUME NEW u \in TaskIds, task[u].st \in Unfinished
               PROVE  InHand(u)' \/ u \in lost \/ Having(u, "FAILED") # {}
    BY <1>1 DEF NeverStranded, Having
  <2>1. CASE u = t
    BY <1>1, <1>3, <2>1 DEF InHand
  <2>2. CASE u # t
    BY <1>1, <2>2 DEF NeverStranded, InHand, Having, t
  <2> QED BY <2>1, <2>2
<1> QED BY <1>7, <1>8, <1>9, <1>10, <1>11, <1>12, <1>13, <1>14

LEMMA BackendRestartsStep == ASSUME CompareIInv, BackendRestarts PROVE CompareIInv'
<1> USE DEF CompareIInv
<1>1. /\ lost' = lost \cup {h.task : h \in threads} \cup ({creator.task} \ {NoTask})
      /\ threads' = {} /\ creator' = NoCreator /\ tick' = {}
      /\ UNCHANGED <<content, task, chunks, worker, mig, submitting>>
  BY DEF BackendRestarts
<1>2. creator'.task = NoTask /\ NoTask \notin TaskIds
  BY <1>1 DEF NoCreator, NoTask, TaskIds
<1>3. \A u \in TaskIds : Sliced(u)' <=> Sliced(u)
  BY <1>1, SlicedKept
<1>4. Typed'
  <2>1. lost' \subseteq TaskIds
    BY <1>1 DEF Typed, Thread, Creator
  <2> QED BY <1>1, <2>1 DEF Typed, NoCreator, Creator
<1>5. ChunksOK' /\ WorkersOK' /\ ClaimedIsHeld'
  BY <1>1, <1>3 DEF ChunksOK, WorkersOK, ClaimedIsHeld, At
<1>6. ThreadsOK' /\ OneThread' /\ CreatorOK'
  BY <1>1, <1>2 DEF ThreadsOK, OneThread, CreatorOK
<1>7. VerifiesInFull'
  BY <1>1, <1>2, <1>3 DEF VerifiesInFull, InFull
<1>8. VerdictIsTrue'
  BY <1>1, ContentKept DEF VerdictIsTrue
<1>9. NeverStranded'
  <2> SUFFICES ASSUME NEW u \in TaskIds, task[u].st \in Unfinished
               PROVE  InHand(u)' \/ u \in lost' \/ Having(u, "FAILED") # {}
    BY <1>1 DEF NeverStranded, Having
  <2>1. InHand(u) \/ u \in lost \/ Having(u, "FAILED") # {}
    BY DEF NeverStranded
  <2>2. CASE creator.task = u \/ \E h \in threads : h.task = u
    BY <1>1, <1>2, <2>2
  <2>3. CASE ~(creator.task = u \/ \E h \in threads : h.task = u)
    BY <1>1, <2>1, <2>3 DEF InHand, Having
  <2> QED BY <2>2, <2>3
<1> QED BY <1>4, <1>5, <1>6, <1>7, <1>8, <1>9

LEMMA HandleDeleteStep == ASSUME CompareIInv, NEW t \in TaskIds, HandleDelete(t) PROVE CompareIInv'
<1> USE DEF CompareIInv
<1>1. /\ task' = IF Exists(t) THEN [task EXCEPT ![t] = [NoRow EXCEPT !.st = "gone"]] ELSE task
      /\ chunks' = [chunks EXCEPT ![t] = {}]
      /\ UNCHANGED <<content, threads, worker, lost, mig, creator, tick, submitting>>
  BY DEF HandleDelete, verifyVars
<1>2. /\ task' \in [TaskIds -> TaskRow]
      /\ \A u \in TaskIds : u # t => task'[u] = task[u] /\ chunks'[u] = chunks[u]
      /\ chunks'[t] = {}
      /\ task[t].st \notin {"none", "gone"} => task'[t].st = "gone"
      /\ task[t].st \in {"none", "gone"} => task'[t] = task[t]
  <2>1. [NoRow EXCEPT !.st = "gone"] \in TaskRow /\ [NoRow EXCEPT !.st = "gone"].st = "gone"
    BY DEF NoRow, TaskRow, Unfinished
  <2> QED BY <1>1, <2>1 DEF Typed, Exists
<1>3. \A u \in TaskIds : u # t => (Sliced(u)' <=> Sliced(u))
  BY <1>1, <1>2, SlicedKept
<1>4. task'[t].st \in {"none", "gone"} /\ (task[t].st # "none" => task'[t].st = "gone")
  BY <1>2
<1>5. Typed'
  <2>1. chunks' \in [TaskIds -> SUBSET Chunk]
    BY <1>1 DEF Typed
  <2> QED BY <1>1, <1>2, <2>1 DEF Typed
<1>6. ChunksOK'
  BY <1>2, <1>3, <1>4 DEF ChunksOK
<1>7. ThreadsOK'
  <2>1. ASSUME NEW u \in TaskIds, NEW h \in threads, h.task = u
        PROVE  /\ chunks'[u] = {} /\ task'[u].st \in Before(h.do) \cup {"gone"}
               /\ h.do = "decide" /\ task'[u].st # "gone" => Sliced(u)'
    <3>1. /\ chunks[u] = {} /\ task[u].st \in Before(h.do) \cup {"gone"}
          /\ h.do = "decide" /\ task[u].st # "gone" => Sliced(u)
      BY <2>1 DEF ThreadsOK
    <3>2. task[u].st # "none"
      BY <3>1 DEF Before
    <3> QED BY <1>2, <1>3, <1>4, <3>1, <3>2
  <2> QED BY <1>1, <2>1 DEF ThreadsOK
<1>8. OneThread' /\ CreatorOK'
  BY <1>1, <1>2, <1>4 DEF OneThread, CreatorOK
<1>9. VerifiesInFull'
  BY <1>1, <1>2, <1>3, <1>4 DEF VerifiesInFull, InFull
<1>10. WorkersOK'
  <2>1. \A w \in Workers : At(w, "count", t) \/ At(w, "decide", t) => task[t].st # "none"
    BY DEF WorkersOK, ChunksOK
  <2>2. \A w \in Workers : \A do, u : At(w, do, u)' <=> At(w, do, u)
    BY <1>1 DEF At
  <2> QED BY <1>1, <1>2, <1>4, <2>1, <2>2 DEF WorkersOK
<1>11. ClaimedIsHeld'
  BY <1>1, <1>2 DEF ClaimedIsHeld, At
<1>12. VerdictIsTrue'
  BY <1>1, <1>2, <1>4, ContentKept DEF VerdictIsTrue
<1>13. NeverStranded'
  <2> SUFFICES ASSUME NEW u \in TaskIds, task'[u].st \in Unfinished
               PROVE  InHand(u)' \/ u \in lost' \/ Having(u, "FAILED")' # {}
    BY DEF NeverStranded
  <2>1. u # t
    BY <1>4 DEF Unfinished
  <2> QED BY <1>1, <1>2, <2>1 DEF NeverStranded, InHand, Having
<1> QED BY <1>5, <1>6, <1>7, <1>8, <1>9, <1>10, <1>11, <1>12, <1>13

(* The step of a thread: it goes on or ends, and what it writes concerns    *)
(* its task only, of which nobody else has anything in hand.                *)
Moves(h, t, G) ==
      /\ h.task = t /\ G \in SUBSET Thread /\ threads' = (threads \ {h}) \cup G
      /\ (\A f, g \in G : f = g) /\ (\A g \in G : g.task = t)
      /\ UNCHANGED <<content, worker, lost, verifyVars, submitting>>
      /\ task' \in [TaskIds -> TaskRow] /\ chunks' \in [TaskIds -> SUBSET Chunk]
      /\ \A u \in TaskIds : u # t => task'[u] = task[u] /\ chunks'[u] = chunks[u]
      /\ task[t].st = "gone" => task'[t] = task[t] /\ chunks'[t] = {}
      /\ task[t].st # "gone" => task'[t].st \notin {"none", "gone"}
      /\ chunks'[t] # {} => /\ task'[t].st = "RUNNING" /\ Sliced(t)' /\ G = {}
                            /\ \A c \in chunks'[t] : c.st = "PENDING"
      /\ \A g \in G : /\ task'[t].st \in Before(g.do) \cup {"gone"}
                      /\ g.do = "decide" /\ task'[t].st # "gone" => Sliced(t)'
                      /\ g.do \in {"last_n", "query"} => h.do \in {"last_n", "query"}
      /\ task'[t].st = "RUNNING" => h.do \in {"last_n", "query"} \/ Sliced(t)'
      /\ task'[t].st = "DONE" => (task'[t].verdict = "same" <=> Same)
      /\ task'[t].st \in Unfinished => G # {} \/ chunks'[t] # {}

LEMMA ThreadMoves ==
  ASSUME CompareIInv, NEW h \in threads, NEW t \in TaskIds, NEW G, Moves(h, t, G)
  PROVE  CompareIInv'
<1> USE DEF Moves
<1> USE DEF CompareIInv
<1>1. chunks[t] = {} /\ task[t].st # "none"
  BY DEF ThreadsOK, Before
<1>2. \A u \in TaskIds : u # t => (Sliced(u)' <=> Sliced(u))
  BY SlicedKept
<1>3. \A f \in threads : f # h => f.task # t
  BY DEF OneThread
<1>4. \A w \in Workers : At(w, "count", t) \/ At(w, "decide", t) => task[t].st = "gone"
  BY <1>1 DEF WorkersOK
<1>5. creator.task # t
  BY DEF CreatorOK
<1>6. Typed'
  BY DEF Typed, verifyVars
<1>7. ChunksOK'
  BY <1>2 DEF ChunksOK
<1>8. ThreadsOK'
  <2> SUFFICES ASSUME NEW g \in threads', NEW u \in TaskIds, g.task = u
               PROVE  /\ chunks'[u] = {} /\ task'[u].st \in Before(g.do) \cup {"gone"}
                      /\ g.do = "decide" /\ task'[u].st # "gone" => Sliced(u)'
    <3> HIDE DEF Moves
    <3> QED BY DEF ThreadsOK
  <2>1. CASE g \in G
    BY <2>1
  <2>2. CASE g \in threads /\ g # h
    <3>1. u # t
      BY <1>3, <2>2
    <3> QED BY <1>2, <2>2, <3>1 DEF ThreadsOK
  <2> QED BY <2>1, <2>2
<1>9. OneThread'
  BY <1>3 DEF OneThread
<1>10. CreatorOK'
  <2> SUFFICES ASSUME NEW u \in TaskIds, creator.task = u
               PROVE  /\ chunks'[u] = {} /\ task'[u].st \in {"PENDING", "gone"}
                      /\ \A g \in threads' : g.task # u
    BY DEF CreatorOK, verifyVars
  <2>1. u # t
    BY <1>5
  <2> QED BY <2>1 DEF CreatorOK
<1>11. VerifiesInFull'
  <2> SUFFICES ASSUME NEW u \in TaskIds, u = mig.task \/ u = creator.task \/ u \in tick
               PROVE  /\ task'[u].st # "none"
                      /\ \A g \in threads' : g.task = u => g.do \notin {"last_n", "query"}
                      /\ task'[u].st = "RUNNING" => Sliced(u)'
    BY DEF VerifiesInFull, InFull, verifyVars
  <2>1. InFull(u)
    BY DEF VerifiesInFull
  <2>2. CASE u = t
    <3>1. h.do \notin {"last_n", "query"}
      BY <2>1, <2>2 DEF InFull
    <3> QED BY <1>1, <1>3, <2>2, <3>1
  <2>3. CASE u # t
    BY <1>2, <2>1, <2>3 DEF InFull
  <2> QED BY <2>2, <2>3
<1>12. WorkersOK'
  <2>1. \A w \in Workers : \A do, u : At(w, do, u)' <=> At(w, do, u)
    BY DEF At
  <2> QED BY <1>4, <2>1 DEF WorkersOK
<1>13. ClaimedIsHeld'
  BY DEF ClaimedIsHeld, At
<1>14. VerdictIsTrue'
  BY ContentKept DEF VerdictIsTrue, verifyVars
<1>15. NeverStranded'
  <2> SUFFICES ASSUME NEW u \in TaskIds, task'[u].st \in Unfinished
               PROVE  InHand(u)' \/ u \in lost \/ Having(u, "FAILED")' # {}
    BY DEF NeverStranded
  <2>1. CASE u = t /\ G # {}
    BY <2>1 DEF InHand
  <2>2. CASE u = t /\ chunks'[t] # {}
    BY <2>2 DEF InHand, Having
  <2>3. CASE u # t
    BY <2>3 DEF NeverStranded, InHand, Having, verifyVars
  <2> QED BY <2>1, <2>2, <2>3
<1> QED BY <1>6, <1>7, <1>8, <1>9, <1>10, <1>11, <1>12, <1>13, <1>14, <1>15

LEMMA StatusWritten ==
  ASSUME Typed, NEW t \in TaskIds, NEW st \in Unfinished \cup {"DONE", "FAILED"}, task' = WithStatus(t, st),
         task[t].st # "none"
  PROVE  /\ task' \in [TaskIds -> TaskRow]
         /\ \A u \in TaskIds : u # t => task'[u] = task[u]
         /\ task[t].st = "gone" => task'[t] = task[t]
         /\ task[t].st # "gone" => task'[t].st = st
<1>1. [task[t] EXCEPT !.st = st] \in TaskRow /\ [task[t] EXCEPT !.st = st].st = st
  BY DEF Typed, TaskRow
<1> QED BY <1>1 DEF Typed, WithStatus, Exists

(* The shape of a thread, and of its task as the thread finds it.           *)
LEMMA ThreadAtWork ==
  ASSUME CompareIInv, NEW h \in threads
  PROVE  /\ h.task \in TaskIds /\ h \in Thread /\ chunks[h.task] = {}
         /\ task[h.task].st \in Before(h.do) \cup {"gone"} /\ task[h.task].st # "none"
         /\ h.do = "decide" /\ task[h.task].st # "gone" => Sliced(h.task)
<1> USE DEF CompareIInv
<1>1. h.task \in TaskIds /\ h \in Thread
  BY DEF Typed, Thread
<1>2. /\ chunks[h.task] = {}
      /\ task[h.task].st \in Before(h.do) \cup {"gone"}
      /\ h.do = "decide" /\ task[h.task].st # "gone" => Sliced(h.task)
  BY <1>1 DEF ThreadsOK
<1>3. task[h.task].st # "none"
  BY <1>2 DEF Before
<1> QED BY <1>1, <1>2, <1>3

LEMMA ThreadEnds ==
  ASSUME CompareIInv, NEW h \in threads, threads' = threads \ {h},
         UNCHANGED <<content, chunks, worker, lost, verifyVars, submitting>>,
         task' \in [TaskIds -> TaskRow],
         \A u \in TaskIds : u # h.task => task'[u] = task[u],
         task[h.task].st = "gone" => task'[h.task] = task[h.task],
         task[h.task].st # "gone" => task'[h.task].st \in {"DONE", "FAILED"},
         task'[h.task].st = "DONE" => (task'[h.task].verdict = "same" <=> Same)
  PROVE  CompareIInv'
<1>1. h.task \in TaskIds /\ chunks[h.task] = {} /\ task[h.task].st # "none"
  BY ThreadAtWork
<1>2. chunks' \in [TaskIds -> SUBSET Chunk]
  BY DEF CompareIInv, Typed
<1>3. task'[h.task].st \in {"DONE", "FAILED", "gone"} /\ task'[h.task].st \notin Unfinished
  BY DEF Unfinished
<1>4. task'[h.task].st # "RUNNING" /\ chunks'[h.task] = {}
  BY <1>1, <1>3
<1>5. task[h.task].st # "gone" => task'[h.task].st \notin {"none", "gone"}
  OBVIOUS
<1> DEFINE G == {}
<1>0. PICK t \in TaskIds : t = h.task
  BY <1>1
<1>6. /\ G \in SUBSET Thread /\ threads' = (threads \ {h}) \cup G
      /\ \A f, g \in G : f = g
      /\ \A g \in G : FALSE
  OBVIOUS
<1>7. t \in TaskIds /\ h.task = t /\ \A u \in TaskIds : u # t => task'[u] = task[u] /\ chunks'[u] = chunks[u]
  BY <1>0, <1>1
<1>8. /\ task[t].st = "gone" => task'[t] = task[t] /\ chunks'[t] = {}
      /\ task[t].st # "gone" => task'[t].st \notin {"none", "gone"}
      /\ chunks'[t] = {} /\ task'[t].st # "RUNNING" /\ task'[t].st \notin Unfinished
      /\ task'[t].st = "DONE" => (task'[t].verdict = "same" <=> Same)
  BY <1>0, <1>3, <1>4, <1>5
<1> HIDE DEF G
<1>9. Moves(h, t, G)
  BY <1>2, <1>6, <1>7, <1>8 DEF Moves
<1> QED BY <1>9, ThreadMoves

LEMMA ThreadBeginsStep == ASSUME CompareIInv, NEW h \in threads, ThreadBegins(h) PROVE CompareIInv'
<1> DEFINE st == IF h.do = "cut" THEN "CHUNKING" ELSE "RUNNING"
           new == [h EXCEPT !.do = IF h.do = "cut" THEN "insert" ELSE "query"]
<1>1. /\ h.do \in {"cut", "last_n"} /\ task' = WithStatus(h.task, st) /\ threads' = (threads \ {h}) \cup {new}
      /\ UNCHANGED <<content, chunks, worker, lost, verifyVars, submitting>>
  BY DEF ThreadBegins
<1>2. /\ h.task \in TaskIds /\ h \in Thread /\ chunks[h.task] = {} /\ task[h.task].st # "none" /\ Typed
  BY ThreadAtWork DEF CompareIInv
<1>3. st \in Unfinished
  BY DEF Unfinished
<1>4. new \in Thread /\ new.task = h.task /\ new.do = (IF h.do = "cut" THEN "insert" ELSE "query")
  BY <1>2 DEF Thread
<1>5. (st = "CHUNKING" /\ h.do = "cut") \/ (st = "RUNNING" /\ h.do = "last_n")
  BY <1>1
<1> HIDE DEF st, new
<1>6. /\ task' \in [TaskIds -> TaskRow]
      /\ \A u \in TaskIds : u # h.task => task'[u] = task[u]
      /\ task[h.task].st = "gone" => task'[h.task] = task[h.task]
      /\ task[h.task].st # "gone" => task'[h.task].st = st
  BY <1>1, <1>2, <1>3, StatusWritten
<1>7. task'[h.task].st \in Before(new.do) \cup {"gone"}
  BY <1>4, <1>5, <1>6 DEF Before
<1>8. new.do # "decide" /\ (new.do \in {"last_n", "query"} => h.do \in {"last_n", "query"})
  BY <1>1, <1>4
<1>9. task'[h.task].st = "RUNNING" => h.do \in {"last_n", "query"}
  BY <1>5, <1>6
<1>10. chunks' \in [TaskIds -> SUBSET Chunk]
  BY <1>1, <1>2 DEF Typed
<1>11. task'[h.task].st # "DONE"
  BY <1>5, <1>6
<1> DEFINE G == {new}
<1>0. PICK t \in TaskIds : t = h.task
  BY <1>2
<1>12. /\ G \in SUBSET Thread /\ threads' = (threads \ {h}) \cup G /\ G # {}
       /\ \A e, f \in G : e = f
  BY <1>1, <1>4
<1>13. \A f \in G : /\ f.task = t
                    /\ task'[t].st \in Before(f.do) \cup {"gone"}
                    /\ f.do # "decide"
                    /\ f.do \in {"last_n", "query"} => h.do \in {"last_n", "query"}
  BY <1>0, <1>4, <1>7, <1>8
<1>14. t \in TaskIds /\ h.task = t /\ \A u \in TaskIds : u # t => task'[u] = task[u] /\ chunks'[u] = chunks[u]
  BY <1>0, <1>1, <1>2, <1>6
<1>15. /\ task[t].st = "gone" => task'[t] = task[t] /\ chunks'[t] = {}
       /\ task[t].st # "gone" => task'[t].st \notin {"none", "gone"}
       /\ chunks'[t] = {} /\ task'[t].st # "DONE"
       /\ task'[t].st = "RUNNING" => h.do \in {"last_n", "query"}
  BY <1>0, <1>1, <1>2, <1>5, <1>6, <1>9, <1>11
<1> HIDE DEF G
<1>16. /\ UNCHANGED <<content, worker, lost, verifyVars, submitting>>
       /\ task' \in [TaskIds -> TaskRow] /\ chunks' \in [TaskIds -> SUBSET Chunk]
  BY <1>1, <1>6, <1>10
<1>17. Moves(h, t, G)
  <2>1. \A f, g \in G : f = g
    BY <1>12
  <2>4. \A g \in G : g.task = t
    BY <1>13
  <2>2. \A g \in G : /\ task'[t].st \in Before(g.do) \cup {"gone"}
                     /\ g.do = "decide" /\ task'[t].st # "gone" => Sliced(t)'
                     /\ g.do \in {"last_n", "query"} => h.do \in {"last_n", "query"}
    BY <1>13
  <2>3. /\ chunks'[t] # {} => /\ task'[t].st = "RUNNING" /\ Sliced(t)' /\ G = {}
                              /\ \A c \in chunks'[t] : c.st = "PENDING"
        /\ task'[t].st = "RUNNING" => h.do \in {"last_n", "query"} \/ Sliced(t)'
        /\ task'[t].st = "DONE" => (task'[t].verdict = "same" <=> Same)
        /\ task'[t].st \in Unfinished => G # {} \/ chunks'[t] # {}
    BY <1>12, <1>15
  <2> QED BY <1>12, <1>14, <1>15, <1>16, <2>1, <2>2, <2>3, <2>4 DEF Moves
<1> QED BY <1>17, ThreadMoves

LEMMA ThreadFailsStep == ASSUME CompareIInv, NEW h \in threads, ThreadFails(h) PROVE CompareIInv'
<1>1. /\ task' = WithStatus(h.task, "FAILED") /\ threads' = threads \ {h}
      /\ UNCHANGED <<content, chunks, worker, lost, verifyVars, submitting>>
  BY DEF ThreadFails
<1>2. /\ h.task \in TaskIds /\ chunks[h.task] = {} /\ task[h.task].st # "none" /\ Typed
  BY ThreadAtWork DEF CompareIInv
<1>3. /\ task' \in [TaskIds -> TaskRow]
      /\ \A u \in TaskIds : u # h.task => task'[u] = task[u]
      /\ task[h.task].st = "gone" => task'[h.task] = task[h.task]
      /\ task[h.task].st # "gone" => task'[h.task].st = "FAILED"
  BY <1>1, <1>2, StatusWritten
<1>4. task'[h.task].st \in {"gone", "FAILED"}
  BY <1>3
<1> QED BY <1>1, <1>3, <1>4, ThreadEnds

LEMMA LastNDoneStep == ASSUME CompareIInv, NEW h \in threads, LastNDone(h) PROVE CompareIInv'
<1> DEFINE v == IF Same THEN "same" ELSE "differs"
<1>1. /\ task' = IF Exists(h.task) THEN [task EXCEPT ![h.task].st = "DONE", ![h.task].verdict = v] ELSE task
      /\ threads' = threads \ {h}
      /\ UNCHANGED <<content, chunks, worker, lost, verifyVars, submitting>>
  BY DEF LastNDone
<1>2. /\ h.task \in TaskIds /\ chunks[h.task] = {} /\ task[h.task].st # "none" /\ Typed
  BY ThreadAtWork DEF CompareIInv
<1>3. v \in {"same", "differs"} /\ (v = "same" <=> Same)
  OBVIOUS
<1> HIDE DEF v
<1>4. /\ task' \in [TaskIds -> TaskRow]
      /\ \A u \in TaskIds : u # h.task => task'[u] = task[u]
      /\ task[h.task].st = "gone" => task'[h.task] = task[h.task]
      /\ task[h.task].st # "gone" => task'[h.task].st = "DONE" /\ task'[h.task].verdict = v
  <2>1. task[h.task] \in TaskRow /\ task \in [TaskIds -> TaskRow]
    BY <1>2 DEF Typed
  <2>2. [task[h.task] EXCEPT !.st = "DONE", !.verdict = v] \in TaskRow
    BY <1>3, <2>1 DEF TaskRow
  <2>3. CASE task[h.task].st = "gone"
    BY <1>1, <2>1, <2>3 DEF Exists
  <2>4. CASE task[h.task].st # "gone"
    <3>1. task' = [task EXCEPT ![h.task] = [task[h.task] EXCEPT !.st = "DONE", !.verdict = v]]
      BY <1>1, <1>2, <2>4 DEF Exists
    <3> QED BY <1>2, <2>1, <2>2, <2>4, <3>1 DEF TaskRow
  <2> QED BY <2>3, <2>4
<1>5. task'[h.task].st = "DONE" => (task'[h.task].verdict = "same" <=> Same)
  BY <1>3, <1>4
<1> QED BY <1>1, <1>4, <1>5, ThreadEnds

LEMMA ThreadDecidesStep == ASSUME CompareIInv, NEW h \in threads, ThreadDecides(h) PROVE CompareIInv'
<1>1. /\ h.do = "decide" /\ task' = [task EXCEPT ![h.task] = Decided(h.task)] /\ threads' = threads \ {h}
      /\ UNCHANGED <<content, chunks, worker, lost, verifyVars, submitting>>
  BY DEF ThreadDecides
<1>2. /\ h.task \in TaskIds /\ chunks[h.task] = {} /\ task[h.task].st \in {"RUNNING", "DONE", "gone"} /\ Typed
      /\ task[h.task].st # "gone" => Sliced(h.task)
  BY <1>1, ThreadAtWork DEF CompareIInv, Before
<1>3. /\ Decided(h.task) \in TaskRow
      /\ task[h.task].st # "RUNNING" => Decided(h.task) = task[h.task]
      /\ task[h.task].st = "RUNNING" => Decided(h.task).st = "DONE" /\ (Decided(h.task).verdict = "same" <=> Same)
  <2>1. CASE task[h.task].st # "RUNNING"
    BY <1>2, <2>1 DEF Decided, Typed
  <2>2. CASE task[h.task].st = "RUNNING"
    BY <1>2, <2>2, DecisionIsTrue
  <2> QED BY <2>1, <2>2
<1>4. /\ task' \in [TaskIds -> TaskRow] /\ task'[h.task] = Decided(h.task)
      /\ \A u \in TaskIds : u # h.task => task'[u] = task[u]
  BY <1>1, <1>2, <1>3 DEF Typed
<1>5. task'[h.task].st = "DONE" => (task'[h.task].verdict = "same" <=> Same)
  BY <1>2, <1>3, <1>4 DEF CompareIInv, VerdictIsTrue
<1>6. task[h.task].st = "gone" => task'[h.task] = task[h.task]
  BY <1>3, <1>4
<1>7. task[h.task].st # "gone" => task'[h.task].st = "DONE"
  BY <1>2, <1>3, <1>4
<1> QED BY <1>1, <1>4, <1>5, <1>6, <1>7, ThreadEnds

(* _create_chunks_and_start cuts both tables, each row of them once.        *)
LEMMA NewChunksAreSliced ==
  ASSUME Typed, NEW t, chunks'[t] = NewChunks, content' = content, task'[t].total = Chunked(t)
  PROVE  /\ Sliced(t)' /\ NewChunks \in SUBSET Chunk
         /\ \A c \in NewChunks : c.st = "PENDING"
         /\ Chunked(t) \in Nat
         /\ Chunked(t) # 0 <=> NewChunks # {}
<1>1. content.source \in Nat /\ content.target \in Nat
  BY DEF Typed
<1> DEFINE new(s, i) == [side |-> s, i |-> i, st |-> "PENDING", tries |-> 0]
<1>2. \A s, i : new(s, i).side = s /\ new(s, i).i = i /\ new(s, i).st = "PENDING"
  OBVIOUS
<1>3. \A s \in Sides : \A i \in 1..Size(s) : new(s, i) \in Chunk
  BY <1>1 DEF Chunk, Size, Sides
<1>4. NewChunks = {new("source", i) : i \in 1..content.source} \cup {new("target", i) : i \in 1..content.target}
  BY DEF NewChunks
<1> HIDE DEF new
<1>5. \A c : c \in NewChunks <=> \E s \in Sides : \E i \in 1..Size(s) : c = new(s, i)
  BY <1>4 DEF Size, Sides
<1>6. \A c \in NewChunks : \E s \in Sides : \E i \in 1..Size(s) : c = new(s, i) /\ c.side = s /\ c.i = i
  BY <1>2, <1>5
<1>7. NewChunks \in SUBSET Chunk /\ \A c \in NewChunks : c.st = "PENDING"
  BY <1>2, <1>3, <1>5
<1>8. \A s \in Sides : \A i \in 1..Size(s) : \E c \in NewChunks : c.side = s /\ c.i = i
  BY <1>2, <1>5
<1>9. \A c, d \in NewChunks : Twins(c, d) => c = d
  BY <1>6 DEF Twins
<1>10. \A s : Size(s)' = Size(s)
  BY DEF Size
<1>11. Sliced(t)'
  BY <1>6, <1>8, <1>9, <1>10 DEF Sliced, Chunked
<1>12. Chunked(t) \in Nat /\ (Chunked(t) # 0 <=> content.source # 0 \/ content.target # 0)
  BY <1>1 DEF Chunked
<1>13. content.source # 0 => 1 \in 1..Size("source") /\ "source" \in Sides
  BY <1>1 DEF Size, Sides
<1>14. content.target # 0 => 1 \in 1..Size("target") /\ "target" \in Sides
  BY <1>1 DEF Size, Sides
<1>15. content.source = 0 /\ content.target = 0 => \A s \in Sides : 1..Size(s) = {}
  BY DEF Size, Sides
<1>16. Chunked(t) # 0 <=> NewChunks # {}
  BY <1>5, <1>12, <1>13, <1>14, <1>15
<1> QED BY <1>7, <1>11, <1>12, <1>16

LEMMA ThreadInsertsStep == ASSUME CompareIInv, NEW h \in threads, ThreadInserts(h) PROVE CompareIInv'
<1>1. h.do = "insert" /\ UNCHANGED <<content, worker, lost, verifyVars, submitting>>
  BY DEF ThreadInserts
<1>2. /\ h.task \in TaskIds /\ h \in Thread /\ chunks[h.task] = {} /\ Typed
      /\ task[h.task].st \in {"CHUNKING", "gone"}
  BY <1>1, ThreadAtWork DEF CompareIInv, Before
<1>3. CASE task[h.task].st = "gone"
  <2>1. threads' = threads \ {h} /\ chunks' = chunks /\ task' = task
    BY <1>3 DEF ThreadInserts, Exists
  <2>2. task \in [TaskIds -> TaskRow]
    BY <1>2 DEF Typed
  <2> QED BY <1>1, <1>3, <2>1, <2>2, ThreadEnds
<1>4. CASE task[h.task].st = "CHUNKING"
  <2>0. PICK t \in TaskIds : t = h.task
    BY <1>2
  <2> DEFINE new == [h EXCEPT !.do = "decide"]
             G == IF Chunked(t) = 0 THEN {new} ELSE {}
  <2>1. /\ chunks' = [chunks EXCEPT ![t] = NewChunks] /\ threads' = (threads \ {h}) \cup G
        /\ task' = [task EXCEPT ![t].st = "RUNNING", ![t].total = Chunked(t)]
    BY <1>4, <2>0 DEF ThreadInserts, Exists
  <2>2. chunks'[t] = NewChunks /\ \A u \in TaskIds : u # t => chunks'[u] = chunks[u]
    BY <1>2, <2>1 DEF Typed
  <2>3. Chunked(t) \in Nat
    BY <1>2 DEF Typed, Chunked
  <2>4. /\ task' \in [TaskIds -> TaskRow] /\ task'[t].st = "RUNNING" /\ task'[t].total = Chunked(t)
        /\ \A u \in TaskIds : u # t => task'[u] = task[u]
    <3>1. task[t] \in TaskRow /\ task \in [TaskIds -> TaskRow]
      BY <1>2 DEF Typed
    <3>2. task' = [task EXCEPT ![t] = [task[t] EXCEPT !.st = "RUNNING", !.total = Chunked(t)]]
      BY <2>1, <3>1
    <3>3. [task[t] EXCEPT !.st = "RUNNING", !.total = Chunked(t)] \in TaskRow
      BY <2>3, <3>1 DEF TaskRow, Unfinished
    <3> QED BY <3>1, <3>2, <3>3 DEF TaskRow
  <2>5. /\ Sliced(t)' /\ NewChunks \in SUBSET Chunk
        /\ \A c \in NewChunks : c.st = "PENDING"
        /\ Chunked(t) # 0 <=> NewChunks # {}
    BY <1>1, <1>2, <2>2, <2>4, NewChunksAreSliced
  <2>6. chunks' \in [TaskIds -> SUBSET Chunk]
    BY <1>2, <2>1, <2>5 DEF Typed
  <2>7. new \in Thread /\ new.task = t /\ new.do = "decide"
    BY <1>2, <2>0 DEF Thread
  <2> HIDE DEF new
  <2>8. /\ G \in SUBSET Thread /\ (\A f, g \in G : f = g)
        /\ \A g \in G : g.task = t /\ g.do = "decide"
        /\ G = {} <=> Chunked(t) # 0
    BY <2>7
  <2> HIDE DEF G
  <2>9. "RUNNING" \in Before("decide")
    BY DEF Before
  <2>10. \A g \in G : /\ task'[t].st \in Before(g.do) \cup {"gone"}
                      /\ g.do = "decide" /\ task'[t].st # "gone" => Sliced(t)'
                      /\ g.do \in {"last_n", "query"} => h.do \in {"last_n", "query"}
    BY <2>4, <2>5, <2>8, <2>9
  <2>11. chunks'[t] # {} => /\ task'[t].st = "RUNNING" /\ Sliced(t)' /\ G = {}
                            /\ \A c \in chunks'[t] : c.st = "PENDING"
    BY <2>2, <2>4, <2>5, <2>8
  <2>12. /\ task'[t].st \in Unfinished => G # {} \/ chunks'[t] # {}
         /\ task'[t].st \notin {"none", "gone", "DONE"}
         /\ task[t].st # "gone"
    BY <1>4, <2>0, <2>2, <2>4, <2>5, <2>8
  <2>13. Moves(h, t, G)
    BY <1>1, <2>0, <2>1, <2>2, <2>4, <2>5, <2>6, <2>8, <2>10, <2>11, <2>12 DEF Moves
  <2> QED BY <2>13, ThreadMoves
<1> QED BY <1>2, <1>3, <1>4

(* A worker takes a chunk up or puts it down: the chunk c becomes d, and    *)
(* the worker goes on with x.                                               *)
ChunkMoves(w, t, c, d, x) ==
  /\ c \in chunks[t] /\ d \in Chunk /\ Twins(c, d)
  /\ chunks' = [chunks EXCEPT ![t] = (@ \ {c}) \cup {d}]
  /\ worker' = [worker EXCEPT ![w] = x] /\ x \in {Free} \cup Counting \cup Deciding
  /\ UNCHANGED <<content, threads, lost, verifyVars, submitting>>
  /\ task' \in [TaskIds -> TaskRow] /\ task'[t].st = task[t].st /\ task'[t].total = task[t].total
  /\ \A u \in TaskIds : u # t => task'[u] = task[u]
  /\ \/ worker[w] = Free /\ c.st = "PENDING"
     \/ At(w, "count", t) /\ worker[w].chunk = c /\ c.st = "CLAIMED"
  /\ d.st = "CLAIMED" <=> x.do = "count"
  /\ x.do = "count" => x.chunk = d
  /\ x.do # "idle" => x.task = t
  /\ x.do # "idle" \/ d.st \in {"PENDING", "FAILED"}

LEMMA WorkerMoves ==
  ASSUME CompareIInv, NEW w \in Workers, NEW t \in TaskIds, NEW c, NEW d, NEW x, ChunkMoves(w, t, c, d, x)
  PROVE  CompareIInv'
<1> USE DEF CompareIInv
<1>1. /\ chunks[t] # {} /\ c.st \in {"PENDING", "CLAIMED"} /\ c \in chunks[t]
      /\ d \in Chunk /\ Twins(c, d) /\ x \in {Free} \cup Counting \cup Deciding
      /\ UNCHANGED <<content, threads, lost, verifyVars, submitting>>
      /\ task' \in [TaskIds -> TaskRow] /\ task'[t].st = task[t].st /\ task'[t].total = task[t].total
      /\ \A u \in TaskIds : u # t => task'[u] = task[u]
  BY DEF ChunkMoves
<1>2. Sliced(t) /\ task[t].st = "RUNNING"
  BY <1>1 DEF ChunksOK
<1>3. /\ Sliced(t)' /\ chunks' \in [TaskIds -> SUBSET Chunk]
      /\ \A e \in Chunk : e \in chunks'[t] <=> e = d \/ (e \in chunks[t] /\ e # c)
      /\ \A u \in TaskIds : u # t => chunks'[u] = chunks[u]
  BY <1>1, <1>2, ReplacedChunk DEF ChunkMoves
<1>4. \A u \in TaskIds : u # t => (Sliced(u)' <=> Sliced(u))
  BY <1>1, <1>3, SlicedKept
<1>5. worker' \in [Workers -> {Free} \cup Counting \cup Deciding] /\ worker'[w] = x
      /\ \A v \in Workers : v # w => worker'[v] = worker[v]
  BY <1>1 DEF ChunkMoves, Typed
<1>6. \A h \in threads : h.task # t
  BY <1>1 DEF ThreadsOK
<1>7. creator.task # t
  BY <1>1 DEF CreatorOK
<1>8. chunks[t] \subseteq Chunk /\ chunks'[t] \subseteq Chunk /\ d \in chunks'[t]
  BY <1>1, <1>3 DEF Typed
<1>9. \A e \in chunks[t] : Twins(e, d) => e = c
  BY <1>1, <1>2 DEF Sliced, Twins
<1>10. /\ \A v \in Workers : \A do, u : v # w => (At(v, do, u)' <=> At(v, do, u))
       /\ \A do \in {"count", "decide"} : \A u \in TaskIds : u # t => ~At(w, do, u) /\ ~At(w, do, u)'
       /\ At(w, "count", t)' <=> x.do = "count"
       /\ At(w, "decide", t)' <=> x.do = "decide"
       /\ At(w, "count", t) => worker[w].chunk = c
  BY <1>5 DEF ChunkMoves, At, Free
<1>11. \A v \in Workers : v # w /\ At(v, "count", t) => /\ worker[v].chunk \in chunks[t]
                                                        /\ worker[v].chunk.st = "CLAIMED"
                                                        /\ worker[v].chunk # c
  BY <1>2 DEF ChunkMoves, WorkersOK
<1>12. Typed'
  BY <1>1, <1>3, <1>5 DEF Typed, verifyVars
<1>13. ChunksOK'
  BY <1>1, <1>2, <1>3, <1>4 DEF ChunksOK
<1>14. ThreadsOK' /\ OneThread'
  BY <1>1, <1>3, <1>4, <1>6 DEF ThreadsOK, OneThread
<1>15. CreatorOK'
  BY <1>1, <1>3, <1>7 DEF CreatorOK, verifyVars
<1>16. VerifiesInFull'
  BY <1>1, <1>2, <1>3, <1>4 DEF VerifiesInFull, InFull, verifyVars
<1>17. WorkersOK'
  <2>1. \A v \in Workers : At(v, "count", t)' => /\ worker'[v].chunk.st = "CLAIMED"
                                                 /\ worker'[v].chunk \in chunks'[t]
    <3> SUFFICES ASSUME NEW v \in Workers, At(v, "count", t)'
                 PROVE  worker'[v].chunk.st = "CLAIMED" /\ worker'[v].chunk \in chunks'[t]
      OBVIOUS
    <3>1. CASE v = w
      BY <1>5, <1>8, <1>10, <3>1 DEF ChunkMoves
    <3>2. CASE v # w
      BY <1>3, <1>5, <1>8, <1>10, <1>11, <3>2
    <3> QED BY <3>1, <3>2
  <2>2. \A v \in Workers : v # w /\ At(v, "count", t) /\ x.do = "count" => worker[v].chunk # x.chunk
    BY <1>9, <1>11 DEF ChunkMoves, Twins
  <2>3. \A u, v \in Workers : u # v /\ At(u, "count", t)' /\ At(v, "count", t)'
                               => worker'[u].chunk # worker'[v].chunk
    <3> SUFFICES ASSUME NEW u \in Workers, NEW v \in Workers, u # v, At(u, "count", t)', At(v, "count", t)'
                 PROVE  worker'[u].chunk # worker'[v].chunk
      OBVIOUS
    <3>1. CASE u = w
      BY <1>5, <1>10, <2>2, <3>1
    <3>2. CASE v = w
      BY <1>5, <1>10, <2>2, <3>2
    <3>3. CASE u # w /\ v # w
      BY <1>2, <1>5, <1>10, <3>3 DEF WorkersOK
    <3> QED BY <3>1, <3>2, <3>3
  <2>4. \A u \in TaskIds : u # t =>
          \A v \in Workers :
            /\ At(v, "count", u)' => /\ worker'[v].chunk.st = "CLAIMED"
                                     /\ worker'[v].chunk \in chunks'[u] \/ task'[u].st = "gone"
            /\ At(v, "decide", u)' => chunks'[u] # {} \/ task'[u].st = "gone"
            /\ \A z \in Workers : z # v /\ At(z, "count", u)' /\ At(v, "count", u)'
                                   => worker'[z].chunk # worker'[v].chunk \/ task'[u].st = "gone"
    BY <1>1, <1>3, <1>5, <1>10 DEF WorkersOK
  <2>5. chunks'[t] # {}
    BY <1>8
  <2>6. \A u \in TaskIds : \A v \in Workers :
          /\ At(v, "count", u)' => /\ worker'[v].chunk.st = "CLAIMED"
                                   /\ worker'[v].chunk \in chunks'[u] \/ task'[u].st = "gone"
          /\ At(v, "decide", u)' => chunks'[u] # {} \/ task'[u].st = "gone"
          /\ \A z \in Workers : z # v /\ At(z, "count", u)' /\ At(v, "count", u)'
                                 => worker'[z].chunk # worker'[v].chunk \/ task'[u].st = "gone"
    BY <2>1, <2>3, <2>4, <2>5
  <2> QED BY <2>6 DEF WorkersOK
<1>18. ClaimedIsHeld'
  <2> SUFFICES ASSUME NEW u \in TaskIds, NEW e \in chunks'[u], e.st = "CLAIMED"
               PROVE  u \in lost \/ \E v \in Workers : At(v, "count", u)' /\ worker'[v].chunk = e
    BY <1>1 DEF ClaimedIsHeld
  <2>1. CASE u = t /\ e = d
    BY <1>5, <1>10, <2>1 DEF ChunkMoves
  <2>2. CASE u = t /\ e # d
    <3>1. e \in chunks[t] /\ e # c
      BY <1>3, <1>8, <2>2
    <3>2. CASE t \in lost
      BY <2>2, <3>2
    <3>3. CASE \E v \in Workers : At(v, "count", t) /\ worker[v].chunk = e
      BY <1>5, <1>10, <2>2, <3>1, <3>3
    <3> QED BY <3>1, <3>2, <3>3 DEF ClaimedIsHeld
  <2>3. CASE u # t
    BY <1>3, <1>5, <1>10, <2>3 DEF ClaimedIsHeld
  <2> QED BY <2>1, <2>2, <2>3
<1>19. VerdictIsTrue'
  BY <1>1, <1>2, <1>3, ContentKept DEF VerdictIsTrue, verifyVars
<1>20. NeverStranded'
  <2> SUFFICES ASSUME NEW u \in TaskIds, task'[u].st \in Unfinished
               PROVE  InHand(u)' \/ u \in lost \/ Having(u, "FAILED")' # {}
    BY <1>1 DEF NeverStranded
  <2>1. CASE u = t /\ x.do # "idle"
    BY <1>5, <2>1 DEF ChunkMoves, InHand, Free
  <2>2. CASE u = t /\ d.st = "PENDING"
    BY <1>8, <2>2 DEF InHand, Having
  <2>3. CASE u = t /\ d.st = "FAILED"
    BY <1>8, <2>3 DEF Having
  <2>4. CASE u # t
    <3>1. worker[w] = Free \/ worker[w].task = t
      BY DEF ChunkMoves, At
    <3> QED BY <1>1, <1>3, <1>5, <2>4, <3>1 DEF NeverStranded, InHand, Having, verifyVars
  <2> QED BY <2>1, <2>2, <2>3, <2>4 DEF ChunkMoves
<1> QED BY <1>12, <1>13, <1>14, <1>15, <1>16, <1>17, <1>18, <1>19, <1>20

(* A worker is done with its task, or lost: the chunks stay as they are.    *)
Leaves(w, t) ==
  /\ worker' = [worker EXCEPT ![w] = Free]
  /\ UNCHANGED <<content, chunks, threads, verifyVars, submitting>>
  /\ lost' \in {lost, lost \cup {t}}
  /\ task' \in [TaskIds -> TaskRow] /\ task'[t].total = task[t].total
  /\ \A u \in TaskIds : u # t => task'[u] = task[u]
  /\ task'[t] # task[t] => /\ task[t].st = "RUNNING" /\ chunks[t] # {}
                           /\ task'[t].st \in {"RUNNING", "DONE", "FAILED"}
  /\ chunks[t] # {} /\ task'[t].st = "DONE" => /\ \A c \in chunks[t] : c.st = "DONE"
                                               /\ task'[t].verdict = "same" <=> Same
                                               /\ task'[t].done = task'[t].total
  /\ chunks[t] # {} /\ task'[t].st = "FAILED" => \A c \in chunks[t] : c.st \in {"DONE", "FAILED"}
  /\ task'[t].st \in Unfinished => t \in lost' \/ \E c \in chunks[t] : c.st \in {"PENDING", "CLAIMED"}
  /\ At(w, "count", t) => t \in lost' \/ task[t].st = "gone"

LEMMA WorkerLeaves ==
  ASSUME CompareIInv, NEW w \in Workers, NEW t \in TaskIds, worker[w] # Free, worker[w].task = t, Leaves(w, t)
  PROVE  CompareIInv'
<1> USE DEF CompareIInv
<1>1. /\ UNCHANGED <<content, chunks, threads, verifyVars, submitting>>
      /\ lost' \in {lost, lost \cup {t}}
      /\ task' \in [TaskIds -> TaskRow] /\ task'[t].total = task[t].total
      /\ \A u \in TaskIds : u # t => task'[u] = task[u]
  BY DEF Leaves
<1>2. \/ task'[t] = task[t]
      \/ task[t].st = "RUNNING" /\ chunks[t] # {} /\ task'[t].st \in {"RUNNING", "DONE", "FAILED"}
  BY DEF Leaves
<1>3. \A u \in TaskIds : Sliced(u)' <=> Sliced(u)
  BY <1>1, SlicedKept
<1>4. worker' \in [Workers -> {Free} \cup Counting \cup Deciding] /\ worker'[w] = Free
      /\ \A v \in Workers : v # w => worker'[v] = worker[v]
  BY DEF Leaves, Typed
<1>5. /\ \A v \in Workers : \A do, u : v # w => (At(v, do, u)' <=> At(v, do, u))
      /\ \A do \in {"count", "decide"} : \A u : ~At(w, do, u)'
      /\ \A do : \A u \in TaskIds : u # t => ~At(w, do, u)
  BY <1>4 DEF At, Free
<1>6. Typed'
  BY <1>1, <1>4 DEF Typed, verifyVars
<1>7. ChunksOK'
  BY <1>1, <1>2, <1>3 DEF ChunksOK, Leaves
<1>8. ThreadsOK' /\ OneThread'
  BY <1>1, <1>2, <1>3 DEF ThreadsOK, OneThread
<1>9. CreatorOK'
  BY <1>1, <1>2 DEF CreatorOK, verifyVars
<1>10. VerifiesInFull'
  <2> SUFFICES ASSUME NEW u \in TaskIds, u = mig.task \/ u = creator.task \/ u \in tick
               PROVE  /\ task'[u].st # "none"
                      /\ \A h \in threads : h.task = u => h.do \notin {"last_n", "query"}
                      /\ task'[u].st = "RUNNING" => Sliced(u)'
    BY <1>1 DEF VerifiesInFull, InFull, verifyVars
  <2>1. InFull(u)
    BY DEF VerifiesInFull
  <2>2. CASE task'[u] = task[u]
    BY <1>3, <2>1, <2>2 DEF InFull
  <2>3. CASE task'[u] # task[u]
    BY <1>1, <1>2, <1>3, <2>1, <2>3 DEF InFull, ChunksOK
  <2> QED BY <2>2, <2>3
<1>11. WorkersOK'
  BY <1>1, <1>2, <1>4, <1>5 DEF WorkersOK
<1>12. ClaimedIsHeld'
  <2> SUFFICES ASSUME NEW u \in TaskIds, NEW c \in chunks[u], c.st = "CLAIMED"
               PROVE  u \in lost' \/ \E v \in Workers : At(v, "count", u)' /\ worker'[v].chunk = c
    BY <1>1 DEF ClaimedIsHeld
  <2>1. CASE u \in lost
    BY <1>1, <2>1
  <2>2. CASE \E v \in Workers : At(v, "count", u) /\ worker[v].chunk = c
    <3>1. PICK v \in Workers : At(v, "count", u) /\ worker[v].chunk = c
      BY <2>2
    <3>2. CASE v = w
      BY <1>5, <3>1, <3>2 DEF Leaves, ChunksOK
    <3>3. CASE v # w
      BY <1>4, <1>5, <3>1, <3>3
    <3> QED BY <3>2, <3>3
  <2> QED BY <2>1, <2>2 DEF ClaimedIsHeld
<1>13. VerdictIsTrue'
  BY <1>1, <1>2, ContentKept DEF VerdictIsTrue, Leaves, verifyVars
<1>14. NeverStranded'
  <2> SUFFICES ASSUME NEW u \in TaskIds, task'[u].st \in Unfinished
               PROVE  InHand(u)' \/ u \in lost' \/ Having(u, "FAILED")' # {}
    BY DEF NeverStranded
  <2>1. ASSUME u = t, t \notin lost'
        PROVE  InHand(u)'
    <3>1. PICK c \in chunks[t] : c.st \in {"PENDING", "CLAIMED"}
      BY <2>1 DEF Leaves
    <3>2. CASE c.st = "PENDING"
      BY <1>1, <2>1, <3>2 DEF InHand, Having
    <3>3. CASE c.st = "CLAIMED"
      <4>1. PICK v \in Workers : At(v, "count", t)' /\ worker'[v].chunk = c
        BY <1>1, <1>12, <2>1, <3>3 DEF ClaimedIsHeld
      <4>2. worker'[v] # Free /\ worker'[v].task = t
        BY <4>1 DEF At, Free
      <4> QED BY <2>1, <4>2 DEF InHand
    <3> QED BY <3>1, <3>2, <3>3
  <2>2. CASE u # t
    BY <1>1, <1>4, <2>2 DEF NeverStranded, InHand, Having, verifyVars
  <2> QED BY <2>1, <2>2
<1> QED BY <1>6, <1>7, <1>8, <1>9, <1>10, <1>11, <1>12, <1>13, <1>14

(* The shape of a worker at work.                                           *)
LEMMA WorkerAtWork ==
  ASSUME CompareIInv, NEW w \in Workers
  PROVE  /\ Typed
         /\ worker[w] # Free => worker[w].task \in TaskIds
         /\ worker[w].do \in {"count", "decide"} => worker[w] # Free
         /\ worker[w].do = "count" => worker[w].chunk \in Chunk
<1>1. Typed /\ (worker[w] = Free \/ worker[w] \in Counting \/ worker[w] \in Deciding)
  BY DEF CompareIInv, Typed
<1>2. CASE worker[w] = Free
  BY <1>1, <1>2 DEF Free
<1>3. CASE worker[w] \in Counting
  BY <1>1, <1>3 DEF Free, Counting
<1>4. CASE worker[w] \in Deciding
  BY <1>1, <1>4 DEF Free, Deciding
<1> QED BY <1>1, <1>2, <1>3, <1>4

LEMMA ClaimStep == ASSUME CompareIInv, NEW w \in Workers, ClaimCompareChunk(w) PROVE CompareIInv'
<1>1. PICK t \in TaskIds : \E c \in Having(t, "PENDING") :
         /\ chunks' = Become(t, c, "CLAIMED")
         /\ worker' = [worker EXCEPT ![w] = [do |-> "count", task |-> t, chunk |-> [c EXCEPT !.st = "CLAIMED"]]]
  BY DEF ClaimCompareChunk
<1>2. PICK c \in Having(t, "PENDING") :
         /\ chunks' = Become(t, c, "CLAIMED")
         /\ worker' = [worker EXCEPT ![w] = [do |-> "count", task |-> t, chunk |-> [c EXCEPT !.st = "CLAIMED"]]]
  BY <1>1
<1>3. PICK d : d = [c EXCEPT !.st = "CLAIMED"]
  OBVIOUS
<1>4. PICK x : x = [do |-> "count", task |-> t, chunk |-> d]
  OBVIOUS
<1>5. c \in chunks[t] /\ c.st = "PENDING" /\ c \in Chunk /\ task \in [TaskIds -> TaskRow]
  BY DEF CompareIInv, Typed, Having
<1>6. d \in Chunk /\ d.st = "CLAIMED" /\ Twins(c, d)
  BY <1>3, <1>5 DEF Chunk, Twins
<1>7. x \in Counting /\ x.do = "count" /\ x.task = t /\ x.chunk = d
  BY <1>4, <1>6 DEF Counting
<1>8. chunks' = [chunks EXCEPT ![t] = (@ \ {c}) \cup {d}] /\ worker' = [worker EXCEPT ![w] = x]
  BY <1>2, <1>3, <1>4 DEF Become
<1>9. ChunkMoves(w, t, c, d, x)
  BY <1>5, <1>6, <1>7, <1>8 DEF ChunkMoves, ClaimCompareChunk
<1> QED BY <1>9, WorkerMoves

(* A worker whose task was deleted finds no chunk to complete or to fail.   *)
LEMMA ChunkIsThere ==
  ASSUME CompareIInv, NEW w \in Workers, worker[w].do = "count"
  PROVE  \/ /\ worker[w].chunk \in chunks[worker[w].task] /\ worker[w].chunk.st = "CLAIMED"
            /\ task[worker[w].task].st = "RUNNING"
         \/ /\ worker[w].chunk \notin chunks[worker[w].task] /\ task[worker[w].task].st = "gone"
            /\ chunks[worker[w].task] = {}
<1>1. worker[w].task \in TaskIds
  BY WorkerAtWork
<1>2. PICK t \in TaskIds : t = worker[w].task
  BY <1>1
<1>3. At(w, "count", t)
  BY <1>2 DEF At
<1>4. worker[w].chunk.st = "CLAIMED" /\ (worker[w].chunk \in chunks[t] \/ task[t].st = "gone")
  BY <1>3 DEF CompareIInv, WorkersOK
<1>5. CASE worker[w].chunk \in chunks[t]
  BY <1>2, <1>4, <1>5 DEF CompareIInv, ChunksOK
<1>6. CASE worker[w].chunk \notin chunks[t]
  BY <1>2, <1>4, <1>6 DEF CompareIInv, ChunksOK
<1> QED BY <1>5, <1>6

LEMMA GoneStep ==
  ASSUME CompareIInv, NEW w \in Workers, worker[w].do = "count", task[worker[w].task].st = "gone",
         worker' = [worker EXCEPT ![w] = Free], UNCHANGED <<content, task, chunks, threads, lost, verifyVars, submitting>>
  PROVE  CompareIInv'
<1>1. worker[w] # Free /\ worker[w].task \in TaskIds /\ task \in [TaskIds -> TaskRow]
  BY WorkerAtWork DEF Typed
<1>2. PICK t \in TaskIds : t = worker[w].task
  BY <1>1
<1>3. chunks[t] = {} /\ task[t].st = "gone"
  BY <1>2 DEF CompareIInv, ChunksOK
<1>4. Leaves(w, t)
  BY <1>1, <1>3 DEF Leaves, Unfinished
<1> QED BY <1>1, <1>2, <1>4, WorkerLeaves

LEMMA CompleteStep == ASSUME CompareIInv, NEW w \in Workers, CompleteCompareChunk(w) PROVE CompareIInv'
<1>1. worker[w].do = "count" /\ worker[w].task \in TaskIds /\ worker[w].chunk \in Chunk
      /\ UNCHANGED <<content, threads, lost, verifyVars, submitting>> /\ task \in [TaskIds -> TaskRow]
  BY WorkerAtWork DEF CompleteCompareChunk, Typed
<1>2. PICK t \in TaskIds : t = worker[w].task
  BY <1>1
<1>3. PICK c : c = worker[w].chunk
  OBVIOUS
<1>4. CASE c \in chunks[t]
  <2>1. PICK d : d = [c EXCEPT !.st = "DONE"]
    OBVIOUS
  <2>2. PICK x : x = [do |-> "decide", task |-> t]
    OBVIOUS
  <2>3. c.st = "CLAIMED" /\ c \in Chunk /\ At(w, "count", t)
    BY <1>1, <1>2, <1>3, <1>4, ChunkIsThere DEF At
  <2>4. d \in Chunk /\ d.st = "DONE" /\ Twins(c, d)
    BY <2>1, <2>3 DEF Chunk, Twins
  <2>5. x \in Deciding /\ x.do = "decide" /\ x.task = t
    BY <2>2 DEF Deciding
  <2>6. /\ chunks' = [chunks EXCEPT ![t] = (@ \ {c}) \cup {d}] /\ worker' = [worker EXCEPT ![w] = x]
        /\ task' = [task EXCEPT ![t].done = @ + 1]
    BY <1>2, <1>3, <1>4, <2>1, <2>2 DEF CompleteCompareChunk, Become
  <2>7. /\ task' \in [TaskIds -> TaskRow] /\ task'[t].st = task[t].st /\ task'[t].total = task[t].total
        /\ \A u \in TaskIds : u # t => task'[u] = task[u]
    <3>1. task[t] \in TaskRow
      BY <1>1
    <3>2. task[t].done + 1 \in Nat
      BY <3>1 DEF TaskRow
    <3>3. [task[t] EXCEPT !.done = @ + 1] \in TaskRow
      BY <3>1, <3>2 DEF TaskRow
    <3>4. task' = [task EXCEPT ![t] = [task[t] EXCEPT !.done = @ + 1]]
      BY <1>1, <2>6
    <3> QED BY <1>1, <3>1, <3>3, <3>4 DEF TaskRow
  <2>8. ChunkMoves(w, t, c, d, x)
    BY <1>1, <1>3, <1>4, <2>3, <2>4, <2>5, <2>6, <2>7 DEF ChunkMoves
  <2> QED BY <2>8, WorkerMoves
<1>5. CASE c \notin chunks[t]
  <2>1. task[worker[w].task].st = "gone"
    BY <1>1, <1>2, <1>3, <1>5, ChunkIsThere
  <2>2. worker' = [worker EXCEPT ![w] = Free] /\ chunks' = chunks /\ task' = task
    BY <1>2, <1>3, <1>5 DEF CompleteCompareChunk
  <2> QED BY <1>1, <2>1, <2>2, GoneStep
<1> QED BY <1>4, <1>5

LEMMA FailStep == ASSUME CompareIInv, NEW w \in Workers, FailCompareChunk(w) PROVE CompareIInv'
<1>1. /\ worker[w].do = "count" /\ worker[w].task \in TaskIds /\ worker[w].chunk \in Chunk
      /\ worker' = [worker EXCEPT ![w] = Free]
      /\ UNCHANGED <<content, task, threads, lost, verifyVars, submitting>> /\ task \in [TaskIds -> TaskRow]
  BY WorkerAtWork DEF FailCompareChunk, Typed
<1>2. PICK t \in TaskIds : t = worker[w].task
  BY <1>1
<1>3. PICK c : c = worker[w].chunk
  OBVIOUS
<1>4. CASE c \in chunks[t]
  <2>1. PICK d : d = AfterError(c)
    OBVIOUS
  <2>2. c.st = "CLAIMED" /\ c \in Chunk /\ At(w, "count", t)
    BY <1>1, <1>2, <1>3, <1>4, ChunkIsThere DEF At
  <2>3. d \in Chunk /\ d.st \in {"PENDING", "FAILED"} /\ Twins(c, d)
    <3>1. CASE c.tries < MaxRetries
      <4>1. c.tries + 1 \in 0..MaxRetries
        BY <2>2, <3>1 DEF Chunk
      <4>2. d = [c EXCEPT !.st = "PENDING", !.tries = c.tries + 1]
        BY <2>1, <2>2, <3>1 DEF AfterError, Chunk
      <4> QED BY <2>2, <4>1, <4>2 DEF Chunk, Twins
    <3>2. CASE ~(c.tries < MaxRetries)
      <4>1. d = [c EXCEPT !.st = "FAILED"]
        BY <2>1, <3>2 DEF AfterError
      <4> QED BY <2>2, <4>1 DEF Chunk, Twins
    <3> QED BY <3>1, <3>2
  <2>4. chunks' = [chunks EXCEPT ![t] = (@ \ {c}) \cup {d}]
    BY <1>2, <1>3, <1>4, <2>1 DEF FailCompareChunk
  <2>5. Free.do = "idle"
    BY DEF Free
  <2>6. ChunkMoves(w, t, c, d, Free)
    BY <1>1, <1>3, <1>4, <2>2, <2>3, <2>4, <2>5 DEF ChunkMoves
  <2> QED BY <2>6, WorkerMoves
<1>5. CASE c \notin chunks[t]
  <2>1. task[worker[w].task].st = "gone"
    BY <1>1, <1>2, <1>3, <1>5, ChunkIsThere
  <2>2. chunks' = chunks
    BY <1>2, <1>3, <1>5 DEF FailCompareChunk
  <2> QED BY <1>1, <2>1, <2>2, GoneStep
<1> QED BY <1>4, <1>5

LEMMA WorkerDecidesStep == ASSUME CompareIInv, NEW w \in Workers, WorkerDecides(w) PROVE CompareIInv'
<1>1. /\ worker[w].do = "decide" /\ worker[w].task \in TaskIds /\ worker[w] # Free
      /\ worker' = [worker EXCEPT ![w] = Free] /\ task' = [task EXCEPT ![worker[w].task] = Decided(worker[w].task)]
      /\ UNCHANGED <<content, chunks, threads, lost, verifyVars, submitting>> /\ Typed
  BY WorkerAtWork DEF WorkerDecides
<1>2. PICK t \in TaskIds : t = worker[w].task
  BY <1>1
<1>3. At(w, "decide", t) /\ ~At(w, "count", t)
  BY <1>1, <1>2 DEF At
<1>4. chunks[t] # {} \/ task[t].st = "gone"
  BY <1>3 DEF CompareIInv, WorkersOK
<1>5. task \in [TaskIds -> TaskRow] /\ task' = [task EXCEPT ![t] = Decided(t)]
  BY <1>1, <1>2 DEF Typed
<1>6. CASE task[t].st = "RUNNING"
  <2>1. chunks[t] # {} /\ Sliced(t)
    BY <1>4, <1>6 DEF CompareIInv, ChunksOK
  <2>2. /\ Decided(t) \in TaskRow
        /\ Decided(t).total = task[t].total
        /\ Decided(t).st \in {"RUNNING", "DONE", "FAILED"}
        /\ Decided(t).st = "RUNNING" => \E c \in chunks[t] : c.st \in {"PENDING", "CLAIMED"}
        /\ Decided(t).st # "RUNNING" => \A c \in chunks[t] : c.st \in {"DONE", "FAILED"}
        /\ Decided(t).st = "DONE" => /\ \A c \in chunks[t] : c.st = "DONE"
                                     /\ Decided(t).verdict = "same" <=> Same
                                     /\ Decided(t).done = Decided(t).total
    BY <1>1, <1>6, <2>1, DecisionIsTrue
  <2>3. /\ task' \in [TaskIds -> TaskRow] /\ task'[t] = Decided(t)
        /\ \A u \in TaskIds : u # t => task'[u] = task[u]
    BY <1>5, <2>2
  <2>4. task'[t].st \in Unfinished => task'[t].st = "RUNNING"
    BY <2>2, <2>3 DEF Unfinished
  <2>5. Leaves(w, t)
    BY <1>1, <1>3, <1>6, <2>1, <2>2, <2>3, <2>4 DEF Leaves
  <2> QED BY <1>1, <1>2, <2>5, WorkerLeaves
<1>7. CASE task[t].st # "RUNNING"
  <2>1. task' = task
    BY <1>5, <1>7 DEF Decided
  <2>2. chunks[t] # {} => task[t].st \in {"DONE", "FAILED"}
    BY <1>7 DEF CompareIInv, ChunksOK
  <2>3. /\ chunks[t] # {} /\ task[t].st = "DONE" => /\ \A c \in chunks[t] : c.st = "DONE"
                                                    /\ task[t].verdict = "same" <=> Same
                                                    /\ task[t].done = task[t].total
        /\ chunks[t] # {} /\ task[t].st = "FAILED" => \A c \in chunks[t] : c.st \in {"DONE", "FAILED"}
    BY DEF CompareIInv, ChunksOK, VerdictIsTrue
  <2>4. task[t].st \notin Unfinished
    BY <1>4, <2>2 DEF Unfinished
  <2>5. Leaves(w, t)
    BY <1>1, <1>3, <1>5, <2>1, <2>3, <2>4 DEF Leaves
  <2> QED BY <1>1, <1>2, <2>5, WorkerLeaves
<1> QED BY <1>6, <1>7

LEMMA WorkerDiesStep == ASSUME CompareIInv, NEW w \in Workers, WorkerDies(w) PROVE CompareIInv'
<1>1. /\ worker[w] # Free /\ worker[w].task \in TaskIds
      /\ worker' = [worker EXCEPT ![w] = Free] /\ lost' = lost \cup {worker[w].task}
      /\ UNCHANGED <<content, task, chunks, threads, verifyVars, submitting>> /\ task \in [TaskIds -> TaskRow]
  BY WorkerAtWork DEF WorkerDies, Typed
<1>2. PICK t \in TaskIds : t = worker[w].task
  BY <1>1
<1>3. /\ chunks[t] # {} /\ task[t].st = "DONE" => /\ \A c \in chunks[t] : c.st = "DONE"
                                                  /\ task[t].verdict = "same" <=> Same
                                                  /\ task[t].done = task[t].total
      /\ chunks[t] # {} /\ task[t].st = "FAILED" => \A c \in chunks[t] : c.st \in {"DONE", "FAILED"}
  BY DEF CompareIInv, ChunksOK, VerdictIsTrue
<1>4. Leaves(w, t)
  BY <1>1, <1>2, <1>3 DEF Leaves
<1> QED BY <1>1, <1>2, <1>4, WorkerLeaves

(* The tick asks for the migration's task, or reads what became of it.      *)
LEMMA VerifyingAsksStep ==
  ASSUME CompareIInv, HandleDataVerifying, tick = {NoTask} PROVE CompareIInv'
<1> USE DEF CompareIInv
<1>1. /\ creator' = (IF creator = NoCreator THEN [NoCreator EXCEPT !.at = "begun"] ELSE creator)
      /\ UNCHANGED <<content, task, chunks, threads, worker, lost, mig, submitting>> /\ tick' = {}
  BY DEF HandleDataVerifying
<1>2. /\ creator' \in Creator /\ creator'.task = creator.task
      /\ creator'.task # NoTask <=> creator'.at = "inserted"
  BY <1>1 DEF Typed, Creator, NoCreator
<1>3. \A t \in TaskIds : Sliced(t)' <=> Sliced(t)
  BY <1>1, SlicedKept
<1>4. Typed'
  BY <1>1, <1>2 DEF Typed
<1>5. ChunksOK' /\ ThreadsOK' /\ OneThread' /\ CreatorOK'
  BY <1>1, <1>2, <1>3 DEF ChunksOK, ThreadsOK, OneThread, CreatorOK
<1>6. VerifiesInFull'
  BY <1>1, <1>2, <1>3 DEF VerifiesInFull, InFull
<1>7. WorkersOK' /\ ClaimedIsHeld'
  BY <1>1 DEF WorkersOK, ClaimedIsHeld, At
<1>8. VerdictIsTrue' /\ NeverStranded'
  BY <1>1, <1>2, ContentKept DEF VerdictIsTrue, NeverStranded, InHand, Having
<1> QED BY <1>4, <1>5, <1>6, <1>7, <1>8

LEMMA VerifyingReadsStep ==
  ASSUME CompareIInv, HandleDataVerifying, NEW id \in TaskIds, tick = {id} PROVE CompareIInv'
<1> USE DEF CompareIInv
<1>1. /\ mig' = CASE ~Exists(id) \/ task[id].st = "FAILED" -> [mig EXCEPT !.phase = "FAILED"]
                  [] task[id].st = "DONE" -> MoveMigration(IF task[id].verdict = "same" THEN "COMPLETED"
                                                                                      ELSE "DATA_MISMATCH")
                  [] OTHER -> mig
      /\ task' = IF task[id].st = "RUNNING" /\ task[id].total = 0
                   THEN [task EXCEPT ![id] = Decided(id)] ELSE task
      /\ UNCHANGED <<content, chunks, threads, worker, lost, creator, submitting>> /\ tick' = {}
  <2>1. tick # {NoTask} /\ (CHOOSE t \in tick : TRUE) = id
    BY DEF NoTask, TaskIds
  <2> QED BY <2>1 DEF HandleDataVerifying
<1>2. InFull(id)
  BY DEF VerifiesInFull
<1>3. /\ mig' \in Migration /\ mig'.task = mig.task /\ mig'.forced = mig.forced
      /\ mig'.phase = "COMPLETED" => \/ mig.phase = "COMPLETED"
                                     \/ task[id].st = "DONE" /\ task[id].verdict = "same"
  <2>0. mig \in Migration
    BY DEF Typed
  <2>1. \A p \in {"DATA_MISMATCH", "COMPLETED", "FAILED"} :
          LET m == [mig EXCEPT !.phase = p]
          IN  m \in Migration /\ m.task = mig.task /\ m.forced = mig.forced /\ m.phase = p
    BY <2>0 DEF Migration
  <2>2. CASE ~Exists(id) \/ task[id].st = "FAILED"
    BY <1>1, <2>1, <2>2 DEF Exists
  <2>3. CASE ~(~Exists(id) \/ task[id].st = "FAILED") /\ task[id].st = "DONE"
    <3>1. mig' = MoveMigration(IF task[id].verdict = "same" THEN "COMPLETED" ELSE "DATA_MISMATCH")
      BY <1>1, <2>3 DEF Exists
    <3>2. mig' = mig \/ (task[id].verdict = "same" /\ mig' = [mig EXCEPT !.phase = "COMPLETED"])
                     \/ mig' = [mig EXCEPT !.phase = "DATA_MISMATCH"]
      BY <3>1 DEF MoveMigration
    <3> QED BY <2>0, <2>1, <2>3, <3>2
  <2>4. CASE ~(~Exists(id) \/ task[id].st = "FAILED") /\ task[id].st # "DONE"
    BY <1>1, <2>0, <2>4 DEF Exists
  <2> QED BY <2>2, <2>3, <2>4
<1>4. \/ task' = task
      \/ /\ task[id].st = "RUNNING" /\ chunks[id] = {} /\ task' \in [TaskIds -> TaskRow]
         /\ \A u \in TaskIds : u # id => task'[u] = task[u]
         /\ task'[id].st = "DONE" /\ task'[id].total = task[id].total
         /\ task'[id].verdict = "same" <=> Same
  <2>1. CASE task[id].st = "RUNNING" /\ task[id].total = 0
    <3>1. Sliced(id) /\ chunks[id] = {}
      BY <1>2, <2>1, ChunksAreCounted DEF InFull, Sliced
    <3>2. /\ Decided(id) \in TaskRow /\ Decided(id).total = task[id].total /\ Decided(id).st = "DONE"
          /\ Decided(id).verdict = "same" <=> Same
      BY <2>1, <3>1, DecisionIsTrue
    <3>3. task \in [TaskIds -> TaskRow] /\ task' = [task EXCEPT ![id] = Decided(id)]
      BY <1>1, <2>1 DEF Typed
    <3> QED BY <2>1, <3>1, <3>2, <3>3
  <2>2. CASE ~(task[id].st = "RUNNING" /\ task[id].total = 0)
    BY <1>1, <2>2
  <2> QED BY <2>1, <2>2
<1>5. \A t \in TaskIds : Sliced(t)' <=> Sliced(t)
  BY <1>1, <1>4, SlicedKept
<1>6. Typed'
  BY <1>1, <1>3, <1>4 DEF Typed
<1>7. ChunksOK'
  BY <1>1, <1>4, <1>5 DEF ChunksOK
<1>8. ThreadsOK'
  <2> SUFFICES ASSUME NEW u \in TaskIds, NEW h \in threads, h.task = u
               PROVE  /\ chunks[u] = {} /\ task'[u].st \in Before(h.do) \cup {"gone"}
                      /\ h.do = "decide" /\ task'[u].st # "gone" => Sliced(u)
    BY <1>1, <1>5 DEF ThreadsOK
  <2>1. /\ chunks[u] = {} /\ task[u].st \in Before(h.do) \cup {"gone"}
        /\ h.do = "decide" /\ task[u].st # "gone" => Sliced(u)
    BY DEF ThreadsOK
  <2>2. CASE task'[u] = task[u]
    BY <2>1, <2>2
  <2>3. CASE task'[u] # task[u]
    <3>1. u = id /\ task[u].st = "RUNNING" /\ task'[u].st = "DONE" /\ h.do \notin {"last_n", "query"}
      BY <1>2, <1>4, <2>3 DEF InFull
    <3>2. h \in Thread
      BY DEF Typed
    <3>3. h.do = "decide" /\ "DONE" \in Before("decide")
      BY <2>1, <3>1, <3>2 DEF Before, Thread
    <3> QED BY <2>1, <3>1, <3>3
  <2> QED BY <2>2, <2>3
<1>9. OneThread' /\ CreatorOK'
  <2>1. \A u \in TaskIds : creator.task = u => task'[u] = task[u]
    BY <1>4 DEF CreatorOK
  <2> QED BY <1>1, <2>1 DEF OneThread, CreatorOK
<1>10. VerifiesInFull'
  <2> SUFFICES ASSUME NEW u \in TaskIds, u = mig.task \/ u = creator.task
               PROVE  /\ task'[u].st # "none"
                      /\ \A h \in threads : h.task = u => h.do \notin {"last_n", "query"}
                      /\ task'[u].st = "RUNNING" => Sliced(u)'
    BY <1>1, <1>3 DEF VerifiesInFull, InFull
  <2>1. InFull(u)
    BY DEF VerifiesInFull
  <2> QED BY <1>4, <1>5, <2>1 DEF InFull
<1>11. WorkersOK'
  <2>1. \A u \in TaskIds : task[u].st = "gone" => task'[u].st = "gone"
    BY <1>4
  <2> QED BY <1>1, <2>1 DEF WorkersOK, At
<1>12. ClaimedIsHeld'
  BY <1>1 DEF ClaimedIsHeld, At
<1>13. VerdictIsTrue'
  <2>1. \A t \in TaskIds : /\ task'[t].st = "DONE" => (task'[t].verdict = "same" <=> Same)
                           /\ task'[t].st = "DONE" /\ chunks[t] # {} => task'[t].done = task'[t].total
    BY <1>4 DEF VerdictIsTrue
  <2>2. mig'.phase = "COMPLETED" => Same \/ mig'.forced
    BY <1>3 DEF VerdictIsTrue
  <2> QED BY <1>1, <2>1, <2>2, ContentKept DEF VerdictIsTrue
<1>14. NeverStranded'
  <2>1. \A u \in TaskIds : task'[u].st \in Unfinished => task[u].st \in Unfinished
    BY <1>4 DEF Unfinished
  <2> QED BY <1>1, <2>1 DEF NeverStranded, InHand, Having
<1> QED BY <1>6, <1>7, <1>8, <1>9, <1>10, <1>11, <1>12, <1>13, <1>14

LEMMA CompareStepInv == CompareIInv /\ [CompareNext]_compareVars => CompareIInv'
<1> SUFFICES ASSUME CompareIInv, [CompareNext]_compareVars PROVE CompareIInv'
  OBVIOUS
<1>0. Typed
  BY DEF CompareIInv
<1>1. ASSUME NEW h \in threads, ThreadStep(h) PROVE CompareIInv'
  BY <1>1, ThreadBeginsStep, ThreadInsertsStep, ThreadFailsStep, LastNDoneStep, ThreadDecidesStep DEF ThreadStep
<1>2. ASSUME NEW w \in Workers, WorkerStep(w) PROVE CompareIInv'
  BY <1>2, ClaimStep, CompleteStep, FailStep, WorkerDecidesStep DEF WorkerStep
<1>3. ASSUME NEW w \in Workers, WorkerDies(w) PROVE CompareIInv'
  BY <1>3, WorkerDiesStep
<1>4. CASE TickBegins
  <2>1. /\ UNCHANGED <<taskVars, creator>> /\ mig' = mig /\ submitting' = submitting /\ tick' = {mig.task}
    BY <1>4 DEF TickBegins
  <2>2. mig' \in Migration /\ submitting' \in BOOLEAN
    BY <1>0, <2>1 DEF Typed
  <2> QED BY <2>1, <2>2, MigrationMoves
<1>5. CASE HandleDataVerifying
  <2>1. PICK id \in TaskIds \cup {NoTask} : tick = {id}
    BY <1>0, <1>5 DEF Typed, HandleDataVerifying
  <2>2. CASE id = NoTask
    BY <1>5, <2>1, <2>2, VerifyingAsksStep
  <2>3. CASE id \in TaskIds
    BY <1>5, <2>1, <2>3, VerifyingReadsStep
  <2> QED BY <2>2, <2>3
<1>6. CASE CreatorInserts \/ CreatorLaunches \/ BackendRestarts \/ HandleRun
  BY <1>6, CreatorInsertsStep, CreatorLaunchesStep, BackendRestartsStep, HandleRunStep
<1>7. CASE RetryVerify \/ ForceComplete \/ TogglePause
  <2>1. mig \in Migration /\ submitting \in BOOLEAN
    BY <1>0 DEF Typed
  <2>2. UNCHANGED <<taskVars, creator, tick, submitting>>
    BY <1>7 DEF RetryVerify, ForceComplete, TogglePause
  <2>3. /\ mig' \in Migration /\ mig'.task \in {mig.task, NoTask}
        /\ mig'.phase = "COMPLETED" => mig'.forced \/ (mig.phase = "COMPLETED" /\ mig'.forced = mig.forced)
    <3>1. CASE RetryVerify
      BY <2>1, <3>1 DEF RetryVerify, Migration
    <3>2. CASE ForceComplete
      BY <2>1, <3>2 DEF ForceComplete, Migration
    <3>3. CASE TogglePause
      BY <2>1, <3>3 DEF TogglePause, Migration
    <3> QED BY <1>7, <3>1, <3>2, <3>3
  <2> QED BY <2>1, <2>2, <2>3, MigrationMoves
<1>8. ASSUME UNCHANGED <<taskVars, verifyVars>>, submitting' \in BOOLEAN PROVE CompareIInv'
  <2>1. mig \in Migration
    BY <1>0 DEF Typed
  <2>2. UNCHANGED <<taskVars, creator>> /\ mig' = mig /\ tick' = tick
    BY <1>8 DEF verifyVars
  <2> QED BY <1>8, <2>1, <2>2, MigrationMoves
<1>9. CASE RunAnswered \/ (\E l \in lists : LandTasks(l)) \/ PollTasks \/ Refresh \/ UNCHANGED compareVars
  <2>1. UNCHANGED <<taskVars, verifyVars>> /\ submitting' \in BOOLEAN
    BY <1>0, <1>9 DEF RunAnswered, LandTasks, PollTasks, Refresh, compareVars, Typed
  <2> QED BY <1>8, <2>1
<1>10. ASSUME NEW t \in TaskIds, HandleDelete(t) PROVE CompareIInv'
  BY <1>10, HandleDeleteStep
<1> QED BY <1>1, <1>2, <1>3, <1>4, <1>5, <1>6, <1>7, <1>9, <1>10 DEF CompareNext

----------------------------------------------------------------------------
(* The theorems. *)

LEMMA CompareInvariant == CompareSpec => []CompareIInv
<1>1. CompareInit => CompareIInv
  BY CompareBegins
<1>2. CompareIInv /\ [CompareNext]_compareVars => CompareIInv'
  BY CompareStepInv
<1> QED BY <1>1, <1>2, PTL DEF CompareSpec

(* Every task, chunk, migration and thread of the comparisons has one of    *)
(* the statuses the tables and the code know, whatever fails, is repeated   *)
(* or is deleted under way.                                                 *)
THEOREM CompareTypeCorrect == CompareSpec => []CompareTypeOK
<1>1. CompareIInv => CompareTypeOK
  <2> SUFFICES ASSUME CompareIInv PROVE CompareTypeOK
    OBVIOUS
  <2>1. Typed
    BY DEF CompareIInv
  <2>2. \A t \in TaskIds : /\ task[t].st \in Unfinished \cup {"none", "gone", "DONE", "FAILED"}
                           /\ task[t].verdict \in {"none", "same", "differs"}
    BY <2>1 DEF Typed, TaskRow
  <2>3. \A t \in TaskIds : \A c \in chunks[t] : /\ c.side \in Sides /\ c.tries \in 0..MaxRetries
                                                /\ c.st \in {"PENDING", "CLAIMED", "DONE", "FAILED"}
    BY <2>1 DEF Typed, Chunk
  <2>4. /\ mig.phase \in {"DATA_VERIFYING", "DATA_MISMATCH", "COMPLETED", "FAILED"}
        /\ mig.task \in TaskIds \cup {NoTask} /\ creator.at \in {"none", "begun", "inserted"}
        /\ lost \subseteq TaskIds /\ submitting \in BOOLEAN
    BY <2>1 DEF Typed, Migration, Creator
  <2> QED BY <2>2, <2>3, <2>4 DEF CompareTypeOK
<1> QED BY <1>1, CompareInvariant, PTL

(* A comparison that is DONE says "same" exactly when the two tables are,   *)
(* with every chunk of both of them counted once, and a migration completes *)
(* its verification on such a verdict or because the operator forced it:    *)
(* complete_compare_chunk and try_aggregate run in any interleaving of      *)
(* workers, with retries, deaths, restarts and deletions.                   *)
THEOREM VerdictIsTrueHolds == CompareSpec => []VerdictIsTrue
<1>1. CompareIInv => VerdictIsTrue
  BY DEF CompareIInv
<1> QED BY <1>1, CompareInvariant, PTL

(* A comparison that has begun and is not finished has a chunk to claim, or *)
(* a worker or a thread that holds its next step, unless a holder was lost  *)
(* or a chunk of it failed for good.                                        *)
THEOREM NeverStrandedHolds == CompareSpec => []NeverStranded
<1>1. CompareIInv => NeverStranded
  BY DEF CompareIInv
<1> QED BY <1>1, CompareInvariant, PTL
=============================================================================
