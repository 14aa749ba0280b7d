--------------------------- MODULE LoadQueueProofs ---------------------------
(***************************************************************************)
(* Theorems about LoadQueue, for any number of migrations, any lanes,      *)
(* limits and threads.                                                     *)
(***************************************************************************)
EXTENDS LoadQueue, FiniteSetTheorems, TLAPS

USE LoadQueueAssumption

(* A thread that runs and a handler that is under way have a migration; the *)
(* slots a handler has counted as free are not more than its lane has.      *)
NamedThreads == \A s \in Slots : thread[s].at # "none" => thread[s].mig \in Migrations
NamedCalls ==
  \A c \in Callers : call[c].at # "idle" =>
    /\ call[c].mig \in Migrations
    /\ call[c].at = "position" => call[c].free <= Limit(call[c].mig)
Named == NamedThreads /\ NamedCalls

(* What the model's records may be.                                         *)
ThreadType == [kind : Kinds, at : Steps, mig : Migrations \cup {None}]
CallType == [at : {"idle", "position", "mark", "BULK_LOADED", "FAILED", "CANCELLED"},
             mig : Migrations \cup {None}, free : 0 .. CdcLimit]

(* A change of the phase (_transition and the routes) is well typed.        *)
LEMMA EnterType ==
  ASSUME TypeOK, NEW m \in Migrations, NEW p \in Phases, Enter(m, p)
  PROVE  /\ phase' \in [Migrations -> Phases]
         /\ ahead' \in [Migrations -> SUBSET Migrations]
BY DEF Enter, TypeOK

(* So is a new thread's first step, and the migrations a caller has left.   *)
LEMMA StartedType ==
  ASSUME NEW k \in Kinds, NEW m \in Migrations
  PROVE  Started(k, m) \in ThreadType /\ Started(k, m).at # "none" /\ Started(k, m).mig = m
BY DEF Started, FirstStep, ThreadType, Steps, Kinds

LEMMA NoneType == NoThread \in ThreadType /\ NoCall \in CallType
BY DEF NoThread, NoCall, ThreadType, CallType, Steps, Kinds

(* The slots that are free in a lane are at most all it has.                *)
LEMMA FreeSlotsBound ==
  ASSUME TypeOK, NEW m \in Migrations
  PROVE  FreeSlots(m) \in 0 .. CdcLimit /\ FreeSlots(m) <= Limit(m) /\ Limit(m) \in Nat \ {0}
<1>1. HeavyIn(m) \in SUBSET Migrations
  BY DEF HeavyIn, Lane
<1>2. Cardinality(HeavyIn(m)) \in Nat
  BY <1>1, FS_Subset, FS_CardinalityType
<1>3. Limit(m) \in Nat \ {0} /\ Limit(m) <= CdcLimit
  BY DEF Limit
<1> QED
  BY <1>2, <1>3 DEF FreeSlots

(* A caller's snapshot without one of its rows is a snapshot, and so is any *)
(* reading of active phases.                                                *)
LEMMA SnapshotRest ==
  ASSUME NEW f \in Snapshots, NEW m
  PROVE  [n \in DOMAIN f \ {m} |-> f[n]] \in Snapshots
<1>1. PICK S \in SUBSET Migrations : f \in [S -> ActivePhases]
  BY DEF Snapshots
<1>2. [n \in DOMAIN f \ {m} |-> f[n]] \in [S \ {m} -> ActivePhases]
  BY <1>1
<1> QED
  BY <1>2 DEF Snapshots

LEMMA SnapshotOf ==
  ASSUME NEW S \in SUBSET Migrations, NEW f \in [S -> ActivePhases]
  PROVE  f \in Snapshots
BY DEF Snapshots

LEMMA SnapshotRow ==
  ASSUME NEW f \in Snapshots, NEW m \in DOMAIN f
  PROVE  m \in Migrations /\ f[m] \in ActivePhases
BY DEF Snapshots

LEMMA NothingType == Nothing \in Snapshots
<1>1. Nothing \in [{} -> ActivePhases]
  BY DEF Nothing
<1> QED
  BY <1>1 DEF Snapshots

----------------------------------------------------------------------------
(* Type correctness. *)

(* Threads and calls that change into well-typed ones stay well typed.      *)
LEMMA ThreadPut ==
  ASSUME TypeOK, Named, NEW s \in Slots, NEW t \in ThreadType,
         t.at # "none" => t.mig \in Migrations,
         thread' = [thread EXCEPT ![s] = t]
  PROVE  thread' \in [Slots -> ThreadType] /\ NamedThreads'
BY DEF TypeOK, Named, NamedThreads, ThreadType

LEMMA ThreadGoto ==
  ASSUME TypeOK, Named, NEW s \in Slots, NEW at \in Steps,
         thread[s].at # "none", Goto(s, at)
  PROVE  thread' \in [Slots -> ThreadType] /\ NamedThreads'
<1>1. [thread[s] EXCEPT !.at = at] \in ThreadType
  BY DEF TypeOK, ThreadType
<1>2. [thread[s] EXCEPT !.at = at].mig \in Migrations
  BY DEF TypeOK, Named, NamedThreads
<1>3. thread' = [thread EXCEPT ![s] = [thread[s] EXCEPT !.at = at]]
  BY DEF Goto, TypeOK
<1> QED
  BY <1>1, <1>2, <1>3, ThreadPut

LEMMA ThreadEnds ==
  ASSUME TypeOK, Named, NEW s \in Slots, thread[s].at # "none", Ended(s)
  PROVE  thread' \in [Slots -> ThreadType] /\ NamedThreads' /\ inProg' \subseteq Migrations
<1>1. NoThread.at = "none"
  BY DEF NoThread
<1>2. thread' = [thread EXCEPT ![s] = NoThread]
  BY DEF Ended
<1>3. inProg' \subseteq Migrations
  BY DEF Ended, Unmark, TypeOK
<1> QED
  BY <1>1, <1>2, <1>3, NoneType, ThreadPut

LEMMA ThreadProceeds ==
  ASSUME TypeOK, Named, NEW s \in Slots, thread[s].at # "none", Proceed(s)
  PROVE  thread' \in [Slots -> ThreadType] /\ NamedThreads' /\ inProg' \subseteq Migrations
<1> DEFINE t == IF Following(thread[s].kind, thread[s].mig) = "CHUNKING"
                THEN [thread[s] EXCEPT !.at = "stats"] ELSE NoThread
<1>1. t \in ThreadType
  BY NoneType DEF TypeOK, ThreadType, Steps
<1>2. t.at # "none" => t.mig \in Migrations
  BY DEF Named, NamedThreads, TypeOK, NoThread
<1>3. thread' = [thread EXCEPT ![s] = t]
  BY DEF Proceed, TypeOK
<1>4. inProg' \subseteq Migrations
  BY DEF Proceed, Unmark, TypeOK
<1> HIDE DEF t
<1> QED
  BY <1>1, <1>2, <1>3, <1>4, ThreadPut

LEMMA ThreadStarts ==
  ASSUME TypeOK, Named, NEW k \in Kinds, NEW m \in Migrations, Start(k, m)
  PROVE  /\ thread' \in [Slots -> ThreadType] /\ NamedThreads' /\ inProg' \subseteq Migrations
         /\ FreeThread \in Slots /\ thread[FreeThread].at = "none"
<1>1. FreeThread \in Slots /\ thread[FreeThread].at = "none"
  BY DEF Start, FreeThread
<1>2. thread' = [thread EXCEPT ![FreeThread] = Started(k, m)]
  BY DEF Start
<1>3. inProg' \subseteq Migrations
  BY DEF Start, Mark, TypeOK
<1> QED
  BY <1>1, <1>2, <1>3, StartedType, ThreadPut

LEMMA CallPut ==
  ASSUME TypeOK, Named, NEW c \in Callers, NEW r \in CallType,
         r.at # "idle" => /\ r.mig \in Migrations
                          /\ r.at = "position" => r.free <= Limit(r.mig),
         call' = [call EXCEPT ![c] = r]
  PROVE  call' \in [Callers -> CallType] /\ NamedCalls'
BY DEF TypeOK, Named, NamedCalls, CallType, Limit

LEMMA Returns ==
  ASSUME TypeOK, Named, NEW c \in Callers, Return(c)
  PROVE  call' \in [Callers -> CallType] /\ NamedCalls'
<1>1. NoCall.at = "idle"
  BY DEF NoCall
<1>2. call' = [call EXCEPT ![c] = NoCall]
  BY DEF Return
<1> QED
  BY <1>1, <1>2, NoneType, CallPut

(* Taking a row off a caller's snapshot, or reading a new one.              *)
LEMMA HandledType ==
  ASSUME TypeOK, NEW c \in Callers, NEW m \in Migrations, Handled(c, m)
  PROVE  todo' \in [Callers -> Snapshots]
<1>1. todo[c] \in Snapshots
  BY DEF TypeOK
<1>2. Rest(c, m) \in Snapshots
  BY <1>1, SnapshotRest DEF Rest
<1> QED
  BY <1>2 DEF Handled, TypeOK

(* Every step keeps the types: the threads' steps, ...                      *)
LEMMA ThreadsTyped ==
  ASSUME TypeOK, Named, NEW s \in Slots, ThreadStep(s) \/ ThreadRaises(s)
  PROVE  TypeOK' /\ Named'
<1> USE DEF db, requests, Steps
<1>1. CASE ReadPhase(s)
  <2>1. thread' \in [Slots -> ThreadType] /\ NamedThreads' /\ inProg' \subseteq Migrations
    BY <1>1, ThreadGoto, ThreadProceeds DEF ReadPhase, TypeOK, Mig
  <2> QED
    BY <1>1, <2>1 DEF ReadPhase, TypeOK, ThreadType, Named, NamedCalls
<1>2. CASE Advance(s)
  <2>1. Mig(s) \in Migrations /\ Following(thread[s].kind, Mig(s)) \in Phases
    BY <1>2 DEF Advance, Named, NamedThreads, Mig, Following, Phases, Heavy
  <2>2. thread' \in [Slots -> ThreadType] /\ NamedThreads' /\ inProg' \subseteq Migrations
    BY <1>2, ThreadProceeds DEF Advance
  <2>3. phase' \in [Migrations -> Phases] /\ ahead' \in [Migrations -> SUBSET Migrations]
    BY <1>2, <2>1, EnterType DEF Advance
  <2> QED
    BY <1>2, <2>2, <2>3 DEF Advance, TypeOK, ThreadType, Named, NamedCalls
<1>3. CASE CreateChunks(s)
  <2>1. Mig(s) \in Migrations
    BY <1>3 DEF CreateChunks, Named, NamedThreads, Mig
  <2>2. CASE Mig(s) \in inProg
    <3>1. thread' \in [Slots -> ThreadType] /\ NamedThreads' /\ inProg' \subseteq Migrations
      BY <1>3, <2>2, ThreadEnds DEF CreateChunks
    <3> QED
      BY <1>3, <3>1 DEF CreateChunks, TypeOK, ThreadType, Named, NamedCalls
  <2>3. CASE Mig(s) \notin inProg
    <3> DEFINE t == IF chunks[Mig(s)] # "none" THEN [thread[s] EXCEPT !.at = "chunked"]
                                               ELSE Started("cut", Mig(s))
    <3>1. t \in ThreadType /\ t.mig \in Migrations
      BY <2>1, StartedType DEF TypeOK, ThreadType, Kinds, Mig
    <3>2. thread' = [thread EXCEPT ![s] = t]
      BY <1>3, <2>3 DEF CreateChunks, TypeOK
    <3>3. inProg' \subseteq Migrations
      BY <1>3, <2>3 DEF CreateChunks, Unmark, TypeOK
    <3> HIDE DEF t
    <3>4. thread' \in [Slots -> ThreadType] /\ NamedThreads'
      BY <3>1, <3>2, ThreadPut
    <3> QED
      BY <1>3, <3>3, <3>4 DEF CreateChunks, TypeOK, ThreadType, Named, NamedCalls
  <2> QED
    BY <2>2, <2>3
<1>4. CASE SaveChunks(s)
  <2>1. thread' \in [Slots -> ThreadType] /\ NamedThreads'
    BY <1>4, ThreadGoto DEF SaveChunks
  <2>2. chunks' \in [Migrations -> {"none", "pending", "done", "failed"}]
    BY <1>4 DEF SaveChunks, TypeOK
  <2> QED
    BY <1>4, <2>1, <2>2 DEF SaveChunks, TypeOK, ThreadType, Named, NamedCalls
<1>5. CASE Conclude(s)
  <2> DEFINE p == CASE thread[s].at = "chunked" -> "CHUNKING"
                    [] thread[s].at = "empty" -> "RELEASED"
                    [] OTHER -> "FAILED"
  <2>1. Mig(s) \in Migrations /\ p \in Phases
    BY <1>5 DEF Conclude, Named, NamedThreads, Mig, Phases, Heavy
  <2>2. thread' \in [Slots -> ThreadType] /\ NamedThreads' /\ inProg' \subseteq Migrations
    BY <1>5, ThreadEnds DEF Conclude
  <2>3. Enter(Mig(s), p)
    BY <1>5 DEF Conclude
  <2> HIDE DEF p
  <2>4. phase' \in [Migrations -> Phases] /\ ahead' \in [Migrations -> SUBSET Migrations]
    BY <2>1, <2>3, EnterType
  <2> QED
    BY <1>5, <2>2, <2>4 DEF Conclude, TypeOK, ThreadType, Named, NamedCalls
<1>6. CASE ReadPhaseOfFailure(s)
  <2>1. thread' \in [Slots -> ThreadType] /\ NamedThreads' /\ inProg' \subseteq Migrations
    BY <1>6, ThreadGoto, ThreadEnds DEF ReadPhaseOfFailure, TypeOK
  <2> QED
    BY <1>6, <2>1 DEF ReadPhaseOfFailure, TypeOK, ThreadType, Named, NamedCalls
<1>7. CASE ThreadRaises(s)
  <2>1. thread' \in [Slots -> ThreadType] /\ NamedThreads'
    BY <1>7, ThreadGoto DEF ThreadRaises
  <2> QED
    BY <1>7, <2>1 DEF ThreadRaises, TypeOK, ThreadType, Named, NamedCalls
<1> QED
  BY <1>1, <1>2, <1>3, <1>4, <1>5, <1>6, <1>7 DEF ThreadStep

(* ... the handlers' steps, ...                                             *)
LEMMA CallersTyped ==
  ASSUME TypeOK, Named,
         \/ TickStep \/ KickRead \/ KickStep
         \/ \E c \in Callers, m \in Migrations : HandlerRaises(c, m)
  PROVE  TypeOK' /\ Named'
<1> USE DEF db, requests
<1>0. {"tick", "kick"} = Callers
  BY DEF Callers
<1>1. CASE TickRead
  <2> DEFINE active == {m \in Migrations : phase[m] \in ActivePhases /\ ~paused[m]}
  <2>1. [m \in active |-> phase[m]] \in Snapshots
    BY SnapshotOf
  <2>2. todo' \in [Callers -> Snapshots]
    BY <1>1, <2>1 DEF TickRead, TypeOK
  <2> QED
    BY <1>1, <2>2 DEF TickRead, TypeOK, Named, NamedThreads, NamedCalls
<1>2. CASE KickRead
  <2> DEFINE first == {m \in Cdc : phase[m] = "NEW" /\ Cardinality(ahead[m] \cap Cdc) < CdcLimit}
  <2>1. [m \in first |-> "NEW"] \in Snapshots
    BY SnapshotOf DEF ActivePhases
  <2>2. todo' \in [Callers -> Snapshots]
    BY <1>2, <2>1 DEF KickRead, TypeOK
  <2> QED
    BY <1>2, <2>2 DEF KickRead, TypeOK, Named, NamedThreads, NamedCalls
<1>3. ASSUME NEW c \in Callers, NEW m \in Migrations, CountSlots(c, m)
      PROVE  TypeOK' /\ Named'
  <2> DEFINE r == [at |-> "position", mig |-> m, free |-> FreeSlots(m)]
  <2>1. r \in CallType /\ r.mig \in Migrations /\ r.free <= Limit(r.mig)
    BY FreeSlotsBound DEF CallType
  <2>2. call' = call \/ call' = [call EXCEPT ![c] = r]
    BY <1>3 DEF CountSlots
  <2> HIDE DEF r
  <2>3. call' \in [Callers -> CallType] /\ NamedCalls'
    BY <2>1, <2>2, CallPut DEF TypeOK, CallType, Named, NamedCalls
  <2>4. todo' \in [Callers -> Snapshots]
    BY <1>3, HandledType DEF CountSlots
  <2> QED
    BY <1>3, <2>3, <2>4 DEF CountSlots, TypeOK, CallType, Named, NamedThreads
<1>4. ASSUME NEW c \in Callers, TakePosition(c)
      PROVE  TypeOK' /\ Named'
  <2> DEFINE r == IF Admitted(call[c].mig, call[c].free) /\ call[c].mig \notin inProg
                  THEN [call[c] EXCEPT !.at = "mark"] ELSE NoCall
  <2>1. r \in CallType
    BY NoneType DEF TypeOK, CallType
  <2>2. r.at # "idle" => r.mig \in Migrations /\ r.at # "position"
    BY <1>4 DEF TakePosition, TypeOK, Named, NamedCalls, NoCall
  <2>3. call' = [call EXCEPT ![c] = r]
    BY <1>4 DEF TakePosition, TypeOK
  <2> HIDE DEF r
  <2>4. call' \in [Callers -> CallType] /\ NamedCalls'
    BY <2>1, <2>2, <2>3, CallPut
  <2> QED
    BY <1>4, <2>4 DEF TakePosition, TypeOK, CallType, Named, NamedThreads
<1>5. ASSUME NEW c \in Callers, StartPreparing(c)
      PROVE  TypeOK' /\ Named'
  <2>1. thread' \in [Slots -> ThreadType] /\ NamedThreads' /\ inProg' \subseteq Migrations
    BY <1>5, ThreadStarts DEF StartPreparing, Kinds, Named, NamedCalls
  <2>2. call' \in [Callers -> CallType] /\ NamedCalls'
    BY <1>5, Returns DEF StartPreparing
  <2> QED
    BY <1>5, <2>1, <2>2 DEF StartPreparing, TypeOK, ThreadType, CallType, Named
<1>6. ASSUME NEW m \in Migrations, StartThread(m)
      PROVE  TypeOK' /\ Named'
  <2>1. thread' \in [Slots -> ThreadType] /\ NamedThreads' /\ inProg' \subseteq Migrations
    <3> DEFINE k == IF todo["tick"][m] = "TOPIC_CREATING" THEN "topic" ELSE "validate"
    <3>1. k \in Kinds /\ (UNCHANGED <<inProg, thread>> \/ Start(k, m))
      BY <1>6 DEF StartThread, Kinds
    <3> HIDE DEF k
    <3> QED
      BY <3>1, ThreadStarts DEF TypeOK, ThreadType, Named, NamedThreads
  <2>2. todo' \in [Callers -> Snapshots]
    BY <1>0, <1>6, HandledType DEF StartThread
  <2> QED
    BY <1>6, <2>1, <2>2 DEF StartThread, TypeOK, ThreadType, Named, NamedCalls
<1>7. ASSUME NEW m \in Migrations, MoveOn(m)
      PROVE  TypeOK' /\ Named'
  <2> DEFINE p == CASE todo["tick"][m] = "CHUNKING" -> "BULK_LOADING"
                    [] todo["tick"][m] = "BULK_LOADED" /\ m \in Staged -> "STAGE_VALIDATING"
                    [] OTHER -> "RELEASED"
  <2>1. p \in Phases /\ Enter(m, p)
    BY <1>7 DEF MoveOn, Phases, Heavy
  <2> HIDE DEF p
  <2>2. phase' \in [Migrations -> Phases] /\ ahead' \in [Migrations -> SUBSET Migrations]
    BY <2>1, EnterType
  <2>3. todo' \in [Callers -> Snapshots]
    BY <1>0, <1>7, HandledType DEF MoveOn
  <2> QED
    BY <1>7, <2>2, <2>3 DEF MoveOn, TypeOK, Named, NamedThreads, NamedCalls
<1>8. ASSUME NEW m \in Migrations, Decide(m)
      PROVE  TypeOK' /\ Named'
  <2>1. PICK p \in {"BULK_LOADED", "FAILED", "CANCELLED"} :
          call' = call \/ call' = [call EXCEPT !["tick"] = [at |-> p, mig |-> m, free |-> 0]]
    BY <1>8 DEF Decide
  <2>2. [at |-> p, mig |-> m, free |-> 0] \in CallType
    BY DEF CallType
  <2>3. call' \in [Callers -> CallType] /\ NamedCalls'
    BY <1>0, <2>1, <2>2, CallPut DEF TypeOK, CallType, Named, NamedCalls
  <2>4. todo' \in [Callers -> Snapshots]
    BY <1>0, <1>8, HandledType DEF Decide
  <2> QED
    BY <1>8, <2>3, <2>4 DEF Decide, TypeOK, CallType, Named, NamedThreads
<1>9. CASE Transition
  <2>1. call["tick"].mig \in Migrations /\ call["tick"].at \in Phases
    BY <1>0, <1>9 DEF Transition, Named, NamedCalls, Phases, Heavy
  <2>2. phase' \in [Migrations -> Phases] /\ ahead' \in [Migrations -> SUBSET Migrations]
    BY <1>9, <2>1, EnterType DEF Transition
  <2>3. call' \in [Callers -> CallType] /\ NamedCalls'
    BY <1>0, <1>9, Returns DEF Transition
  <2> QED
    BY <1>9, <2>2, <2>3 DEF Transition, TypeOK, CallType, Named, NamedThreads
<1>10. ASSUME NEW c \in Callers, NEW m \in Migrations, HandlerRaises(c, m)
       PROVE  TypeOK' /\ Named'
  <2>1. CASE c = "tick"
    <3>1. [at |-> "FAILED", mig |-> m, free |-> 0] \in CallType
      BY DEF CallType
    <3>2. call' \in [Callers -> CallType] /\ NamedCalls'
      BY <1>10, <2>1, <3>1, CallPut DEF HandlerRaises
    <3>3. todo' \in [Callers -> Snapshots]
      BY <1>10, <2>1, HandledType DEF HandlerRaises
    <3> QED
      BY <1>10, <2>1, <3>2, <3>3 DEF HandlerRaises, TypeOK, CallType, Named, NamedThreads
  <2>2. CASE c # "tick"
    <3>1. call' \in [Callers -> CallType] /\ NamedCalls'
      BY <1>10, <2>2, Returns DEF HandlerRaises
    <3>2. todo' \in [Callers -> Snapshots]
      BY <1>10, <2>2, NothingType DEF HandlerRaises, TypeOK
    <3>3. running \in BOOLEAN /\ running' \in {running, FALSE}
      BY <1>10, <2>2 DEF HandlerRaises, TypeOK
    <3>4. running' \in BOOLEAN
      BY <3>3, Zenon
    <3> QED
      BY <1>10, <2>2, <3>1, <3>2, <3>4 DEF HandlerRaises, TypeOK, CallType, Named, NamedThreads
  <2> QED
    BY <2>1, <2>2
<1> QED
  BY <1>0, <1>1, <1>2, <1>3, <1>4, <1>5, <1>6, <1>7, <1>8, <1>9, <1>10
     DEF TickStep, KickStep, CallerStep

(* ... and those of the workers, the connector group and the operator.      *)
LEMMA RequestsTyped ==
  ASSUME TypeOK, Named,
         \/ CoordinatorRestarts \/ GroupRuns \/ GroupStops
         \/ \E m \in Migrations : LoadChunks(m) \/ OperatorStep(m)
  PROVE  TypeOK' /\ Named'
<1> USE DEF db, requests
<1>1. CASE CoordinatorRestarts
  <2>1. thread' \in [Slots -> ThreadType] /\ call' \in [Callers -> CallType]
    BY <1>1, NoneType DEF CoordinatorRestarts
  <2>2. todo' \in [Callers -> Snapshots]
    BY <1>1, NothingType DEF CoordinatorRestarts
  <2>3. Named'
    BY <1>1 DEF CoordinatorRestarts, Named, NamedThreads, NamedCalls, NoThread, NoCall
  <2> QED
    BY <1>1, <2>1, <2>2, <2>3 DEF CoordinatorRestarts, TypeOK, ThreadType, CallType
<1>2. CASE GroupRuns \/ GroupStops
  <2>1. running' \in BOOLEAN
    BY <1>2 DEF GroupRuns, GroupStops
  <2> QED
    BY <1>2, <2>1 DEF GroupRuns, GroupStops, TypeOK, Named, NamedThreads, NamedCalls
<1>3. ASSUME NEW m \in Migrations, LoadChunks(m)
      PROVE  TypeOK' /\ Named'
  <2>1. chunks' \in [Migrations -> {"none", "pending", "done", "failed"}]
    BY <1>3 DEF LoadChunks, TypeOK
  <2> QED
    BY <1>3, <2>1 DEF LoadChunks, TypeOK, Named, NamedThreads, NamedCalls
<1>4. ASSUME NEW m \in Migrations, Run(m) \/ Cancel(m)
      PROVE  TypeOK' /\ Named'
  <2>1. PICK p \in {"NEW", "CANCELLING"} : Enter(m, p)
    BY <1>4 DEF Run, Cancel
  <2>2. phase' \in [Migrations -> Phases] /\ ahead' \in [Migrations -> SUBSET Migrations]
    BY <2>1, EnterType DEF Phases
  <2> QED
    BY <1>4, <2>2 DEF Run, Cancel, TypeOK, Named, NamedThreads, NamedCalls
<1>5. ASSUME NEW m \in Migrations, Pause(m) \/ Resume(m)
      PROVE  TypeOK' /\ Named'
  <2>1. paused' \in [Migrations -> BOOLEAN]
    BY <1>5 DEF Pause, Resume, TypeOK
  <2> QED
    BY <1>5, <2>1 DEF Pause, Resume, TypeOK, Named, NamedThreads, NamedCalls
<1>6. ASSUME NEW m \in Migrations, FullRestart(m)
      PROVE  TypeOK' /\ Named'
  <2>1. PICK p \in {"DRAFT", "NEW"} : Enter(m, p)
    BY <1>6 DEF FullRestart
  <2>2. phase' \in [Migrations -> Phases] /\ ahead' \in [Migrations -> SUBSET Migrations]
    BY <2>1, EnterType DEF Phases
  <2>3. chunks' \in [Migrations -> {"none", "pending", "done", "failed"}]
    BY <1>6 DEF FullRestart, TypeOK
  <2> QED
    BY <1>6, <2>2, <2>3 DEF FullRestart, TypeOK, Named, NamedThreads, NamedCalls
<1> QED
  BY <1>1, <1>2, <1>3, <1>4, <1>5, <1>6 DEF OperatorStep

LEMMA InitTyped == Init => TypeOK /\ Named
<1> SUFFICES ASSUME Init PROVE TypeOK /\ Named
  OBVIOUS
<1>1. thread \in [Slots -> ThreadType] /\ call \in [Callers -> CallType]
  BY NoneType DEF Init
<1>2. todo \in [Callers -> Snapshots]
  BY NothingType DEF Init
<1>3. Named
  BY DEF Init, Named, NamedThreads, NamedCalls, NoThread, NoCall
<1>4. /\ phase \in [Migrations -> Phases]
      /\ ahead \in [Migrations -> SUBSET Migrations]
      /\ chunks \in [Migrations -> {"none", "pending", "done", "failed"}]
      /\ inProg \subseteq Migrations
  BY DEF Init, Phases
<1>5. paused \in [Migrations -> BOOLEAN] /\ running \in BOOLEAN
  BY DEF Init
<1>6. /\ faults \in 0 .. MaxFaults /\ cancels \in 0 .. MaxCancels
      /\ restarts \in 0 .. MaxRestarts /\ pauses \in 0 .. MaxPauses
  BY DEF Init
<1> QED
  BY <1>1, <1>2, <1>3, <1>4, <1>5, <1>6 DEF TypeOK, ThreadType, CallType

LEMMA StepTyped == TypeOK /\ Named /\ [Next]_vars => TypeOK' /\ Named'
<1> SUFFICES ASSUME TypeOK, Named, [Next]_vars PROVE TypeOK' /\ Named'
  OBVIOUS
<1>1. CASE UNCHANGED vars
  BY <1>1 DEF vars, db, requests, TypeOK, Named, NamedThreads, NamedCalls
<1>2. CASE Next
  BY <1>2, ThreadsTyped, CallersTyped, RequestsTyped DEF Next
<1> QED
  BY <1>1, <1>2

(* Every reachable state of the queue is well typed.                        *)
THEOREM TypeCorrect == Safety => []TypeOK
<1>1. Safety => [](TypeOK /\ Named)
  BY InitTyped, StepTyped, PTL DEF Safety
<1> QED
  BY <1>1, PTL

----------------------------------------------------------------------------
(* The order of the queue. *)

(* Fewer migrations are ahead of m than its lane has slots.                 *)
First(m) == Cardinality(ahead[m] \cap Lane(m)) < Limit(m)

(* As long as nothing is restarted, a migration is NEW once.  One that is   *)
(* still NEW may be under a thread only if that has not got beyond changing *)
(* its phase and it was its turn, ...                                       *)
ThreadsInTurn ==
  \A s \in Slots : thread[s].at # "none" =>
    /\ phase[thread[s].mig] # "DRAFT"
    /\ phase[thread[s].mig] = "NEW" =>
         \/ thread[s].at \in {"failed?", "fail"}
         \/ /\ thread[s].kind = "prepare" /\ thread[s].at \in {"read", "advance"}
            /\ First(thread[s].mig)

(* ... in the hands of a handler only if that has not found yet that it is  *)
(* its turn, or rightly so, or is about to fail or cancel it, ...           *)
CallsInTurn ==
  \A c \in Callers : call[c].at # "idle" =>
    /\ phase[call[c].mig] # "DRAFT"
    /\ phase[call[c].mig] = "NEW" =>
         \/ call[c].at \in {"position", "FAILED", "CANCELLED"}
         \/ call[c].at = "mark" /\ First(call[c].mig)

(* ... and in a snapshot only as NEW.                                       *)
RowsInTurn ==
  \A c \in Callers : \A m \in DOMAIN todo[c] :
    phase[m] # "DRAFT" /\ (phase[m] = "NEW" => todo[c][m] = "NEW")

OrderInv == restarts = 0 => ThreadsInTurn /\ CallsInTurn /\ RowsInTurn

FirstNext(m) == Cardinality(ahead'[m] \cap Lane(m)) < Limit(m)

(* m has not gone back to DRAFT or NEW, and its turn, if it had come while  *)
(* it is NEW, is not taken away: nobody gets ahead of it.                   *)
Onward(m) ==
  /\ phase'[m] # "DRAFT"
  /\ phase'[m] = "NEW" => phase[m] = "NEW" /\ (First(m) => FirstNext(m))

LEMMA EnterOnward ==
  ASSUME TypeOK, NEW n \in Migrations, NEW p, Enter(n, p),
         p \notin {"DRAFT", "NEW"} \/ phase[n] = "DRAFT",
         p # "DRAFT",
         NEW m \in Migrations, phase[m] # "DRAFT"
  PROVE  Onward(m)
<1>1. CASE m = n
  BY <1>1 DEF Enter, TypeOK, Onward
<1>2. CASE m # n
  <2>1. phase'[m] = phase[m] /\ ahead'[m] = ahead[m] \ {n}
    BY <1>2 DEF Enter, TypeOK
  <2>2. ahead'[m] \cap Lane(m) \in SUBSET (ahead[m] \cap Lane(m))
    BY <2>1
  <2>3. ahead[m] \cap Lane(m) \in SUBSET Migrations
    BY DEF Lane
  <2>4. IsFiniteSet(ahead[m] \cap Lane(m)) /\ Cardinality(ahead[m] \cap Lane(m)) \in Nat
    BY <2>3, FS_Subset, FS_CardinalityType
  <2>5. /\ Cardinality(ahead'[m] \cap Lane(m)) <= Cardinality(ahead[m] \cap Lane(m))
        /\ IsFiniteSet(ahead'[m] \cap Lane(m))
    BY <2>2, <2>4, FS_Subset
  <2>6. Cardinality(ahead'[m] \cap Lane(m)) \in Nat
    BY <2>5, FS_CardinalityType
  <2>7. Limit(m) \in Nat
    BY DEF Limit
  <2>8. First(m) => FirstNext(m)
    BY <2>4, <2>5, <2>6, <2>7 DEF First, FirstNext
  <2> QED
    BY <2>1, <2>8 DEF Onward
<1> QED
  BY <1>1, <1>2

LEMMA SameOnward ==
  ASSUME phase' = phase, ahead' = ahead, NEW m \in Migrations, phase[m] # "DRAFT"
  PROVE  Onward(m)
BY DEF Onward, First, FirstNext

(* Every step but a full restart takes every migration onward.              *)
LEMMA StepOnward ==
  ASSUME TypeOK, Named, [Next]_vars, restarts = 0, restarts' = 0,
         NEW m \in Migrations, phase[m] # "DRAFT"
  PROVE  Onward(m)
<1> USE DEF db, requests
<1>1. CASE phase' = phase /\ ahead' = ahead
  BY <1>1, SameOnward
<1>2. ASSUME NEW s \in Slots, Advance(s)
      PROVE  Onward(m)
  <2>1. Mig(s) \in Migrations
    BY <1>2 DEF Advance, Named, NamedThreads, Mig
  <2>2. Following(thread[s].kind, Mig(s)) \notin {"DRAFT", "NEW"}
    BY DEF Following
  <2> QED
    BY <1>2, <2>1, <2>2, EnterOnward DEF Advance
<1>3. ASSUME NEW s \in Slots, Conclude(s)
      PROVE  Onward(m)
  <2>1. Mig(s) \in Migrations
    BY <1>3 DEF Conclude, Named, NamedThreads, Mig
  <2>2. PICK p \in {"CHUNKING", "RELEASED", "FAILED"} : Enter(Mig(s), p)
    BY <1>3 DEF Conclude
  <2> QED
    BY <2>1, <2>2, EnterOnward
<1>4. ASSUME NEW n \in Migrations, MoveOn(n)
      PROVE  Onward(m)
  <2>1. PICK p \in {"BULK_LOADING", "STAGE_VALIDATING", "RELEASED"} : Enter(n, p)
    BY <1>4 DEF MoveOn
  <2> QED
    BY <2>1, EnterOnward
<1>5. CASE Transition
  <2>1. call["tick"].mig \in Migrations
    BY <1>5 DEF Transition, Named, NamedCalls, Callers
  <2> QED
    BY <1>5, <2>1, EnterOnward DEF Transition
<1>6. ASSUME NEW n \in Migrations, Run(n)
      PROVE  Onward(m)
  BY <1>6, EnterOnward DEF Run
<1>7. ASSUME NEW n \in Migrations, Cancel(n)
      PROVE  Onward(m)
  BY <1>7, EnterOnward DEF Cancel
<1>8. ASSUME NEW n \in Migrations, FullRestart(n)
      PROVE  FALSE
  BY <1>8 DEF FullRestart
<1>9. ASSUME NEW s \in Slots, ThreadStep(s) \/ ThreadRaises(s)
      PROVE  Onward(m)
  BY <1>1, <1>2, <1>3, <1>9 DEF ThreadStep, ReadPhase, CreateChunks, SaveChunks,
                                ReadPhaseOfFailure, ThreadRaises
<1>10. CASE TickStep \/ KickRead \/ KickStep
  BY <1>1, <1>4, <1>5, <1>10 DEF TickStep, KickStep, KickRead, CallerStep, TickRead, CountSlots,
                                 TakePosition, StartPreparing, StartThread, Decide
<1>11. ASSUME NEW n \in Migrations, LoadChunks(n) \/ OperatorStep(n)
       PROVE  Onward(m)
  BY <1>1, <1>6, <1>7, <1>8, <1>11 DEF LoadChunks, OperatorStep, Pause, Resume
<1>12. CASE UNCHANGED vars
  BY <1>1, <1>12 DEF vars
<1>13. CASE CoordinatorRestarts \/ GroupRuns \/ GroupStops
  BY <1>1, <1>13 DEF CoordinatorRestarts, GroupRuns, GroupStops
<1>14. ASSUME NEW c \in Callers, NEW n \in Migrations, HandlerRaises(c, n)
       PROVE  Onward(m)
  BY <1>1, <1>14 DEF HandlerRaises
<1> QED
  BY <1>9, <1>10, <1>11, <1>12, <1>13, <1>14 DEF Next

(* A thread, or a handler's call, as the invariant wants it after a step.   *)
ThreadFits(t) ==
  t.at # "none" =>
    /\ phase'[t.mig] # "DRAFT"
    /\ phase'[t.mig] = "NEW" =>
         \/ t.at \in {"failed?", "fail"}
         \/ t.kind = "prepare" /\ t.at \in {"read", "advance"} /\ FirstNext(t.mig)

CallFits(r) ==
  r.at # "idle" =>
    /\ phase'[r.mig] # "DRAFT"
    /\ phase'[r.mig] = "NEW" =>
         \/ r.at \in {"position", "FAILED", "CANCELLED"}
         \/ r.at = "mark" /\ FirstNext(r.mig)

AllOnward == \A m \in Migrations : phase[m] # "DRAFT" => Onward(m)

(* Whatever goes onward and is left alone stays as the invariant wants it.  *)
LEMMA ThreadsKept ==
  ASSUME TypeOK, Named, ThreadsInTurn, AllOnward, NEW s \in Slots
  PROVE  ThreadFits(thread[s])
BY DEF ThreadsInTurn, ThreadFits, AllOnward, Onward, Named, NamedThreads

LEMMA CallsKept ==
  ASSUME TypeOK, Named, CallsInTurn, AllOnward, NEW c \in Callers
  PROVE  CallFits(call[c])
BY DEF CallsInTurn, CallFits, AllOnward, Onward, Named, NamedCalls

LEMMA ThreadsFit ==
  ASSUME TypeOK, Named, ThreadsInTurn, AllOnward,
         NEW s \in Slots, NEW t, ThreadFits(t), thread' = [thread EXCEPT ![s] = t]
  PROVE  ThreadsInTurn'
<1> SUFFICES ASSUME NEW r \in Slots PROVE ThreadFits(thread'[r])
  BY DEF ThreadsInTurn, ThreadFits, First, FirstNext, Lane, Limit
<1> QED
  BY ThreadsKept DEF TypeOK

LEMMA CallsFit ==
  ASSUME TypeOK, Named, CallsInTurn, AllOnward,
         NEW c \in Callers, NEW r, CallFits(r), call' = [call EXCEPT ![c] = r]
  PROVE  CallsInTurn'
<1> SUFFICES ASSUME NEW k \in Callers PROVE CallFits(call'[k])
  BY DEF CallsInTurn, CallFits, First, FirstNext, Lane, Limit
<1> QED
  BY CallsKept DEF TypeOK

LEMMA ThreadsSame ==
  ASSUME TypeOK, Named, ThreadsInTurn, AllOnward, thread' = thread
  PROVE  ThreadsInTurn'
<1> SUFFICES ASSUME NEW r \in Slots PROVE ThreadFits(thread'[r])
  BY DEF ThreadsInTurn, ThreadFits, First, FirstNext, Lane, Limit
<1> QED
  BY ThreadsKept

LEMMA CallsSame ==
  ASSUME TypeOK, Named, CallsInTurn, AllOnward, call' = call
  PROVE  CallsInTurn'
<1> SUFFICES ASSUME NEW k \in Callers PROVE CallFits(call'[k])
  BY DEF CallsInTurn, CallFits, First, FirstNext, Lane, Limit
<1> QED
  BY CallsKept

(* Rows a caller has left over keep fitting.                                *)
LEMMA RowsKept ==
  ASSUME TypeOK, RowsInTurn, AllOnward,
         \A c \in Callers : \A m \in DOMAIN todo'[c] :
           m \in DOMAIN todo[c] /\ todo'[c][m] = todo[c][m]
  PROVE  RowsInTurn'
<1> SUFFICES ASSUME NEW c \in Callers, NEW m \in DOMAIN todo'[c]
             PROVE  phase'[m] # "DRAFT" /\ (phase'[m] = "NEW" => todo'[c][m] = "NEW")
  BY DEF RowsInTurn
<1>1. m \in Migrations
  BY SnapshotRow DEF TypeOK
<1> QED
  BY <1>1 DEF RowsInTurn, AllOnward, Onward

LEMMA RowsHandled ==
  ASSUME TypeOK, RowsInTurn, AllOnward, NEW d \in Callers, NEW n \in Migrations, Handled(d, n)
  PROVE  RowsInTurn'
<1>1. ASSUME NEW c \in Callers, NEW m \in DOMAIN todo'[c]
      PROVE  m \in DOMAIN todo[c] /\ todo'[c][m] = todo[c][m]
  BY <1>1 DEF Handled, Rest, TypeOK
<1> QED
  BY <1>1, RowsKept

(* Restarts are counted, and only a full restart counts.                    *)
LEMMA RestartsCount ==
  ASSUME TypeOK, [Next]_vars, restarts' = 0
  PROVE  restarts = 0
<1> SUFFICES restarts' = restarts \/ restarts' = restarts + 1
  BY DEF TypeOK
<1> USE DEF requests
<1>1. ASSUME NEW s \in Slots, ThreadStep(s) \/ ThreadRaises(s)
      PROVE  restarts' = restarts
  BY <1>1 DEF ThreadStep, ReadPhase, Advance, CreateChunks, SaveChunks, Conclude,
              ReadPhaseOfFailure, ThreadRaises
<1>2. CASE TickStep \/ KickRead \/ KickStep
  BY <1>2 DEF TickStep, KickStep, KickRead, CallerStep, TickRead, CountSlots, TakePosition,
              StartPreparing, StartThread, MoveOn, Decide, Transition
<1>3. ASSUME NEW n \in Migrations, LoadChunks(n) \/ OperatorStep(n)
      PROVE  restarts' = restarts \/ restarts' = restarts + 1
  BY <1>3 DEF LoadChunks, OperatorStep, Run, Cancel, Pause, Resume, FullRestart
<1>4. CASE CoordinatorRestarts \/ GroupRuns \/ GroupStops
  BY <1>4 DEF CoordinatorRestarts, GroupRuns, GroupStops
<1>5. ASSUME NEW c \in Callers, NEW n \in Migrations, HandlerRaises(c, n)
      PROVE  restarts' = restarts
  BY <1>5 DEF HandlerRaises
<1>6. CASE UNCHANGED vars
  BY <1>6 DEF vars
<1> QED
  BY <1>1, <1>2, <1>3, <1>4, <1>5, <1>6 DEF Next

(* The threads' steps keep them in turn.                                    *)
LEMMA ThreadsStayInTurn ==
  ASSUME TypeOK, Named, ThreadsInTurn, AllOnward, NEW s \in Slots,
         ThreadStep(s) \/ ThreadRaises(s)
  PROVE  ThreadsInTurn'
<1> USE DEF db
<1>0. ThreadFits(thread[s])
  BY ThreadsKept
<1>1. CASE ReadPhase(s)
  <2>1. CASE phase[Mig(s)] = Expected(thread[s].kind)
    <3> DEFINE t == [thread[s] EXCEPT !.at = "advance"]
    <3>1. thread' = [thread EXCEPT ![s] = t]
      BY <1>1, <2>1 DEF ReadPhase, Goto, TypeOK
    <3>2. ThreadFits(t)
      BY <1>0, <1>1 DEF ReadPhase, ThreadFits, TypeOK
    <3> HIDE DEF t
    <3> QED
      BY <3>1, <3>2, ThreadsFit
  <2>2. CASE phase[Mig(s)] # Expected(thread[s].kind)
    <3> DEFINE t == IF Following(thread[s].kind, thread[s].mig) = "CHUNKING"
                    THEN [thread[s] EXCEPT !.at = "stats"] ELSE NoThread
    <3>1. thread' = [thread EXCEPT ![s] = t]
      BY <1>1, <2>2 DEF ReadPhase, Proceed, TypeOK
    <3>2. phase'[thread[s].mig] = phase[thread[s].mig] /\ phase[thread[s].mig] # "NEW"
      BY <1>1, <2>2 DEF ReadPhase, ThreadsInTurn, Expected, Mig
    <3>3. ThreadFits(t)
      BY <1>0, <1>1, <3>2 DEF ReadPhase, ThreadFits, TypeOK, NoThread
    <3> HIDE DEF t
    <3> QED
      BY <3>1, <3>3, ThreadsFit
  <2> QED
    BY <2>1, <2>2
<1>2. CASE Advance(s)
  <2> DEFINE t == IF Following(thread[s].kind, thread[s].mig) = "CHUNKING"
                  THEN [thread[s] EXCEPT !.at = "stats"] ELSE NoThread
  <2>1. thread' = [thread EXCEPT ![s] = t]
    BY <1>2 DEF Advance, Proceed, TypeOK
  <2>2. thread[s].mig \in Migrations
    BY <1>2 DEF Advance, Named, NamedThreads
  <2>3. phase'[thread[s].mig] = Following(thread[s].kind, thread[s].mig)
    BY <1>2, <2>2 DEF Advance, Enter, TypeOK, Mig
  <2>4. ThreadFits(t)
    BY <2>3 DEF ThreadFits, TypeOK, NoThread, Following
  <2> HIDE DEF t
  <2> QED
    BY <2>1, <2>4, ThreadsFit
<1>3. CASE CreateChunks(s)
  <2>1. phase' = phase /\ phase[Mig(s)] \notin {"DRAFT", "NEW"}
    BY <1>3 DEF CreateChunks, ThreadsInTurn, Mig
  <2> DEFINE t == IF Mig(s) \in inProg THEN NoThread
                  ELSE IF chunks[Mig(s)] # "none" THEN [thread[s] EXCEPT !.at = "chunked"]
                                                  ELSE Started("cut", Mig(s))
  <2>2. thread' = [thread EXCEPT ![s] = t]
    BY <1>3 DEF CreateChunks, Ended, TypeOK
  <2>3. t.at = "none" \/ t.mig = Mig(s)
    BY DEF NoThread, Started, Mig, TypeOK
  <2> HIDE DEF t
  <2>4. ThreadFits(t)
    BY <2>1, <2>3 DEF ThreadFits
  <2> QED
    BY <2>2, <2>4, ThreadsFit
<1>4. CASE SaveChunks(s)
  <2> DEFINE t == [thread[s] EXCEPT !.at = "chunked"]
  <2>1. thread' = [thread EXCEPT ![s] = t]
    BY <1>4 DEF SaveChunks, Goto, TypeOK
  <2>2. ThreadFits(t)
    BY <1>0, <1>4 DEF SaveChunks, ThreadFits, TypeOK
  <2> HIDE DEF t
  <2> QED
    BY <2>1, <2>2, ThreadsFit
<1>5. CASE Conclude(s)
  BY <1>5, ThreadsFit DEF Conclude, Ended, ThreadFits, NoThread
<1>6. CASE ReadPhaseOfFailure(s)
  <2> DEFINE t == [thread[s] EXCEPT !.at = "fail"]
  <2>1. thread' = [thread EXCEPT ![s] = t] \/ thread' = [thread EXCEPT ![s] = NoThread]
    BY <1>6 DEF ReadPhaseOfFailure, Goto, Ended, TypeOK
  <2>2. ThreadFits(t) /\ ThreadFits(NoThread)
    BY <1>0, <1>6 DEF ReadPhaseOfFailure, ThreadFits, TypeOK, NoThread
  <2> HIDE DEF t
  <2> QED
    BY <2>1, <2>2, ThreadsFit
<1>7. CASE ThreadRaises(s)
  <2>1. PICK at \in {"fail", "failed?"} : Goto(s, at)
    BY <1>7 DEF ThreadRaises
  <2> DEFINE t == [thread[s] EXCEPT !.at = at]
  <2>2. thread' = [thread EXCEPT ![s] = t]
    BY <2>1 DEF Goto, TypeOK
  <2>3. ThreadFits(t)
    BY <1>0, <1>7 DEF ThreadRaises, ThreadFits, TypeOK
  <2> HIDE DEF t
  <2> QED
    BY <2>2, <2>3, ThreadsFit
<1> QED
  BY <1>1, <1>2, <1>3, <1>4, <1>5, <1>6, <1>7 DEF ThreadStep

(* The handlers' steps keep threads, calls and snapshots in turn.           *)
LEMMA CallersStayInTurn ==
  ASSUME TypeOK, Named, ThreadsInTurn, CallsInTurn, RowsInTurn, AllOnward,
         \/ TickStep \/ KickRead \/ KickStep
         \/ \E c \in Callers, m \in Migrations : HandlerRaises(c, m)
  PROVE  ThreadsInTurn' /\ CallsInTurn' /\ RowsInTurn'
<1> USE DEF db
<1>0. {"tick", "kick"} = Callers
  BY DEF Callers
<1>1. CASE TickRead
  <2>1. ThreadsInTurn' /\ CallsInTurn'
    BY <1>1, ThreadsSame, CallsSame DEF TickRead
  <2>2. RowsInTurn'
    <3> SUFFICES ASSUME NEW c \in Callers, NEW m \in DOMAIN todo'[c]
                 PROVE  phase'[m] # "DRAFT" /\ (phase'[m] = "NEW" => todo'[c][m] = "NEW")
      BY DEF RowsInTurn
    <3>1. CASE c = "tick"
      BY <1>1, <3>1 DEF TickRead, TypeOK, ActivePhases, Heavy
    <3>2. CASE c # "tick"
      BY <1>1, <3>2 DEF TickRead, TypeOK, RowsInTurn
    <3> QED
      BY <3>1, <3>2
  <2> QED
    BY <2>1, <2>2
<1>2. CASE KickRead
  <2>1. ThreadsInTurn' /\ CallsInTurn'
    BY <1>2, ThreadsSame, CallsSame DEF KickRead
  <2>2. RowsInTurn'
    <3> SUFFICES ASSUME NEW c \in Callers, NEW m \in DOMAIN todo'[c]
                 PROVE  phase'[m] # "DRAFT" /\ (phase'[m] = "NEW" => todo'[c][m] = "NEW")
      BY DEF RowsInTurn
    <3>1. CASE c = "kick"
      BY <1>2, <3>1 DEF KickRead, TypeOK
    <3>2. CASE c # "kick"
      BY <1>2, <3>2 DEF KickRead, TypeOK, RowsInTurn
    <3> QED
      BY <3>1, <3>2
  <2> QED
    BY <2>1, <2>2
<1>3. ASSUME NEW c \in Callers, NEW m \in Migrations, CountSlots(c, m)
      PROVE  ThreadsInTurn' /\ CallsInTurn' /\ RowsInTurn'
  <2> DEFINE r == [at |-> "position", mig |-> m, free |-> FreeSlots(m)]
  <2>1. phase' = phase /\ phase[m] # "DRAFT"
    BY <1>3 DEF CountSlots, Turn, RowsInTurn
  <2>2. CallFits(r)
    BY <2>1 DEF CallFits
  <2>3. call' = call \/ call' = [call EXCEPT ![c] = r]
    BY <1>3 DEF CountSlots
  <2> HIDE DEF r
  <2>4. CallsInTurn'
    BY <2>2, <2>3, CallsFit, CallsSame
  <2>5. ThreadsInTurn'
    BY <1>3, ThreadsSame DEF CountSlots
  <2>6. RowsInTurn'
    BY <1>3, RowsHandled DEF CountSlots
  <2> QED
    BY <2>4, <2>5, <2>6
<1>4. ASSUME NEW c \in Callers, TakePosition(c)
      PROVE  ThreadsInTurn' /\ CallsInTurn' /\ RowsInTurn'
  <2> DEFINE r == IF Admitted(call[c].mig, call[c].free) /\ call[c].mig \notin inProg
                  THEN [call[c] EXCEPT !.at = "mark"] ELSE NoCall
  <2>1. call' = [call EXCEPT ![c] = r]
    BY <1>4 DEF TakePosition, TypeOK
  <2>2. phase' = phase /\ ahead' = ahead
    BY <1>4 DEF TakePosition
  <2>3. /\ call[c].mig \in Migrations /\ call[c].free <= Limit(call[c].mig)
        /\ call[c].free \in Nat
    BY <1>4 DEF TakePosition, Named, NamedCalls, TypeOK
  <2>4. Cardinality(ahead[call[c].mig] \cap Lane(call[c].mig)) \in Nat
    <3>1. ahead[call[c].mig] \cap Lane(call[c].mig) \in SUBSET Migrations
      BY DEF Lane
    <3> QED
      BY <3>1, FS_Subset, FS_CardinalityType
  <2>5. Limit(call[c].mig) \in Nat
    BY DEF Limit
  <2>6. Admitted(call[c].mig, call[c].free) => First(call[c].mig)
    BY <2>3, <2>4, <2>5 DEF Admitted, First
  <2>7. CallFits(r)
    BY <1>4, <2>2, <2>6 DEF TakePosition, CallsInTurn, CallFits, First, FirstNext, TypeOK, NoCall
  <2> HIDE DEF r
  <2>8. CallsInTurn'
    BY <2>1, <2>7, CallsFit
  <2>9. ThreadsInTurn' /\ RowsInTurn'
    BY <1>4, ThreadsSame, RowsKept DEF TakePosition
  <2> QED
    BY <2>8, <2>9
<1>5. ASSUME NEW c \in Callers, StartPreparing(c)
      PROVE  ThreadsInTurn' /\ CallsInTurn' /\ RowsInTurn'
  <2>1. CallFits(call[c])
    BY CallsKept
  <2>2. Started("prepare", call[c].mig) = [kind |-> "prepare", at |-> "read", mig |-> call[c].mig]
    BY DEF Started, FirstStep
  <2>3. ThreadFits(Started("prepare", call[c].mig))
    BY <1>5, <2>1, <2>2 DEF StartPreparing, CallFits, ThreadFits
  <2>4. FreeThread \in Slots
    BY <1>5, ThreadStarts DEF StartPreparing, Kinds, Named, NamedCalls
  <2>5. thread' = [thread EXCEPT ![FreeThread] = Started("prepare", call[c].mig)]
    BY <1>5 DEF StartPreparing, Start
  <2>6. ThreadsInTurn'
    BY <2>3, <2>4, <2>5, ThreadsFit
  <2>7. CallsInTurn'
    BY <1>5, CallsFit DEF StartPreparing, Return, CallFits, NoCall
  <2>8. RowsInTurn'
    BY <1>5, RowsKept DEF StartPreparing
  <2> QED
    BY <2>6, <2>7, <2>8
<1>6. ASSUME NEW m \in Migrations, StartThread(m)
      PROVE  ThreadsInTurn' /\ CallsInTurn' /\ RowsInTurn'
  <2> DEFINE k == IF todo["tick"][m] = "TOPIC_CREATING" THEN "topic" ELSE "validate"
  <2>1. k \in Kinds /\ (thread' = thread \/ Start(k, m))
    BY <1>6 DEF StartThread, Kinds
  <2>2. phase' = phase /\ phase[m] \notin {"DRAFT", "NEW"}
    BY <1>0, <1>6 DEF StartThread, Turn, RowsInTurn
  <2> HIDE DEF k
  <2>3. ASSUME Start(k, m)
        PROVE  ThreadsInTurn'
    <3>1. ThreadFits(Started(k, m))
      BY <2>1, <2>2, StartedType DEF ThreadFits
    <3>2. FreeThread \in Slots
      BY <2>1, <2>3, ThreadStarts
    <3> QED
      BY <2>3, <3>1, <3>2, ThreadsFit DEF Start
  <2>4. ThreadsInTurn'
    BY <2>1, <2>3, ThreadsSame
  <2>5. CallsInTurn'
    BY <1>6, CallsSame DEF StartThread
  <2>6. RowsInTurn'
    BY <1>0, <1>6, RowsHandled DEF StartThread
  <2> QED
    BY <2>4, <2>5, <2>6
<1>7. ASSUME NEW m \in Migrations, MoveOn(m)
      PROVE  ThreadsInTurn' /\ CallsInTurn' /\ RowsInTurn'
  BY <1>0, <1>7, ThreadsSame, CallsSame, RowsHandled DEF MoveOn
<1>8. ASSUME NEW m \in Migrations, Decide(m)
      PROVE  ThreadsInTurn' /\ CallsInTurn' /\ RowsInTurn'
  <2>1. phase' = phase /\ phase[m] \notin {"DRAFT", "NEW"}
    BY <1>0, <1>8 DEF Decide, Turn, RowsInTurn
  <2>2. PICK p \in {"BULK_LOADED", "FAILED", "CANCELLED"} :
          call' = call \/ call' = [call EXCEPT !["tick"] = [at |-> p, mig |-> m, free |-> 0]]
    BY <1>8 DEF Decide
  <2>3. CallFits([at |-> p, mig |-> m, free |-> 0])
    BY <2>1 DEF CallFits
  <2>4. CallsInTurn'
    BY <1>0, <2>2, <2>3, CallsFit, CallsSame
  <2>5. ThreadsInTurn' /\ RowsInTurn'
    BY <1>0, <1>8, ThreadsSame, RowsHandled DEF Decide
  <2> QED
    BY <2>4, <2>5
<1>9. CASE Transition
  <2>1. CallsInTurn'
    BY <1>0, <1>9, CallsFit DEF Transition, Return, CallFits, NoCall
  <2>2. ThreadsInTurn' /\ RowsInTurn'
    BY <1>9, ThreadsSame, RowsKept DEF Transition
  <2> QED
    BY <2>1, <2>2
<1>10. ASSUME NEW c \in Callers, NEW m \in Migrations, HandlerRaises(c, m)
       PROVE  ThreadsInTurn' /\ CallsInTurn' /\ RowsInTurn'
  <2>1. ThreadsInTurn'
    BY <1>10, ThreadsSame DEF HandlerRaises
  <2>2. CASE c = "tick"
    <3>1. phase' = phase /\ phase[m] # "DRAFT"
      BY <1>10 DEF HandlerRaises, RowsInTurn, CallsInTurn
    <3>2. CallFits([at |-> "FAILED", mig |-> m, free |-> 0])
      BY <3>1 DEF CallFits
    <3>3. CallsInTurn'
      BY <1>10, <2>2, <3>2, CallsFit DEF HandlerRaises
    <3>4. RowsInTurn'
      BY <1>10, <2>2, RowsHandled DEF HandlerRaises
    <3> QED
      BY <2>1, <3>3, <3>4
  <2>3. CASE c # "tick"
    <3>1. CallsInTurn'
      BY <1>10, <2>3, CallsFit DEF HandlerRaises, Return, CallFits, NoCall
    <3>2. \A d \in Callers : \A n \in DOMAIN todo'[d] :
            n \in DOMAIN todo[d] /\ todo'[d][n] = todo[d][n]
      <4>1. todo' = [todo EXCEPT ![c] = Nothing]
        BY <1>10, <2>3 DEF HandlerRaises
      <4>2. \A d \in Callers : todo'[d] = IF d = c THEN Nothing ELSE todo[d]
        BY <4>1 DEF TypeOK
      <4>3. DOMAIN Nothing = {}
        BY DEF Nothing
      <4> QED
        BY <4>2, <4>3
    <3>3. RowsInTurn'
      BY <3>2, RowsKept
    <3> QED
      BY <2>1, <3>1, <3>3
  <2> QED
    BY <2>2, <2>3
<1> QED
  BY <1>0, <1>1, <1>2, <1>3, <1>4, <1>5, <1>6, <1>7, <1>8, <1>9, <1>10
     DEF TickStep, KickStep, CallerStep

(* So do the steps of everybody else, unless one is a full restart.         *)
LEMMA RequestsStayInTurn ==
  ASSUME TypeOK, Named, ThreadsInTurn, CallsInTurn, RowsInTurn, AllOnward, restarts' = 0,
         \/ CoordinatorRestarts \/ GroupRuns \/ GroupStops
         \/ \E m \in Migrations : LoadChunks(m) \/ OperatorStep(m)
         \/ UNCHANGED vars
  PROVE  ThreadsInTurn' /\ CallsInTurn' /\ RowsInTurn'
<1>1. CASE CoordinatorRestarts
  <2>1. ThreadsInTurn' /\ CallsInTurn'
    BY <1>1 DEF CoordinatorRestarts, ThreadsInTurn, CallsInTurn, NoThread, NoCall
  <2>2. \A c \in Callers : DOMAIN todo'[c] = {}
    BY <1>1 DEF CoordinatorRestarts, Nothing
  <2> QED
    BY <2>1, <2>2 DEF RowsInTurn
<1>2. ASSUME thread' = thread, call' = call, todo' = todo
      PROVE  ThreadsInTurn' /\ CallsInTurn' /\ RowsInTurn'
  BY <1>2, ThreadsSame, CallsSame, RowsKept
<1>3. CASE GroupRuns \/ GroupStops
  BY <1>2, <1>3 DEF GroupRuns, GroupStops
<1>4. ASSUME NEW m \in Migrations, LoadChunks(m) \/ OperatorStep(m)
      PROVE  thread' = thread /\ call' = call /\ todo' = todo
  BY <1>4 DEF LoadChunks, OperatorStep, Run, Cancel, Pause, Resume, FullRestart
<1>5. CASE UNCHANGED vars
  BY <1>2, <1>5 DEF vars
<1> QED
  BY <1>1, <1>2, <1>3, <1>4, <1>5

(* A thread's step leaves the handlers alone.                               *)
LEMMA ThreadsApart ==
  ASSUME NEW s \in Slots, ThreadStep(s) \/ ThreadRaises(s)
  PROVE  todo' = todo /\ call' = call
BY DEF ThreadStep, ReadPhase, Advance, CreateChunks, SaveChunks, Conclude,
       ReadPhaseOfFailure, ThreadRaises

LEMMA InitOrdered == Init => OrderInv
<1> SUFFICES ASSUME Init PROVE ThreadsInTurn /\ CallsInTurn /\ RowsInTurn
  BY DEF OrderInv
<1>1. ThreadsInTurn /\ CallsInTurn
  BY DEF Init, ThreadsInTurn, CallsInTurn, NoThread, NoCall
<1>2. \A c \in Callers : DOMAIN todo[c] = {}
  BY DEF Init, Nothing
<1> QED
  BY <1>1, <1>2 DEF RowsInTurn

LEMMA StepOrdered ==
  TypeOK /\ Named /\ OrderInv /\ [Next]_vars => OrderInv'
<1> SUFFICES ASSUME TypeOK, Named, OrderInv, [Next]_vars, restarts' = 0
             PROVE  ThreadsInTurn' /\ CallsInTurn' /\ RowsInTurn'
  BY DEF OrderInv
<1>1. restarts = 0
  BY RestartsCount
<1>2. ThreadsInTurn /\ CallsInTurn /\ RowsInTurn
  BY <1>1 DEF OrderInv
<1>3. AllOnward
  BY <1>1, StepOnward DEF AllOnward
<1>4. ASSUME NEW s \in Slots, ThreadStep(s) \/ ThreadRaises(s)
      PROVE  ThreadsInTurn' /\ CallsInTurn' /\ RowsInTurn'
  <2>1. todo' = todo /\ call' = call
    BY <1>4, ThreadsApart
  <2>2. CallsInTurn' /\ RowsInTurn'
    BY <1>2, <1>3, <2>1, CallsSame, RowsKept
  <2> QED
    BY <1>2, <1>3, <1>4, <2>2, ThreadsStayInTurn
<1>5. CASE \/ TickStep \/ KickRead \/ KickStep
           \/ \E c \in Callers, m \in Migrations : HandlerRaises(c, m)
  BY <1>2, <1>3, <1>5, CallersStayInTurn
<1>6. CASE \/ CoordinatorRestarts \/ GroupRuns \/ GroupStops
           \/ \E m \in Migrations : LoadChunks(m) \/ OperatorStep(m)
           \/ UNCHANGED vars
  BY <1>2, <1>3, <1>6, RequestsStayInTurn
<1> QED
  BY <1>4, <1>5, <1>6 DEF Next

(* A step that takes a migration from NEW into a heavy phase is a thread's, *)
(* and the thread was started in the migration's turn.                      *)
LEMMA StepInTurn ==
  ASSUME TypeOK, Named, OrderInv, [Next]_vars,
         NEW m \in Migrations, phase[m] = "NEW", phase'[m] \in Heavy, restarts = 0
  PROVE  First(m)
<1> USE DEF db, Heavy
<1>0. ThreadsInTurn /\ CallsInTurn /\ RowsInTurn
  BY DEF OrderInv
<1>1. phase' # phase
  OBVIOUS
<1>2. ASSUME NEW n \in Migrations, NEW p, Enter(n, p)
      PROVE  n = m /\ p \in Heavy
  BY <1>2 DEF Enter, TypeOK
<1>3. ASSUME NEW s \in Slots, Advance(s)
      PROVE  First(m)
  <2>1. Mig(s) \in Migrations
    BY <1>3 DEF Advance, Named, NamedThreads, Mig
  <2>2. Mig(s) = m
    BY <1>2, <1>3, <2>1 DEF Advance
  <2> QED
    BY <1>0, <1>3, <2>2 DEF Advance, ThreadsInTurn, Mig
<1>4. ASSUME NEW s \in Slots, Conclude(s)
      PROVE  FALSE
  <2>1. Mig(s) \in Migrations /\ (phase[Mig(s)] = "NEW" => thread[s].at = "fail")
    BY <1>0, <1>4 DEF Conclude, Named, NamedThreads, ThreadsInTurn, Mig
  <2>2. PICK p : Enter(Mig(s), p) /\ (thread[s].at = "fail" => p = "FAILED")
    BY <1>4 DEF Conclude
  <2> QED
    BY <1>2, <2>1, <2>2
<1>5. ASSUME NEW n \in Migrations, MoveOn(n)
      PROVE  FALSE
  <2>1. PICK p : Enter(n, p)
    BY <1>5 DEF MoveOn
  <2>2. n = m
    BY <1>2, <2>1
  <2> QED
    BY <1>0, <1>5, <2>2 DEF MoveOn, Turn, RowsInTurn, Callers
<1>6. CASE Transition
  <2>1. call["tick"].mig \in Migrations
    BY <1>6 DEF Transition, Named, NamedCalls, Callers
  <2>2. call["tick"].mig = m /\ call["tick"].at \in Heavy
    BY <1>2, <1>6, <2>1 DEF Transition
  <2> QED
    BY <1>0, <1>6, <2>2 DEF Transition, CallsInTurn, Callers
<1>7. ASSUME NEW n \in Migrations, OperatorStep(n)
      PROVE  FALSE
  <2>1. \/ phase' = phase
        \/ \E p \in {"DRAFT", "NEW", "CANCELLING"} : Enter(n, p)
    BY <1>7 DEF OperatorStep, Run, Cancel, Pause, Resume, FullRestart
  <2> QED
    BY <1>1, <1>2, <2>1
<1>8. ASSUME NEW s \in Slots, ThreadStep(s) \/ ThreadRaises(s)
      PROVE  First(m)
  BY <1>1, <1>3, <1>4, <1>8 DEF ThreadStep, ReadPhase, CreateChunks, SaveChunks,
                                ReadPhaseOfFailure, ThreadRaises
<1>9. CASE TickStep \/ KickRead \/ KickStep
  BY <1>1, <1>5, <1>6, <1>9 DEF TickStep, KickStep, KickRead, CallerStep, TickRead, CountSlots,
                                TakePosition, StartPreparing, StartThread, Decide
<1>10. ASSUME NEW c \in Callers, NEW n \in Migrations, HandlerRaises(c, n)
       PROVE  FALSE
  BY <1>1, <1>10 DEF HandlerRaises
<1>11. CASE CoordinatorRestarts \/ GroupRuns \/ GroupStops \/ UNCHANGED vars
  BY <1>1, <1>11 DEF CoordinatorRestarts, GroupRuns, GroupStops, vars
<1>12. ASSUME NEW n \in Migrations, LoadChunks(n)
       PROVE  FALSE
  BY <1>1, <1>12 DEF LoadChunks
<1> QED
  BY <1>7, <1>8, <1>9, <1>10, <1>11, <1>12 DEF Next

(* Whatever the tick, the kicks, the threads, the operator and crashes do:  *)
(* until something is restarted, a migration enters a heavy phase only when *)
(* fewer NEW migrations than its lane has slots are ahead of it.            *)
THEOREM LeavesInTurn == Safety => InTurn
<1>1. Init => TypeOK /\ Named /\ OrderInv
  BY InitTyped, InitOrdered
<1>2. TypeOK /\ Named /\ OrderInv /\ [Next]_vars => (TypeOK /\ Named /\ OrderInv)'
  BY StepTyped, StepOrdered
<1>3. TypeOK /\ Named /\ OrderInv /\ [Next]_vars
      => [\A m \in Migrations :
            (phase[m] = "NEW" /\ phase'[m] \in Heavy /\ restarts = 0)
              => Cardinality(ahead[m] \cap Lane(m)) < Limit(m)]_vars
  BY StepInTurn DEF First
<1> QED
  BY <1>1, <1>2, <1>3, PTL DEF Safety, InTurn
=============================================================================
