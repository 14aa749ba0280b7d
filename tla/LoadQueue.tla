------------------------------ MODULE LoadQueue ------------------------------
(***************************************************************************)
(* The first half of a migration's life: from DRAFT through the queue of   *)
(* NEW migrations and the heavy phases, in which it occupies a load slot   *)
(* of its lane, to the phase that releases the slot.  The coordinator's    *)
(* tick reads all phases and then runs one handler per migration; handlers *)
(* start threads; a kick (from a route or from a connector group's thread) *)
(* runs _handle_new at the same time; the operator runs, cancels, pauses,  *)
(* resumes and restarts (services/orchestrator.py, routes/migrations.py).  *)
(*                                                                         *)
(* The workers' part, the loading of the chunks, is BulkLoad; here it is   *)
(* one step.  RELEASED stands for the phase that releases the slot and     *)
(* all that follow (BASELINE_PUBLISHING or INDEXES_ENABLING and on).       *)
(***************************************************************************)
EXTENDS Naturals, FiniteSets

CONSTANTS
  Migrations,   \* migrations: one table each
  None,         \* no migration
  Cdc,          \* those with a CDC strategy: a lane of their own
  Staged,       \* those with a STAGE strategy
  Empty,        \* those whose source table has no rows
  Kicked,       \* may _handle_new run outside the tick (_kick_new_migrations_for_group)?
  CdcLimit,     \* runtime.cdc_parallel_migrations
  NumThreads,   \* bound: threads of the coordinator at a time
  MaxFaults,    \* bound: coordinator crashes, errors in handlers and threads
  MaxCancels,   \* bound: cancel requests
  MaxRestarts,  \* bound: full-restart requests
  MaxPauses     \* bound: pause requests

ASSUME LoadQueueAssumption ==
  /\ None \notin Migrations /\ IsFiniteSet(Migrations)
  /\ Cdc \subseteq Migrations /\ Staged \subseteq Migrations /\ Empty \subseteq Migrations
  /\ Kicked \in BOOLEAN
  /\ CdcLimit \in Nat \ {0} /\ NumThreads \in Nat
  /\ MaxFaults \in Nat /\ MaxCancels \in Nat /\ MaxRestarts \in Nat /\ MaxPauses \in Nat

Heavy == {"TOPIC_CREATING", "CHUNKING", "BULK_LOADING", "BULK_LOADED",
          "STAGE_VALIDATING", "STAGE_VALIDATED"}
\* get_active_migrations, and the action route's list for "pause".
ActivePhases == Heavy \cup {"NEW", "CANCELLING"}
PausePhases == Heavy \cup {"NEW", "RELEASED"}
Phases == Heavy \cup {"DRAFT", "NEW", "RELEASED", "FAILED", "CANCELLING", "CANCELLED"}

Callers == {"tick", "kick"}   \* who runs handlers
Kinds == {"prepare", "topic", "validate", "cut"}
Slots == 1 .. NumThreads

VARIABLES
  phase,     \* migrations.phase
  paused,    \* migrations.paused
  ahead,     \* of a NEW migration: the NEW ones with an earlier state_changed_at
  chunks,    \* the BULK rows of migration_chunks
  running,   \* is the status of the CDC group RUNNING?
  inProg,    \* _in_progress
  thread,    \* the coordinator's threads
  todo,      \* of each caller: the rows it has read and not yet handled
  call,      \* of each caller: where it is inside a handler
  faults, cancels, restarts, pauses   \* used up of the bounds

db == <<phase, paused, ahead, chunks, running>>
requests == <<cancels, restarts, pauses>>
vars == <<db, inProg, thread, todo, call, faults, requests>>

NoThread == [kind |-> "cut", at |-> "none", mig |-> None]
NoCall == [at |-> "idle", mig |-> None, free |-> 0]
Steps == {"none", "read", "advance", "stats", "save", "chunked", "empty",
          "failed?", "fail"}

Snapshots == UNION {[S -> ActivePhases] : S \in SUBSET Migrations}

TypeOK ==
  /\ phase \in [Migrations -> Phases]
  /\ paused \in [Migrations -> BOOLEAN]
  /\ ahead \in [Migrations -> SUBSET Migrations]
  /\ chunks \in [Migrations -> {"none", "pending", "done", "failed"}]
  /\ running \in BOOLEAN
  /\ inProg \subseteq Migrations
  /\ thread \in [Slots -> [kind : Kinds, at : Steps, mig : Migrations \cup {None}]]
  /\ todo \in [Callers -> Snapshots]
  /\ call \in [Callers -> [at : {"idle", "position", "mark", "BULK_LOADED", "FAILED",
                                 "CANCELLED"},
                           mig : Migrations \cup {None}, free : 0 .. CdcLimit]]
  /\ faults \in 0 .. MaxFaults
  /\ cancels \in 0 .. MaxCancels /\ restarts \in 0 .. MaxRestarts /\ pauses \in 0 .. MaxPauses

Nothing == [m \in {} |-> "NEW"]

Init ==
  /\ phase = [m \in Migrations |-> "DRAFT"]
  /\ paused = [m \in Migrations |-> FALSE]
  /\ ahead = [m \in Migrations |-> {}]
  /\ chunks = [m \in Migrations |-> "none"]
  /\ running = FALSE
  /\ inProg = {}
  /\ thread = [s \in Slots |-> NoThread]
  /\ todo = [c \in Callers |-> Nothing]
  /\ call = [c \in Callers |-> NoCall]
  /\ faults = 0
  /\ cancels = 0 /\ restarts = 0 /\ pauses = 0

----------------------------------------------------------------------------
(* The migrations table. *)

\* _transition, and every other UPDATE of the phase: whatever it was before.
Enter(m, p) ==
  /\ phase' = [phase EXCEPT ![m] = p]
  /\ ahead' = [n \in Migrations |->
       IF n # m THEN ahead[n] \ {m}
       ELSE IF p = "NEW" THEN {k \in Migrations \ {m} : phase[k] = "NEW"} ELSE {}]

Lane(m) == {n \in Migrations : n \in Cdc <=> m \in Cdc}
Limit(m) == IF m \in Cdc THEN CdcLimit ELSE 1

\* Mutant of HeavyIn: what waits for a slot counts as busy with one.
BusyIn(m) == {n \in Lane(m) \ {m} : phase[n] \in ActivePhases}

HeavyIn(m) == {n \in Lane(m) \ {m} : phase[n] \in Heavy}
FreeSlots(m) ==
  IF Cardinality(HeavyIn(m)) < Limit(m) THEN Limit(m) - Cardinality(HeavyIn(m)) ELSE 0
Runnable(m) == m \in Cdc => running

\* Mutant of Admitted: the NEW migrations that are ahead are not counted.
AdmittedAnyway(m, free) == phase[m] = "NEW" /\ Runnable(m)

\* The runnable_position is within the slots that were free a while ago.
Admitted(m, free) ==
  phase[m] = "NEW" /\ Runnable(m) /\ Cardinality(ahead[m] \cap Lane(m)) < free

----------------------------------------------------------------------------
(* Threads. *)

FreeThread == CHOOSE s \in Slots : thread[s].at = "none"
\* Where a thread is in its run: "read" is the end of its Oracle or Kafka work.
FirstStep(k, m) == IF k # "cut" THEN "read" ELSE IF m \in Empty THEN "empty" ELSE "save"
Started(k, m) == [kind |-> k, at |-> FirstStep(k, m), mig |-> m]

Mark(m) == inProg' = inProg \cup {m}

\* Mutant of Unmark: the mark is left.
UnmarkForgotten(m) == inProg' = inProg

Unmark(m) == inProg' = inProg \ {m}

Start(k, m) ==
  /\ \E s \in Slots : thread[s].at = "none"
  /\ Mark(m)
  /\ thread' = [thread EXCEPT ![FreeThread] = Started(k, m)]

Expected(k) == CASE k = "prepare" -> "NEW" [] k = "topic" -> "TOPIC_CREATING"
                 [] OTHER -> "STAGE_VALIDATING"
Following(k, m) == CASE k = "prepare" /\ m \in Cdc -> "TOPIC_CREATING"
                     [] k = "validate" -> "STAGE_VALIDATED"
                     [] OTHER -> "CHUNKING"

Goto(s, at) == thread' = [thread EXCEPT ![s].at = at]
Mig(s) == thread[s].mig
Ended(s) == thread' = [thread EXCEPT ![s] = NoThread] /\ Unmark(Mig(s))

\* What a thread does after _safe_transition, whatever that returned: take
\* off its mark, and end or go on to create the chunks.
Proceed(s) ==
  /\ Unmark(Mig(s))
  /\ thread' = [thread EXCEPT ![s] =
       IF Following(@.kind, @.mig) = "CHUNKING" THEN [@ EXCEPT !.at = "stats"] ELSE NoThread]

\* _safe_transition reads the phase in one transaction ...
ReadPhase(s) ==
  /\ thread[s].at = "read"
  /\ IF phase[Mig(s)] = Expected(thread[s].kind) THEN Goto(s, "advance") /\ UNCHANGED inProg
     ELSE Proceed(s)
  /\ UNCHANGED <<db, todo, call, faults, requests>>

\* ... and changes it in another.
Advance(s) ==
  /\ thread[s].at = "advance"
  /\ Enter(Mig(s), Following(thread[s].kind, Mig(s)))
  /\ Proceed(s)
  /\ UNCHANGED <<paused, chunks, running, todo, call, faults, requests>>

\* _create_chunks_and_transition: go back to CHUNKING if there are chunks, or
\* start the chunk thread.  That one gets a mark, but the finally clause of
\* this one takes it off before it has begun.
CreateChunks(s) ==
  /\ thread[s].at = "stats"
  /\ IF Mig(s) \in inProg THEN Ended(s)
     ELSE /\ thread' = [thread EXCEPT ![s] =
               IF chunks[Mig(s)] # "none" THEN [@ EXCEPT !.at = "chunked"]
                                          ELSE Started("cut", Mig(s))]
          /\ Unmark(Mig(s))
  /\ UNCHANGED <<db, todo, call, faults, requests>>

\* The chunk thread; chunks that are already there stay.
SaveChunks(s) ==
  /\ thread[s].at = "save"
  /\ chunks' = [chunks EXCEPT ![Mig(s)] = IF @ = "none" THEN "pending" ELSE @]
  /\ Goto(s, "chunked")
  /\ UNCHANGED <<phase, paused, ahead, running, inProg, todo, call, faults, requests>>

\* The unconditional transitions at the end of a thread.
Conclude(s) ==
  /\ thread[s].at \in {"chunked", "empty", "fail"}
  /\ Enter(Mig(s), CASE thread[s].at = "chunked" -> "CHUNKING"
                     [] thread[s].at = "empty" -> "RELEASED"
                     [] OTHER -> "FAILED")
  /\ Ended(s)
  /\ UNCHANGED <<paused, chunks, running, todo, call, faults, requests>>

\* An exception: the chunk thread fails the migration at once, the others
\* look at the phase first.
ThreadRaises(s) ==
  /\ thread[s].at \in {"read", "advance", "stats", "save", "chunked", "empty"}
  /\ faults < MaxFaults /\ faults' = faults + 1
  /\ Goto(s, IF thread[s].kind = "cut" THEN "fail" ELSE "failed?")
  /\ UNCHANGED <<db, inProg, todo, call, requests>>

ReadPhaseOfFailure(s) ==
  /\ thread[s].at = "failed?"
  /\ IF phase[Mig(s)] \in {"CANCELLING", "CANCELLED"} THEN Ended(s)
     ELSE Goto(s, "fail") /\ UNCHANGED inProg
  /\ UNCHANGED <<db, todo, call, faults, requests>>

ThreadStep(s) ==
  \/ ReadPhase(s) \/ Advance(s) \/ CreateChunks(s) \/ SaveChunks(s)
  \/ Conclude(s) \/ ReadPhaseOfFailure(s)

----------------------------------------------------------------------------
(* The tick and the kick. *)

Rest(c, m) == [n \in DOMAIN todo[c] \ {m} |-> todo[c][n]]
Turn(c, m) == call[c].at = "idle" /\ m \in DOMAIN todo[c]
Handled(c, m) == todo' = [todo EXCEPT ![c] = Rest(c, m)]
Return(c) == call' = [call EXCEPT ![c] = NoCall]

\* Mutant of TickRead: all migrations that are not paused.
TickReadAll ==
  /\ call["tick"].at = "idle" /\ todo["tick"] = Nothing
  /\ LET active == {m \in Migrations : ~paused[m]}
     IN todo' = [todo EXCEPT !["tick"] = [m \in active |-> phase[m]]]
  /\ UNCHANGED <<db, inProg, thread, call, faults, requests>>

TickRead ==
  /\ call["tick"].at = "idle" /\ todo["tick"] = Nothing
  /\ LET active == {m \in Migrations : phase[m] \in ActivePhases /\ ~paused[m]}
     IN todo' = [todo EXCEPT !["tick"] = [m \in active |-> phase[m]]]
  /\ UNCHANGED <<db, inProg, thread, call, faults, requests>>

\* _kick_new_migrations_for_group: paused migrations too.
KickRead ==
  /\ call["kick"].at = "idle" /\ todo["kick"] = Nothing /\ running /\ Kicked
  /\ LET first == {m \in Cdc : phase[m] = "NEW" /\ Cardinality(ahead[m] \cap Cdc) < CdcLimit}
     IN todo' = [todo EXCEPT !["kick"] = [m \in first |-> "NEW"]]
  /\ UNCHANGED <<db, inProg, thread, call, faults, requests>>

\* _handle_new: count the busy slots of the lane, ...
CountSlots(c, m) ==
  /\ Turn(c, m) /\ todo[c][m] = "NEW"
  /\ Handled(c, m)
  /\ call' = IF Runnable(m) /\ FreeSlots(m) > 0
             THEN [call EXCEPT ![c] = [at |-> "position", mig |-> m, free |-> FreeSlots(m)]]
             ELSE call
  /\ UNCHANGED <<db, inProg, thread, faults, requests>>

\* ... then the place in the queue; look for a thread, ...
TakePosition(c) ==
  /\ call[c].at = "position"
  /\ call' = [call EXCEPT ![c] =
       IF Admitted(call[c].mig, call[c].free) /\ call[c].mig \notin inProg
       THEN [@ EXCEPT !.at = "mark"] ELSE NoCall]
  /\ UNCHANGED <<db, inProg, thread, todo, faults, requests>>

\* ... and start one.
StartPreparing(c) ==
  /\ call[c].at = "mark"
  /\ Start("prepare", call[c].mig)
  /\ Return(c)
  /\ UNCHANGED <<db, todo, faults, requests>>

\* _handle_topic_creating, _handle_stage_validating
StartThread(m) ==
  /\ Turn("tick", m) /\ todo["tick"][m] \in {"TOPIC_CREATING", "STAGE_VALIDATING"}
  /\ Handled("tick", m)
  /\ IF m \in inProg THEN UNCHANGED <<inProg, thread>>
     ELSE Start(IF todo["tick"][m] = "TOPIC_CREATING" THEN "topic" ELSE "validate", m)
  /\ UNCHANGED <<db, call, faults, requests>>

\* _handle_chunking, _handle_bulk_loaded, _handle_stage_validated: an
\* unconditional transition.
MoveOn(m) ==
  /\ Turn("tick", m) /\ todo["tick"][m] \in {"CHUNKING", "BULK_LOADED", "STAGE_VALIDATED"}
  /\ Handled("tick", m)
  /\ Enter(m, CASE todo["tick"][m] = "CHUNKING" -> "BULK_LOADING"
                [] todo["tick"][m] = "BULK_LOADED" /\ m \in Staged -> "STAGE_VALIDATING"
                [] OTHER -> "RELEASED")
  /\ UNCHANGED <<paused, chunks, running, inProg, thread, call, faults, requests>>

\* _handle_bulk_loading reads the chunks, _handle_cancelling looks for a
\* thread; both transitions follow later.
Decide(m) ==
  /\ Turn("tick", m) /\ todo["tick"][m] \in {"BULK_LOADING", "CANCELLING"}
  /\ Handled("tick", m)
  /\ LET decided(p) == [call EXCEPT !["tick"] = [at |-> p, mig |-> m, free |-> 0]]
     IN call' = IF todo["tick"][m] = "CANCELLING"
                THEN IF m \in inProg THEN call ELSE decided("CANCELLED")
                ELSE CASE chunks[m] = "done" -> decided("BULK_LOADED")
                       [] chunks[m] = "failed" -> decided("FAILED")
                       [] OTHER -> call
  /\ UNCHANGED <<db, inProg, thread, faults, requests>>

Transition ==
  /\ call["tick"].at \in {"BULK_LOADED", "FAILED", "CANCELLED"}
  /\ Enter(call["tick"].mig, call["tick"].at)
  /\ Return("tick")
  /\ UNCHANGED <<paused, chunks, running, inProg, thread, todo, faults, requests>>

\* A State DB error in a handler, at its start or later: the tick fails the
\* migration, the kick gives up and may take its group to FAILED.
HandlerRaises(c, m) ==
  /\ IF call[c].at = "idle" THEN m \in DOMAIN todo[c] ELSE m = call[c].mig
  /\ faults < MaxFaults /\ faults' = faults + 1
  /\ IF c = "tick"
     THEN /\ call' = [call EXCEPT ![c] = [at |-> "FAILED", mig |-> m, free |-> 0]]
          /\ Handled(c, m)
          /\ UNCHANGED running
     ELSE /\ Return(c)
          /\ todo' = [todo EXCEPT ![c] = Nothing]
          /\ running' \in {running, FALSE}
  /\ UNCHANGED <<phase, paused, ahead, chunks, inProg, thread, requests>>

CallerStep(c) ==
  \/ \E m \in Migrations : CountSlots(c, m)
  \/ TakePosition(c) \/ StartPreparing(c)

TickStep ==
  \/ TickRead \/ CallerStep("tick") \/ Transition
  \/ \E m \in Migrations : StartThread(m) \/ MoveOn(m) \/ Decide(m)

KickStep == CallerStep("kick")

CoordinatorRestarts ==
  /\ faults < MaxFaults /\ faults' = faults + 1
  /\ inProg' = {}
  /\ thread' = [s \in Slots |-> NoThread]
  /\ todo' = [c \in Callers |-> Nothing]
  /\ call' = [c \in Callers |-> NoCall]
  /\ UNCHANGED <<db, requests>>

----------------------------------------------------------------------------
(* The workers, the connector group and the operator. *)

LoadChunks(m) ==
  /\ phase[m] = "BULK_LOADING" /\ ~paused[m] /\ chunks[m] = "pending"
  /\ \E r \in {"done", "failed"} : chunks' = [chunks EXCEPT ![m] = r]
  /\ UNCHANGED <<phase, paused, ahead, running, inProg, thread, todo, call, faults, requests>>

GroupRuns ==
  /\ Cdc # {} /\ ~running
  /\ running' = TRUE
  /\ UNCHANGED <<phase, paused, ahead, chunks, inProg, thread, todo, call, faults, requests>>

\* Its connector fails or the operator stops it.
GroupStops ==
  /\ running
  /\ faults < MaxFaults /\ faults' = faults + 1
  /\ running' = FALSE
  /\ UNCHANGED <<phase, paused, ahead, chunks, inProg, thread, todo, call, requests>>

Run(m) ==
  /\ phase[m] = "DRAFT"
  /\ Enter(m, "NEW")
  /\ UNCHANGED <<paused, chunks, running, inProg, thread, todo, call, faults, requests>>

Cancel(m) ==
  /\ cancels < MaxCancels /\ cancels' = cancels + 1
  /\ Enter(m, "CANCELLING")
  /\ UNCHANGED <<paused, chunks, running, inProg, thread, todo, call, faults, restarts, pauses>>

Pause(m) ==
  /\ phase[m] \in PausePhases /\ ~paused[m]
  /\ pauses < MaxPauses /\ pauses' = pauses + 1
  /\ paused' = [paused EXCEPT ![m] = TRUE]
  /\ UNCHANGED <<phase, ahead, chunks, running, inProg, thread, todo, call, faults, cancels, restarts>>

Resume(m) ==
  /\ paused[m]
  /\ paused' = [paused EXCEPT ![m] = FALSE]
  /\ UNCHANGED <<phase, ahead, chunks, running, inProg, thread, todo, call, faults, requests>>

\* full-restart, from any phase, to DRAFT or straight to NEW.
FullRestart(m) ==
  /\ restarts < MaxRestarts /\ restarts' = restarts + 1
  /\ chunks' = [chunks EXCEPT ![m] = "none"]
  /\ \E p \in {"DRAFT", "NEW"} : Enter(m, p)
  /\ UNCHANGED <<paused, running, inProg, thread, todo, call, faults, cancels, pauses>>

OperatorStep(m) == Run(m) \/ Cancel(m) \/ Pause(m) \/ Resume(m) \/ FullRestart(m)

----------------------------------------------------------------------------

Next ==
  \/ \E s \in Slots : ThreadStep(s) \/ ThreadRaises(s)
  \/ TickStep \/ KickRead \/ KickStep \/ \E c \in Callers, m \in Migrations : HandlerRaises(c, m)
  \/ CoordinatorRestarts \/ GroupRuns \/ GroupStops
  \/ \E m \in Migrations : LoadChunks(m) \/ OperatorStep(m)

Safety == Init /\ [][Next]_vars

\* The tick runs every TICK_INTERVAL, threads and a kick's handlers run to
\* their end, and workers poll; the operator, the group and faults may do
\* nothing.
Fairness ==
  /\ WF_vars(TickStep)
  /\ WF_vars(KickStep)
  /\ \A s \in Slots : WF_vars(ThreadStep(s))
  /\ \A m \in Migrations : WF_vars(LoadChunks(m))

Spec == Safety /\ Fairness

----------------------------------------------------------------------------
(* Properties. *)

(* A migration leaves the queue of its lane in turn: when one enters a      *)
(* heavy phase, fewer NEW migrations than the lane has slots are ahead of   *)
(* it, although slots, place and thread are looked at in three transactions *)
(* of two callers and the phase is changed by a fourth.  Only a full        *)
(* restart of a migration whose thread is under way can break this.         *)
InTurn ==
  [][\A m \in Migrations :
       (phase[m] = "NEW" /\ phase'[m] \in Heavy /\ restarts = 0)
         => Cardinality(ahead[m] \cap Lane(m)) < Limit(m)]_vars

(* Without faults, pauses, restarts and kicks, every NEW migration whose    *)
(* group is running gets its turn: the migrations ahead of it leave their   *)
(* slot, and no in-progress mark is left behind by a thread that has ended. *)
TurnComes ==
  \A m \in Migrations :
    (phase[m] = "NEW") ~>
      (phase[m] # "NEW" \/ ~Runnable(m) \/ faults > 0 \/ restarts > 0 \/ Kicked
       \/ \E n \in Lane(m) : paused[n])

(* A cancellation is answered: whatever thread it met, and whether that     *)
(* raised or its process died, a migration that is not paused does not stay *)
(* CANCELLING (_handle_cancelling waits for the in-progress mark).          *)
CancelAnswered ==
  \A m \in Migrations : (phase[m] = "CANCELLING") ~> (phase[m] # "CANCELLING" \/ paused[m])

(* orchestrator.py:1312: _handle_cancelling waits for any in-flight thread  *)
(* to finish before the migration becomes CANCELLED.  Only the operator     *)
(* takes a migration out of CANCELLED.                                      *)
CancelledIsFinal ==
  [][\A m \in Migrations :
       (phase[m] = "CANCELLED" /\ requests' = requests) => phase'[m] = "CANCELLED"]_vars
=============================================================================
