------------------------------ MODULE CdcApply ------------------------------
(***************************************************************************)
(* The changes of one table, which Debezium puts on a Kafka topic while    *)
(* the table is copied, and the workers that apply them to the target      *)
(* (workers/worker.py, cdc_thread; workers/common.py; the handlers of the  *)
(* CDC phases in services/orchestrator.py).                                *)
(*                                                                         *)
(* A worker claims the migration by a heartbeat, joins the consumer group, *)
(* polls a batch, commits it in Oracle and then its position in Kafka.     *)
(* Nothing but the group keeps two workers apart: a heartbeat taken away   *)
(* by a pause, or grown stale under a slow batch, lets another worker      *)
(* claim the migration while the first one is at work.                     *)
(*                                                                         *)
(* The topic has one partition, the default (connector_groups.py:592).  An *)
(* event is its offset, 1, 2, ...; it brings the row of its key to what    *)
(* the source had, so a row of the target is the offset it was last        *)
(* written from, 0 for the copy.  Kafka is modelled from its use: the      *)
(* group gives the partition to one member, which goes on from the         *)
(* committed offset, and refuses the commit of anybody else.               *)
(***************************************************************************)
EXTENDS Naturals, FiniteSets

CONSTANTS
  CdcWorkers,      \* the workers, each in a process of its own
  Keys,            \* keys of the table
  EventKey,        \* offset -> the key of the row it changes
  MaxEvent,        \* bound: events
  MaxBatch,        \* CDC_BATCH_SIZE
  PoisonThreshold, \* how often an event may fail under one thread
  MaxTroubles      \* bound: kind of trouble -> how often it happens

NoWorker == "nobody"
TroubleKinds == {"failures", "deaths", "pauses", "cancels", "faults", "slow"}

ASSUME CdcAssumption ==
  /\ NoWorker \notin CdcWorkers
  /\ MaxEvent \in Nat /\ MaxBatch \in Nat \ {0} /\ PoisonThreshold \in Nat \ {0}
  /\ EventKey \in [1..MaxEvent -> Keys]
  /\ MaxTroubles \in [TroubleKinds -> Nat]

VARIABLES
  cdcPhase,        \* migrations.phase
  cdcPaused,       \* migrations.paused
  heartbeat,       \* worker_id and worker_heartbeat: whose, and whether it is recent
  lagRow,          \* the lag: was it measured (lag_by_partition), is total_lag zero, and (history)
                   \* what end of the topic does it speak of
  cdcTick,         \* the tick: the phase it read, and the end of the topic it is about to declare
  produced,        \* Kafka: how many events the topic has
  committed,       \* the committed offset of the group, 0 when there is none
  members,         \* the members of the group
  owner,           \* the member that has the partition
  applier,         \* worker -> its thread: the next step, whether it was given the partition, its
                   \* position, where the batch began, and the measurement under way
  failCount,       \* worker -> fail_offsets of its thread
  target,          \* Oracle: key -> the offset its row was last written from
  rolledBack,      \* history: events whose batch failed and that were not applied since
  undone,          \* history: events written over by a worker that was out of the group
  firstFailed,     \* history: a batch failed before anything was committed
  caughtUpTo,      \* history: the end of the topic at the measurement CDC_CAUGHT_UP rests on
  trouble          \* troubles so far

cdcVars == <<cdcPhase, cdcPaused, heartbeat, lagRow, cdcTick, produced, committed, members, owner,
             applier, failCount, target, rolledBack, undone, firstFailed, caughtUpTo, trouble>>
stateDb == <<cdcPhase, cdcPaused, heartbeat, lagRow>>
kafka == <<produced, committed, members, owner>>
targetTable == <<target, rolledBack, undone>>
history == <<firstFailed, caughtUpTo>>

Offsets == 0..MaxEvent
CdcPhases == {"CDC_APPLYING", "CDC_CATCHING_UP", "CDC_CAUGHT_UP", "STEADY_STATE"}
Stopped == {"FAILED", "CANCELLING"}
Steps == {"off", "loop", "polling", "applying", "applied", "measured", "checked in", "fatal", "stopping"}
NoTick == [step |-> "idle", saw |-> "none", end |-> 0]
NoFailure == [e \in 1..MaxEvent |-> 0]
NoHeartbeat == [by |-> NoWorker, fresh |-> FALSE]
NewThread == [step |-> "off", assigned |-> FALSE, from |-> 0, pos |-> 0, zero |-> FALSE, end |-> 0]

CdcTypeOK ==
  /\ cdcPhase \in CdcPhases \cup Stopped /\ cdcPaused \in BOOLEAN
  /\ heartbeat \in [by : CdcWorkers \cup {NoWorker}, fresh : BOOLEAN]
  /\ lagRow \in [measured : BOOLEAN, zero : BOOLEAN, end : Offsets]
  /\ cdcTick \in [step : {"idle", "read", "write"}, saw : CdcPhases \cup {"none"}, end : Offsets]
  /\ produced \in Offsets /\ committed \in Offsets
  /\ members \subseteq CdcWorkers /\ owner \in members \cup {NoWorker}
  /\ applier \in [CdcWorkers -> [step : Steps, assigned : BOOLEAN, from : Offsets, pos : Offsets,
                                 zero : BOOLEAN, end : Offsets]]
  /\ failCount \in [CdcWorkers -> [1..MaxEvent -> 0..PoisonThreshold]]
  /\ target \in [Keys -> Offsets] /\ rolledBack \subseteq 1..MaxEvent /\ undone \subseteq 1..MaxEvent
  /\ firstFailed \in BOOLEAN /\ caughtUpTo \in Offsets
  /\ trouble \in [TroubleKinds -> Nat] /\ \A k \in TroubleKinds : trouble[k] <= MaxTroubles[k]

Trouble(kind) == trouble[kind] < MaxTroubles[kind] /\ trouble' = [trouble EXCEPT ![kind] = @ + 1]
At(w, s) == applier[w].step = s
Goes(w, s) == applier' = [applier EXCEPT ![w].step = s]
Comes(w, s) == applier' = [applier EXCEPT ![w] = [@ EXCEPT !.step = s, !.from = 0, !.zero = FALSE, !.end = 0]]
Quits(w, s) == applier' = [applier EXCEPT ![w] = [NewThread EXCEPT !.step = s]]
Ends(w) == applier' = [applier EXCEPT ![w] = NewThread] /\ failCount' = [failCount EXCEPT ![w] = NoFailure]
ShouldRun == cdcPhase \in CdcPhases /\ ~ cdcPaused
Batch(w) == (applier[w].from + 1)..applier[w].pos
InBatch(w) == applier[w].step \in {"applying", "applied"}

-----------------------------------------------------------------------------
(* The thread of a worker.                                                 *)

\* claim_cdc_migration: no heartbeat, or a stale one; cdc_manager leaves out the migrations
\* that its own threads are at.  By then the group has forgotten an earlier consumer of it.
ClaimCdc(w) ==
  /\ At(w, "off") /\ w \notin members
  /\ cdcPhase \in CdcPhases \ {"CDC_CAUGHT_UP"} /\ ~ cdcPaused
  /\ heartbeat.by = NoWorker \/ ~ heartbeat.fresh
  /\ heartbeat' = [by |-> w, fresh |-> TRUE] /\ Goes(w, "loop")
  /\ UNCHANGED <<cdcPhase, cdcPaused, lagRow, cdcTick, kafka, failCount, targetTable, history, trouble>>

\* cdc_migration_should_run, at the head of the loop.
LooksUp(w) ==
  /\ At(w, "loop") /\ (IF ShouldRun THEN Goes(w, "polling") ELSE Quits(w, "stopping"))
  /\ UNCHANGED <<stateDb, cdcTick, kafka, failCount, targetTable, history, trouble>>

\* poll: the consumer joins the group.
PollJoins(w) ==
  /\ At(w, "polling") /\ w \notin members
  /\ members' = members \cup {w}
  /\ applier' = [applier EXCEPT ![w] = [NewThread EXCEPT !.step = "loop"]]
  /\ UNCHANGED <<stateDb, cdcTick, produced, committed, owner, failCount, targetTable, history, trouble>>

\* It returns nothing, or up to CDC_BATCH_SIZE messages, these to the owner of the partition,
\* and moves its position past them.
PollReturnsNone(w) ==
  /\ At(w, "polling") /\ w \in members /\ Goes(w, "loop")
  /\ UNCHANGED <<stateDb, cdcTick, kafka, failCount, targetTable, history, trouble>>

PollReturns(w) ==
  /\ At(w, "polling") /\ owner = w
  /\ \E last \in (applier[w].pos + 1)..produced :
       /\ last <= applier[w].pos + MaxBatch
       /\ applier' = [applier EXCEPT ![w] = [@ EXCEPT !.step = "applying", !.from = applier[w].pos, !.pos = last]]
  /\ UNCHANGED <<stateDb, cdcTick, kafka, failCount, targetTable, history, trouble>>

\* _apply_event for each event and oracle_conn.commit(): the last event of a row wins.
LastIn(k, B) == CHOOSE e \in B : EventKey[e] = k /\ \A f \in B : EventKey[f] = k => f <= e
Written(B) == [k \in Keys |-> IF \E e \in B : EventKey[e] = k THEN LastIn(k, B) ELSE target[k]]

Applies(w) ==
  /\ At(w, "applying") /\ Goes(w, "applied")
  /\ target' = Written(Batch(w)) /\ rolledBack' = rolledBack \ Batch(w)
  /\ undone' = {e \in 1..MaxEvent : /\ target'[EventKey[e]] < e
                                    /\ e \in undone \/ (owner # w /\ target[EventKey[e]] >= e)}
  /\ UNCHANGED <<stateDb, cdcTick, kafka, failCount, history, trouble>>

\* An event fails and the transaction is rolled back; the position stays where poll moved it.
ApplyFails(w) ==
  /\ At(w, "applying") /\ Trouble("failures")
  /\ \E e \in Batch(w) :
       /\ failCount' = [failCount EXCEPT ![w][e] = @ + 1]
       /\ IF failCount[w][e] + 1 >= PoisonThreshold THEN Quits(w, "fatal") ELSE Comes(w, "loop")
  /\ rolledBack' = rolledBack \cup Batch(w)
  /\ firstFailed' = (firstFailed \/ committed = 0)
  /\ UNCHANGED <<stateDb, cdcTick, kafka, target, undone, caughtUpTo>>

\* consumer.commit(): the position, which is past all that was polled.  The group refuses the
\* commit of a worker that it no longer has; the exception ends the thread.
CommitsPosition(w) ==
  /\ At(w, "applied")
  /\ IF owner = w THEN Comes(w, "loop") /\ committed' = applier[w].pos
                  ELSE Quits(w, "fatal") /\ UNCHANGED committed
  /\ UNCHANGED <<stateDb, cdcTick, produced, members, owner, failCount, targetTable, history, trouble>>

\* Mutant of NoLag: the consumer's own position, whatever is committed.
NoLagOfPosition(w) == produced = applier[w].pos

\* _calc_lag: from the committed offset, or from the position while nothing is committed.
NoLag(w) == produced = IF committed > 0 THEN committed ELSE applier[w].pos

\* A checkin is due at the end of the loop; with nothing committed or assigned it is only a
\* heartbeat.
Measures(w) ==
  /\ At(w, "loop")
  /\ IF committed = 0 /\ ~ applier[w].assigned
       THEN UNCHANGED applier /\ heartbeat' = [by |-> w, fresh |-> TRUE]
       ELSE /\ applier' = [applier EXCEPT ![w] = [@ EXCEPT !.step = "measured", !.zero = NoLag(w),
                                                         !.end = IF NoLag(w) THEN produced ELSE 0]]
            /\ UNCHANGED heartbeat
  /\ UNCHANGED <<cdcPhase, cdcPaused, lagRow, cdcTick, kafka, failCount, targetTable, history, trouble>>

\* cdc_checkin: the lag and a heartbeat, whoever has claimed the migration meanwhile ...
ChecksIn(w) ==
  /\ At(w, "measured") /\ IF applier[w].zero THEN Goes(w, "checked in") ELSE Comes(w, "loop")
  /\ lagRow' = [measured |-> TRUE, zero |-> applier[w].zero, end |-> applier[w].end]
  /\ heartbeat' = [by |-> w, fresh |-> TRUE]
  /\ UNCHANGED <<cdcPhase, cdcPaused, cdcTick, kafka, failCount, targetTable, history, trouble>>

\* ... and, if it was zero, trigger_lag_zero.
TriggersLagZero(w) ==
  /\ At(w, "checked in") /\ Comes(w, "loop")
  /\ IF cdcPhase = "CDC_CATCHING_UP"
       THEN cdcPhase' = "CDC_CAUGHT_UP" /\ caughtUpTo' = applier[w].end
       ELSE UNCHANGED <<cdcPhase, caughtUpTo>>
  /\ UNCHANGED <<cdcPaused, heartbeat, lagRow, cdcTick, kafka, failCount, targetTable, firstFailed, trouble>>

\* fail_cdc_migration, which also takes the heartbeat away.
MarksFailed(w) ==
  /\ At(w, "fatal") /\ Quits(w, "stopping")
  /\ cdcPhase' = IF cdcPhase \in CdcPhases THEN "FAILED" ELSE cdcPhase
  /\ heartbeat' = NoHeartbeat
  /\ UNCHANGED <<cdcPaused, lagRow, cdcTick, kafka, failCount, targetTable, history, trouble>>

LeavesGroup(w) ==
  /\ members' = members \ {w} /\ owner' = IF owner = w THEN NoWorker ELSE owner
  /\ UNCHANGED <<produced, committed>>

\* release_cdc_migration, only a heartbeat of its own, and consumer.close().
Closes(w) ==
  /\ At(w, "stopping") /\ Ends(w) /\ LeavesGroup(w)
  /\ heartbeat' = IF heartbeat.by = w THEN NoHeartbeat ELSE heartbeat
  /\ UNCHANGED <<cdcPhase, cdcPaused, lagRow, cdcTick, targetTable, history, trouble>>

-----------------------------------------------------------------------------
(* What goes wrong with a worker.                                          *)

\* An exception of Kafka, Oracle or the State DB.  At the start, at a commit and at the repair
\* of the connection after a checkin it ends the thread, whatever the commit has done ...
Breaks(w) ==
  /\ applier[w].step \in {"loop", "applying", "measured", "checked in"} \/ (At(w, "applied") /\ owner = w)
  /\ Trouble("faults") /\ Quits(w, "fatal")
  /\ committed' = committed \/ (At(w, "applied") /\ committed' = applier[w].pos)
  /\ UNCHANGED <<stateDb, cdcTick, produced, members, owner, failCount, targetTable, history>>

\* ... at the head of the loop it is ignored, a checkin is left out, a failure that cannot be
\* written is not told ...
Ignores(w) ==
  /\ Trouble("faults")
  /\ \/ At(w, "loop") /\ Goes(w, "polling")
     \/ applier[w].step \in {"measured", "checked in"} /\ Comes(w, "loop")
     \/ At(w, "fatal") /\ Quits(w, "stopping")
  /\ UNCHANGED <<stateDb, cdcTick, kafka, failCount, targetTable, history>>

\* ... and a poll that fails gives a heartbeat; the last of several ends the thread.
PollFails(w) ==
  /\ At(w, "polling") /\ Trouble("faults") /\ (Goes(w, "loop") \/ Quits(w, "fatal"))
  /\ heartbeat' = [by |-> w, fresh |-> TRUE]
  /\ UNCHANGED <<cdcPhase, cdcPaused, lagRow, cdcTick, kafka, failCount, targetTable, history>>

\* The process is told to stop, and stops at the head of the loop ...
ShutsDown(w) ==
  /\ At(w, "loop") /\ Trouble("deaths") /\ Quits(w, "stopping")
  /\ UNCHANGED <<stateDb, cdcTick, kafka, failCount, targetTable, history>>

\* ... or dies anywhere; the group and the heartbeat do not know yet.
Dies(w) ==
  /\ ~ At(w, "off") /\ Trouble("deaths") /\ Ends(w)
  /\ UNCHANGED <<stateDb, cdcTick, kafka, targetTable, history>>

\* The heartbeat of a dead worker grows stale.
HeartbeatAges ==
  /\ heartbeat.fresh /\ At(heartbeat.by, "off")
  /\ heartbeat' = [heartbeat EXCEPT !.fresh = FALSE]
  /\ UNCHANGED <<cdcPhase, cdcPaused, lagRow, cdcTick, kafka, applier, failCount, targetTable, history, trouble>>

\* A step takes longer than CDC_HEARTBEAT_STALE_MINUTES; if it takes longer than the group
\* allows between two polls, the worker is put out of the group as well.
IsSlow(w) ==
  /\ ~ At(w, "off") /\ Trouble("slow")
  /\ heartbeat' = IF heartbeat.by = w THEN [heartbeat EXCEPT !.fresh = FALSE] ELSE heartbeat
  /\ LeavesGroup(w) \/ UNCHANGED kafka
  /\ UNCHANGED <<cdcPhase, cdcPaused, lagRow, cdcTick, applier, failCount, targetTable, history>>

-----------------------------------------------------------------------------
(* The consumer group, from its use.                                       *)

\* A dead member is removed.
SessionExpires(w) ==
  /\ w \in members /\ At(w, "off") /\ LeavesGroup(w)
  /\ UNCHANGED <<stateDb, cdcTick, applier, failCount, targetTable, history, trouble>>

\* Mutant of StartOffset: auto_offset_reset = "latest".
StartAtTheEnd == IF committed = 0 THEN produced ELSE committed

\* No committed offset: auto_offset_reset = "earliest".
StartOffset == committed

\* A rebalance: at a join, a leave or any other moment the partition is given to some member,
\* once its owner is not at a batch any more.
Rebalances ==
  /\ owner # NoWorker => ~ InBatch(owner)
  /\ IF members = {} THEN owner' = NoWorker ELSE owner' \in members
  /\ applier' = [w \in CdcWorkers |->
                   CASE w = owner' -> [applier[w] EXCEPT !.assigned = TRUE, !.pos = StartOffset]
                     [] w \in members \ {owner'} -> [applier[w] EXCEPT !.assigned = FALSE, !.pos = 0]
                     [] OTHER -> applier[w]]
  /\ UNCHANGED <<stateDb, cdcTick, produced, committed, members, failCount, targetTable, history, trouble>>

Produces ==
  /\ produced < MaxEvent /\ produced' = produced + 1
  /\ UNCHANGED <<stateDb, cdcTick, committed, members, owner, applier, failCount, targetTable, history, trouble>>

-----------------------------------------------------------------------------
(* The coordinator and the operator.                                       *)

\* The tick reads the phases of the migrations that are not paused ...
CdcTickReads ==
  /\ cdcTick.step = "idle" /\ ~ cdcPaused /\ cdcPhase \in CdcPhases \ {"STEADY_STATE"}
  /\ cdcTick' = [step |-> "read", saw |-> cdcPhase, end |-> 0]
  /\ UNCHANGED <<stateDb, kafka, applier, failCount, targetTable, history, trouble>>

\* ... each handler reads what it waits for: a heartbeat, however old, a lag of zero that was
\* measured, or that the phase is still the same ...
CdcReady ==
  CASE cdcTick.saw = "CDC_APPLYING" -> heartbeat.by # NoWorker
    [] cdcTick.saw = "CDC_CATCHING_UP" -> lagRow.measured /\ lagRow.zero
    [] OTHER -> cdcPhase = "CDC_CAUGHT_UP"

Declared == IF cdcTick.saw = "CDC_CATCHING_UP" THEN lagRow.end ELSE 0

CdcTickDecides ==
  /\ cdcTick.step = "read"
  /\ cdcTick' = IF CdcReady THEN [cdcTick EXCEPT !.step = "write", !.end = Declared] ELSE NoTick
  /\ UNCHANGED <<stateDb, kafka, applier, failCount, targetTable, history, trouble>>

\* ... and _transition writes the next phase whatever the phase is by then.
NextPhase(p) ==
  CASE p = "CDC_APPLYING" -> "CDC_CATCHING_UP"
    [] p = "CDC_CATCHING_UP" -> "CDC_CAUGHT_UP"
    [] OTHER -> "STEADY_STATE"

CdcTickWrites ==
  /\ cdcTick.step = "write" /\ cdcTick' = NoTick /\ cdcPhase' = NextPhase(cdcTick.saw)
  /\ caughtUpTo' = IF cdcPhase' = "CDC_CAUGHT_UP" THEN cdcTick.end ELSE caughtUpTo
  /\ UNCHANGED <<cdcPaused, heartbeat, lagRow, kafka, applier, failCount, targetTable, firstFailed, trouble>>

\* A handler raises, or the health check of the connector fails the migrations of its pack.
CdcFailed ==
  /\ Trouble("faults") /\ cdcPhase' = "FAILED" /\ cdcTick' = NoTick
  /\ UNCHANGED <<cdcPaused, heartbeat, lagRow, kafka, applier, failCount, targetTable, history>>

\* A pause takes the heartbeat away, a resume only the mark.
Pauses ==
  /\ cdcPhase \in CdcPhases /\ Trouble("pauses")
  /\ cdcPaused' = TRUE /\ heartbeat' = NoHeartbeat
  /\ UNCHANGED <<cdcPhase, lagRow, cdcTick, kafka, applier, failCount, targetTable, history>>

Resumes ==
  /\ cdcPaused /\ cdcPaused' = FALSE
  /\ UNCHANGED <<cdcPhase, heartbeat, lagRow, cdcTick, kafka, applier, failCount, targetTable, history, trouble>>

Cancels ==
  /\ Trouble("cancels") /\ cdcPhase' = "CANCELLING"
  /\ UNCHANGED <<cdcPaused, heartbeat, lagRow, cdcTick, kafka, applier, failCount, targetTable, history>>

-----------------------------------------------------------------------------
\* INDEXES_ENABLING is over; Debezium has filled the topic since the copy began.
CdcInit ==
  /\ cdcPhase = "CDC_APPLYING" /\ cdcPaused = FALSE
  /\ heartbeat = NoHeartbeat
  /\ produced \in Offsets /\ lagRow = [measured |-> FALSE, zero |-> TRUE, end |-> produced]
  /\ cdcTick = NoTick /\ committed = 0
  /\ members = {} /\ owner = NoWorker
  /\ applier = [w \in CdcWorkers |-> NewThread] /\ failCount = [w \in CdcWorkers |-> NoFailure]
  /\ target = [k \in Keys |-> 0] /\ rolledBack = {} /\ undone = {}
  /\ firstFailed = FALSE /\ caughtUpTo = 0
  /\ trouble = [k \in TroubleKinds |-> 0]

ThreadGoesOn(w) ==
  \/ ClaimCdc(w) \/ LooksUp(w) \/ PollJoins(w) \/ PollReturnsNone(w) \/ PollReturns(w) \/ Applies(w)
  \/ CommitsPosition(w) \/ Measures(w) \/ ChecksIn(w) \/ TriggersLagZero(w) \/ MarksFailed(w) \/ Closes(w)

CdcTicks == CdcTickReads \/ CdcTickDecides \/ CdcTickWrites

CdcNext ==
  \/ \E w \in CdcWorkers :
       \/ ThreadGoesOn(w) \/ ApplyFails(w) \/ Breaks(w) \/ Ignores(w) \/ PollFails(w)
       \/ ShutsDown(w) \/ Dies(w) \/ IsSlow(w) \/ SessionExpires(w)
  \/ HeartbeatAges \/ Rebalances \/ Produces \/ CdcTicks
  \/ CdcFailed \/ Pauses \/ Resumes \/ Cancels

CdcSpec == CdcInit /\ [][CdcNext]_cdcVars

-----------------------------------------------------------------------------
(* Properties.                                                             *)

\* worker.py:1721: what the group has committed is in the target, however often workers die
\* between their two commits, overlap or come back.  Excepted are the events of a failed
\* batch that was never tried again (the next batch is committed over it), and those whose
\* rows were put back by a worker that the group had given up while it was at a batch.
CommittedIsApplied ==
  \A e \in 1..committed : e \in rolledBack \cup undone \/ target[EventKey[e]] >= e

\* orchestrator.py:1519, common.py:968: a migration is declared caught up on a measurement
\* of all that was in the topic being committed, not on the default of total_lag nor on the
\* lag of somebody who had nothing assigned.  Excepted is a first batch that failed.
CaughtUpIsCommitted ==
  cdcPhase \in {"CDC_CAUGHT_UP", "STEADY_STATE"} => caughtUpTo <= committed \/ firstFailed

\* worker.py:1717: a batch of which an event has failed is not committed.
FailedIsNotCommitted == \A e \in rolledBack : e > committed
=============================================================================
