--------------------------- MODULE ConnectorGroup ---------------------------
(***************************************************************************)
(* One CDC pack and its Debezium connector: the requests of operators and  *)
(* of the orchestrator (services/connector_groups.py), the lifecycle       *)
(* threads of the orchestrator, the status poll, the health check, and     *)
(* Kafka Connect.  Every start has a run of its own, whose number names    *)
(* the connector.  A transition writes the status whatever it was, and     *)
(* status and Kafka Connect are read long before they are acted on.        *)
(*                                                                         *)
(* The pack keeps at least one table while it is started; topics are left  *)
(* out but for their failures.                                             *)
(***************************************************************************)
EXTENDS Naturals, FiniteSets

CONSTANTS
  MaxRun,          \* bound: starts
  MaxRequest,      \* bound: requests of operators
  MaxBreak,        \* bound: connectors that break by themselves
  MaxCrash         \* bound: restarts of the coordinator

ASSUME GroupAssumption ==
  MaxRun \in Nat /\ MaxRequest \in Nat /\ MaxBreak \in Nat /\ MaxCrash \in Nat

VARIABLES
  status,          \* connector_groups.status, or "GONE" when the row is deleted
  shown,           \* the buttons the operator's page shows
  run,             \* run_id, 0 before the first start
  connectors,      \* Kafka Connect: run -> absent, running or failed
  active,          \* the pack has a CDC migration that has not ended
  thread,          \* _group_in_progress: the lifecycle thread, and its step
  looked,          \* the status the tick, or a kick, has read and will handle
  starting,        \* request_start under way: allowed, or its new run stored
  polled,          \* get_connector_status under way: the status it will write
  checked,         \* _check_group_connectors under way: a broken connector was found
  deleting,        \* delete_group: the run whose connector is still to be deleted
  budget           \* requests, breaks and restarts so far

groupVars ==
  <<status, shown, run, connectors, active, thread, looked, starting, polled, checked, deleting, budget>>

Lifecycle == {"TOPICS_CREATING", "CONNECTOR_STARTING", "STOPPING"}
GroupStatuses == Lifecycle \cup {"PENDING", "RUNNING", "STOPPED", "FAILED", "GONE"}
NoThread == [kind |-> "none", step |-> 0]
Nothing == "nothing"

\* The buttons of a pack on the page.
GroupButtons(s) ==
  CASE s \in {"PENDING", "STOPPED"} -> {"start", "delete"}
    [] s = "FAILED" -> {"start"}
    [] s = "RUNNING" -> {"stop"}
    [] OTHER -> {}

GroupTypeOK ==
  /\ status \in GroupStatuses /\ shown \in {GroupButtons(s) : s \in GroupStatuses} /\ run \in 0..MaxRun
  /\ connectors \in [0..MaxRun -> {"absent", "running", "failed"}] /\ active \in BOOLEAN
  /\ thread \in [kind : {"none", "topics", "start", "stop"}, step : 0..2]
  /\ looked \in Lifecycle \cup {Nothing}
  /\ starting \in {Nothing, "asked", "stored"}
  /\ polled \in {Nothing, "RUNNING", "STOPPED", "FAILED"}
  /\ checked \in BOOLEAN /\ deleting \in 0..(MaxRun + 1)
  /\ budget \in [requests : 0..MaxRequest, breaks : 0..MaxBreak, crashes : 0..MaxCrash]

\* transition_group: on a deleted row nothing is written, and the history insert fails.
TransitionGroup(s) == status' = IF status = "GONE" THEN "GONE" ELSE s
Spend(what, limit) == budget[what] < limit /\ budget' = [budget EXCEPT ![what] = @ + 1]

-----------------------------------------------------------------------------
(* Requests.                                                               *)

\* The list is loaded when the page opens, every ten seconds and after each request.
PageLoads ==
  /\ shown # GroupButtons(status) /\ shown' = GroupButtons(status)
  /\ UNCHANGED <<status, run, connectors, active, thread, looked, starting, polled, checked, deleting, budget>>

\* request_start reads the row: a pack that runs, starts or stops is left alone.
StartAsked(who) ==
  /\ starting = Nothing
  /\ IF who = "operator"
       THEN "start" \in shown /\ Spend("requests", MaxRequest)
       ELSE active /\ status # "FAILED" /\ UNCHANGED budget
  /\ status \in {"PENDING", "STOPPED", "FAILED"}
  /\ starting' = "asked"
  /\ UNCHANGED <<shown, status, run, connectors, active, thread, looked, polled, checked, deleting>>

\* It stores a new run, commits, ...
StartStored ==
  /\ starting = "asked" /\ run < MaxRun
  /\ run' = IF status = "GONE" THEN run ELSE run + 1
  /\ starting' = "stored"
  /\ UNCHANGED <<shown, status, connectors, active, thread, looked, polled, checked, deleting, budget>>

\* ... and moves the pack; the caller kicks the lifecycle with the status it reads then.
StartMoved ==
  /\ starting = "stored" /\ starting' = Nothing
  /\ TransitionGroup("TOPICS_CREATING") /\ looked' = IF status = "GONE" THEN looked ELSE "TOPICS_CREATING"
  /\ UNCHANGED <<shown, run, connectors, active, thread, polled, checked, deleting, budget>>

\* request_stop: the server does not look at the status.
StopAsked ==
  /\ "stop" \in shown /\ Spend("requests", MaxRequest)
  /\ TransitionGroup("STOPPING")
  /\ UNCHANGED <<shown, run, connectors, active, thread, looked, starting, polled, checked, deleting>>

\* delete_group, whatever the status: with an active migration it is refused, and the page
\* asks whether to force it, which cancels the migration.
DeleteAsked ==
  /\ "delete" \in shown /\ status # "GONE" /\ deleting = 0
  /\ Spend("requests", MaxRequest)
  /\ status' = "GONE" /\ active' = FALSE /\ deleting' = run + 1
  /\ UNCHANGED <<shown, run, connectors, thread, looked, starting, polled, checked>>

\* Afterwards the connector of the run it had read; an error is only logged.
DeleteCleansUp ==
  /\ deleting # 0 /\ deleting' = 0
  /\ \/ connectors' = [connectors EXCEPT ![deleting - 1] = "absent"]
     \/ UNCHANGED connectors
  /\ UNCHANGED <<shown, status, run, active, thread, looked, starting, polled, checked, budget>>

-----------------------------------------------------------------------------
(* The lifecycle: one thread per pack.                                     *)

\* Mutant of TickReads: a pack that stops is not looked after.
TickReadsStarting ==
  /\ looked = Nothing /\ status \in Lifecycle \ {"STOPPING"} /\ looked' = status
  /\ UNCHANGED <<shown, status, run, connectors, active, thread, starting, polled, checked, deleting, budget>>

TickReads ==
  /\ looked = Nothing /\ status \in Lifecycle /\ looked' = status
  /\ UNCHANGED <<shown, status, run, connectors, active, thread, starting, polled, checked, deleting, budget>>

Handler(s) == CASE s = "TOPICS_CREATING" -> "topics" [] s = "CONNECTOR_STARTING" -> "start" [] OTHER -> "stop"

TickHandles ==
  /\ looked # Nothing /\ looked' = Nothing
  /\ thread' = IF thread = NoThread THEN [kind |-> Handler(looked), step |-> 0] ELSE thread
  /\ UNCHANGED <<shown, status, run, connectors, active, starting, polled, checked, deleting, budget>>

\* Topics: created or not; then the start handler takes over.
TopicsCreated(ok) ==
  /\ thread.kind = "topics"
  /\ TransitionGroup(IF ok THEN "CONNECTOR_STARTING" ELSE "FAILED")
  /\ thread' = IF ok /\ status # "GONE" THEN [NoThread EXCEPT !.kind = "start"] ELSE NoThread
  /\ UNCHANGED <<shown, run, connectors, active, looked, starting, polled, checked, deleting, budget>>

\* do_start_connector: the connector of the run that is stored, unless Kafka Connect refuses.
ConnectorCreated(ok) ==
  /\ thread.kind = "start" /\ thread.step = 0
  /\ IF ok /\ status # "GONE"
       THEN /\ connectors' = [connectors EXCEPT ![run] = IF @ = "absent" THEN "running" ELSE @]
            /\ thread' = [thread EXCEPT !.step = 1] /\ UNCHANGED status
       ELSE TransitionGroup("FAILED") /\ thread' = NoThread /\ UNCHANGED connectors
  /\ UNCHANGED <<shown, run, active, looked, starting, polled, checked, deleting, budget>>

\* refresh_connector_tables may fail although the connector is there; else the pack runs.
ConnectorStarted(ok) ==
  /\ thread.kind = "start" /\ thread.step = 1 /\ thread' = NoThread
  /\ TransitionGroup(IF ok /\ ~ (status = "RUNNING" /\ connectors[run] = "absent") THEN "RUNNING" ELSE "FAILED")
  /\ UNCHANGED <<shown, run, connectors, active, looked, starting, polled, checked, deleting, budget>>

\* do_stop_connector deletes the connector of the run that is stored, and the topics.
ConnectorDeleted(ok) ==
  /\ thread.kind = "stop" /\ thread.step = 0
  /\ IF ok /\ status # "GONE"
       THEN connectors' = [connectors EXCEPT ![run] = "absent"] /\ thread' = [thread EXCEPT !.step = 1] /\ UNCHANGED status
       ELSE TransitionGroup("FAILED") /\ thread' = NoThread /\ UNCHANGED connectors
  /\ UNCHANGED <<shown, run, active, looked, starting, polled, checked, deleting, budget>>

StopDone ==
  /\ thread.kind = "stop" /\ thread.step = 1 /\ thread' = NoThread /\ TransitionGroup("STOPPED")
  /\ UNCHANGED <<shown, run, connectors, active, looked, starting, polled, checked, deleting, budget>>

-----------------------------------------------------------------------------
(* Readers of Kafka Connect.                                               *)

\* _normalize_polled_connector_status.
Normalized(s, conn) ==
  CASE s \in {"TOPICS_CREATING", "CONNECTOR_STARTING"} ->
         CASE conn = "running" -> "RUNNING" [] conn = "failed" -> "FAILED" [] OTHER -> s
    [] s = "STOPPING" -> s
    [] OTHER -> CASE conn = "absent" -> "STOPPED" [] conn = "running" -> "RUNNING" [] OTHER -> "FAILED"

\* get_connector_status: what it writes, when it differs, follows from what it has read.
PollReads ==
  /\ polled = Nothing /\ status # "GONE"
  /\ Normalized(status, connectors[run]) # status
  /\ polled' = Normalized(status, connectors[run])
  /\ UNCHANGED <<shown, status, run, connectors, active, thread, looked, starting, checked, deleting, budget>>

PollWrites ==
  /\ polled # Nothing /\ polled' = Nothing /\ TransitionGroup(polled)
  /\ UNCHANGED <<shown, run, connectors, active, thread, looked, starting, checked, deleting, budget>>

\* Mutant of HealthReads: a connector that is not there at all is no failure.
HealthReadsFailed ==
  /\ ~ checked /\ status = "RUNNING" /\ connectors[run] = "failed" /\ checked' = TRUE
  /\ UNCHANGED <<shown, status, run, connectors, active, thread, looked, starting, polled, deleting, budget>>

HealthReads ==
  /\ ~ checked /\ status = "RUNNING" /\ connectors[run] # "running" /\ checked' = TRUE
  /\ UNCHANGED <<shown, status, run, connectors, active, thread, looked, starting, polled, deleting, budget>>

\* The pack fails, and every CDC migration of it that is past the draft.
HealthWrites ==
  /\ checked /\ checked' = FALSE /\ TransitionGroup("FAILED") /\ active' = FALSE
  /\ UNCHANGED <<shown, run, connectors, thread, looked, starting, polled, deleting, budget>>

ConnectorBreaks ==
  /\ Spend("breaks", MaxBreak)
  /\ \E r \in 0..MaxRun : connectors[r] = "running" /\ connectors' = [connectors EXCEPT ![r] = "failed"]
  /\ UNCHANGED <<shown, status, run, active, thread, looked, starting, polled, checked, deleting>>

\* The coordinator restarts: what was under way in its memory is gone.
Restart ==
  /\ Spend("crashes", MaxCrash)
  /\ thread' = NoThread /\ looked' = Nothing /\ starting' = Nothing /\ polled' = Nothing
  /\ checked' = FALSE /\ deleting' = 0
  /\ UNCHANGED <<shown, status, run, connectors, active>>

-----------------------------------------------------------------------------
GroupInit ==
  /\ status = "PENDING" /\ shown = GroupButtons(status) /\ run = 0 /\ connectors = [r \in 0..MaxRun |-> "absent"] /\ active \in BOOLEAN
  /\ thread = NoThread /\ looked = Nothing /\ starting = Nothing /\ polled = Nothing
  /\ checked = FALSE /\ deleting = 0
  /\ budget = [requests |-> 0, breaks |-> 0, crashes |-> 0]

ThreadSteps ==
  \/ \E ok \in BOOLEAN : TopicsCreated(ok) \/ ConnectorCreated(ok) \/ ConnectorStarted(ok) \/ ConnectorDeleted(ok)
  \/ StopDone

GroupNext ==
  \/ \E who \in {"operator", "orchestrator"} : StartAsked(who)
  \/ StartStored \/ StartMoved \/ StopAsked \/ DeleteCleansUp
  \/ PageLoads \/ DeleteAsked
  \/ TickReads \/ TickHandles \/ ThreadSteps
  \/ PollReads \/ PollWrites \/ HealthReads \/ HealthWrites \/ ConnectorBreaks \/ Restart

\* The orchestrator's loop ticks every few seconds, lifecycle and health; its threads end, and
\* so does every request and poll once it is under way.
GroupFairness ==
  /\ WF_groupVars(TickReads \/ TickHandles) /\ WF_groupVars(ThreadSteps)
  /\ WF_groupVars(StartStored \/ StartMoved)
  /\ WF_groupVars(PollWrites) /\ WF_groupVars(HealthReads \/ HealthWrites)

GroupSpec == GroupInit /\ [][GroupNext]_groupVars /\ GroupFairness

-----------------------------------------------------------------------------
(* Properties.                                                             *)

\* A start or a stop that was begun ends, whatever else happens to the pack
\* meanwhile and however often the coordinator restarts.
LifecycleEnds == status \in Lifecycle ~> status \notin Lifecycle

\* A pack that is said to run without a running connector does not stay so.
BrokenIsNoticed ==
  status = "RUNNING" /\ connectors[run] # "running" ~> status # "RUNNING" \/ connectors[run] = "running"
=============================================================================
