------------------------------ MODULE PackRow ------------------------------
(***************************************************************************)
(* One row of the pack panel (dashboard/PackPanel.tsx, PackQueueRow): its  *)
(* trigger job and its full restart, with the migration behind it.  A load *)
(* switches the triggers of the target table off; a trigger job, made when *)
(* the table is verified or has caught up and run by hand, switches them   *)
(* on again in a thread of its own (services/target_trigger_jobs.py).  A   *)
(* trigger that cannot be switched off is left on, and the page that       *)
(* prepares the target switches any of them in any phase.  A full restart  *)
(* is accepted in every phase and deletes the jobs, but not the threads    *)
(* that run them.                                                          *)
(***************************************************************************)
EXTENDS Naturals, FiniteSets

CONSTANTS
  Triggers,        \* of the target table
  MaxRowClick,     \* bound: clicks on the buttons of the row, and requests of other pages
  MaxRowAsk,       \* bound: requests for the jobs, and for the pack, under way
  MaxRowJob        \* bound: trigger jobs ever made

ASSUME RowAssumption == MaxRowAsk \in Nat /\ MaxRowJob \in Nat

VARIABLES
  rowPhase,        \* phase of the migration: DRAFT, NEW, LOADING, COMPLETED (it stands for all TriggerReady)
  enabled,         \* the triggers of the target table that are enabled
  triggerJobs,     \* target_trigger_jobs of the migration: [id, st]
  jobThreads,      \* the threads that run a job: [id, step]
  ran,             \* history: how often each job was started
  by,              \* history: what left each trigger as it is
  shownPhase,      \* item.phase in the panel
  packAsks,        \* requests for the pack under way: the phase, or "?" before the server answers
  shownJobs,       \* jobs of TriggerJobInlineAction: the latest one, or NoTriggerJob
  jobAsks,         \* requests of TriggerJobInlineAction for the jobs under way: the latest job
  rowBusy,         \* busy of the two actions
  rowOrders,       \* their requests under way
  rowClicks

rowServer == <<rowPhase, enabled, by, triggerJobs, jobThreads, ran>>
rowPanel == <<shownPhase, packAsks, shownJobs, jobAsks>>
rowVars == <<rowServer, rowPanel, rowBusy, rowOrders, rowClicks>>

JobIds == 1..MaxRowJob
Causes == {"start", "load", "undisabled", "job", "orphan", "page"}
NoTriggerJob == [id |-> 0, st |-> "none"]
NotYet == [id |-> 0, st |-> "?"]

\* list_jobs: the newest first; the row looks at that one only.
LatestJobs == IF triggerJobs = {} THEN {NoTriggerJob} ELSE {j \in triggerJobs : \A k \in triggerJobs : k.id <= j.id}
OpenJobs == {j \in triggerJobs : j.st \in {"PENDING", "RUNNING"}}

RowTypeOK ==
  /\ rowPhase \in {"DRAFT", "NEW", "LOADING", "COMPLETED"} /\ shownPhase \in {"DRAFT", "NEW", "LOADING", "COMPLETED"}
  /\ enabled \subseteq Triggers /\ by \in [Triggers -> Causes]
  /\ \A j \in triggerJobs : j.id \in JobIds /\ j.st \in {"PENDING", "RUNNING", "DONE", "FAILED"}
  /\ Cardinality(OpenJobs) <= 1
  /\ rowBusy \subseteq {"restart", "trigger"} /\ Cardinality(jobAsks) <= MaxRowAsk /\ Cardinality(packAsks) <= MaxRowAsk

-----------------------------------------------------------------------------
(* The server.                                                             *)

\* ensure_pending_job keeps an open job; the identifiers are never used again.
NewJob(used) == [id |-> used + 1, st |-> "PENDING"]
Used == Cardinality({i \in JobIds : ran[i] # "unused"})
\* Mutant of EnsurePendingJob: an open job is not looked for.
EnsureNewJob ==
  IF rowPhase = "COMPLETED" /\ Used < MaxRowJob
    THEN LET new == NewJob(Used)
         IN triggerJobs' = triggerJobs \cup {new} /\ ran' = [ran EXCEPT ![new.id] = "made"]
    ELSE UNCHANGED <<triggerJobs, ran>>

EnsurePendingJob ==
  IF rowPhase = "COMPLETED" /\ OpenJobs = {} /\ Used < MaxRowJob
    THEN LET new == NewJob(Used)
         IN triggerJobs' = triggerJobs \cup {new} /\ ran' = [ran EXCEPT ![new.id] = "made"]
    ELSE UNCHANGED <<triggerJobs, ran>>

\* Mutant of RunJob: a job need not be PENDING.
RunAnyJob(id) ==
  IF \E j \in triggerJobs : j.id = id
    THEN /\ triggerJobs' = {j \in triggerJobs : j.id # id} \cup {[id |-> id, st |-> "RUNNING"]}
         /\ jobThreads' = jobThreads \cup {[id |-> id, step |-> "begun"]}
         /\ ran' = [ran EXCEPT ![id] = IF @ = "made" THEN "once" ELSE "again"]
    ELSE UNCHANGED <<triggerJobs, jobThreads, ran>>

\* run_job_async.
RunJob(id) ==
  IF [id |-> id, st |-> "PENDING"] \in triggerJobs
    THEN /\ triggerJobs' = (triggerJobs \ {[id |-> id, st |-> "PENDING"]}) \cup {[id |-> id, st |-> "RUNNING"]}
         /\ jobThreads' = jobThreads \cup {[id |-> id, step |-> "begun"]}
         /\ ran' = [ran EXCEPT ![id] = IF @ = "made" THEN "once" ELSE "again"]
    ELSE UNCHANGED <<triggerJobs, jobThreads, ran>>

\* full_restart_migration: the jobs are deleted in every phase; the triggers stay as they are.
Restarted(start) ==
  /\ rowPhase' = (IF start THEN "NEW" ELSE "DRAFT")
  /\ triggerJobs' = {}

\* The orchestrator: a load begins with disable_triggers, which goes on past a trigger that it cannot
\* disable, and ends with a trigger job unless the migration was completed by force.
Prepare ==
  /\ rowPhase = "NEW" /\ rowPhase' = "LOADING"
  /\ \E left \in SUBSET enabled :
       enabled' = left /\ by' = [t \in Triggers |-> IF t \in left THEN "undisabled" ELSE "load"]
  /\ UNCHANGED <<triggerJobs, jobThreads, ran, rowPanel, rowBusy, rowOrders, rowClicks>>
Loaded ==
  /\ rowPhase = "LOADING" /\ rowPhase' = "COMPLETED"
  /\ UNCHANGED <<enabled, by, triggerJobs, jobThreads, ran, rowPanel, rowBusy, rowOrders, rowClicks>>
EnsureAfterLoad ==
  /\ rowPhase = "COMPLETED" /\ EnsurePendingJob
  /\ UNCHANGED <<rowPhase, enabled, by, jobThreads, rowPanel, rowBusy, rowOrders, rowClicks>>

\* The page that prepares the target: it asks for nothing but the trigger.
PageSwitches(t) ==
  /\ rowClicks < MaxRowClick /\ rowClicks' = rowClicks + 1
  /\ (enabled' = enabled \cup {t} \/ enabled' = enabled \ {t})
  /\ by' = [by EXCEPT ![t] = "page"]
  /\ UNCHANGED <<rowPhase, triggerJobs, jobThreads, ran, rowPanel, rowBusy, rowOrders>>

\* _execute_job: the triggers first, each of those that are disabled; then the state of the job, if it
\* is still there.  It fails when one of them cannot be enabled.
JobThreadEnables(th) ==
  LET who == IF \E j \in triggerJobs : j.id = th.id THEN "job" ELSE "orphan"
  IN /\ th \in jobThreads /\ th.step = "begun"
     /\ \E on \in SUBSET (Triggers \ enabled) :
          /\ enabled' = enabled \cup on
          /\ by' = [t \in Triggers |-> IF t \in on THEN who ELSE by[t]]
     /\ jobThreads' = (jobThreads \ {th}) \cup
                        {[id |-> th.id, step |-> IF enabled' = Triggers THEN "enabled" ELSE "partly"]}
     /\ UNCHANGED <<rowPhase, triggerJobs, ran, rowPanel, rowBusy, rowOrders, rowClicks>>
Recorded(th, st) ==
  /\ jobThreads' = jobThreads \ {th}
  /\ triggerJobs' = {j \in triggerJobs : j.id # th.id} \cup {[j EXCEPT !.st = st] : j \in {k \in triggerJobs : k.id = th.id}}
  /\ UNCHANGED <<rowPhase, enabled, by, ran, rowPanel, rowBusy, rowOrders, rowClicks>>
JobThreadDone(th) == th \in jobThreads /\ th.step = "enabled" /\ Recorded(th, "DONE")
JobThreadFails(th) == th \in jobThreads /\ Recorded(th, "FAILED")
\* The process ends: the job stays RUNNING.
JobThreadsDie ==
  /\ jobThreads # {} /\ jobThreads' = {}
  /\ UNCHANGED <<rowPhase, enabled, by, triggerJobs, ran, rowPanel, rowBusy, rowOrders, rowClicks>>

-----------------------------------------------------------------------------
(* What the row knows.                                                     *)

\* Whether TriggerJobInlineAction is drawn.
ActionDrawn(p) == p = "COMPLETED"

OfTrigger(o) == o.kind \in {"create", "run"}
AskPack == packAsks' = IF Cardinality(packAsks) < MaxRowAsk THEN packAsks \cup {"?"} ELSE packAsks
AskTriggerJobs == jobAsks' = IF Cardinality(jobAsks) < MaxRowAsk THEN jobAsks \cup {NotYet} ELSE jobAsks

\* The page asks for the pack every few seconds, and when an event of its own is the newest.
PollPackRow == AskPack /\ UNCHANGED <<rowServer, shownPhase, shownJobs, jobAsks, rowBusy, rowOrders, rowClicks>>
ServePackRow ==
  /\ "?" \in packAsks /\ packAsks' = (packAsks \ {"?"}) \cup {rowPhase}
  /\ UNCHANGED <<rowServer, shownPhase, shownJobs, jobAsks, rowBusy, rowOrders, rowClicks>>
\* The answer lands: the action appears, and asks for its jobs, or goes away with all it knew; what it
\* had asked for is answered to nobody.
LandPackRow(p) ==
  /\ p \in packAsks \ {"?"} /\ packAsks' = packAsks \ {p} /\ shownPhase' = p
  /\ IF ActionDrawn(p)
       THEN /\ UNCHANGED <<shownJobs, rowBusy, rowOrders>>
            /\ IF ActionDrawn(shownPhase) THEN UNCHANGED jobAsks ELSE AskTriggerJobs
       ELSE /\ shownJobs' = NoTriggerJob /\ jobAsks' = {} /\ rowBusy' = rowBusy \ {"trigger"}
            /\ rowOrders' = {o \in rowOrders : ~OfTrigger(o)}
                               \cup {[o EXCEPT !.own = FALSE] : o \in {q \in rowOrders : OfTrigger(q) /\ q.st = "sent"}}
  /\ UNCHANGED <<rowServer, rowClicks>>

\* tick() every five seconds, and loadJobs() on the event of a trigger job of this migration.
PollTriggerJobs ==
  /\ ActionDrawn(shownPhase) /\ AskTriggerJobs
  /\ UNCHANGED <<rowServer, shownPhase, packAsks, shownJobs, rowBusy, rowOrders, rowClicks>>
ServeTriggerJobs(a) ==
  /\ a \in jobAsks /\ a = NotYet
  /\ \E j \in LatestJobs : jobAsks' = (jobAsks \ {a}) \cup {j}
  /\ UNCHANGED <<rowServer, shownPhase, packAsks, shownJobs, rowBusy, rowOrders, rowClicks>>
LandTriggerJobs(a) ==
  /\ a \in jobAsks /\ a # NotYet /\ jobAsks' = jobAsks \ {a}
  /\ shownJobs' = a
  /\ UNCHANGED <<rowServer, shownPhase, packAsks, rowBusy, rowOrders, rowClicks>>

-----------------------------------------------------------------------------
(* The buttons.                                                            *)

SendOrder(kind, id, own) ==
  /\ rowClicks < MaxRowClick /\ rowClicks' = rowClicks + 1
  /\ rowOrders' = rowOrders \cup {[kind |-> kind, id |-> id, own |-> own, n |-> rowClicks, st |-> "sent"]}
  /\ UNCHANGED <<rowServer, rowPanel>>

\* runJob of the latest job when it is PENDING, createJob when there is none or it failed.
TriggerClicked ==
  /\ ActionDrawn(shownPhase) /\ "trigger" \notin rowBusy
  /\ \/ shownJobs.st = "PENDING" /\ SendOrder("run", shownJobs.id, TRUE)
     \/ shownJobs.st \in {"none", "FAILED"} /\ SendOrder("create", 0, TRUE)
  /\ rowBusy' = rowBusy \cup {"trigger"}
\* FullRestartInlineAction, confirmed: "Reset" to DRAFT or "Restart".
FullRestartClicked ==
  /\ "restart" \notin rowBusy /\ rowBusy' = rowBusy \cup {"restart"}
  /\ (SendOrder("start", 0, TRUE) \/ SendOrder("draft", 0, TRUE))
\* Another page asks for the same: a full restart, or the job it knows to be run.
OtherPage ==
  /\ UNCHANGED rowBusy
  /\ \/ SendOrder("start", 0, FALSE)
     \/ \E j \in triggerJobs : SendOrder("run", j.id, FALSE)

ServeOrder(o) ==
  /\ o \in rowOrders /\ o.st = "sent"
  /\ CASE o.kind = "create" -> EnsurePendingJob /\ UNCHANGED <<rowPhase, jobThreads>>
       [] o.kind = "run" -> RunJob(o.id) /\ UNCHANGED rowPhase
       [] OTHER -> Restarted(o.kind # "draft") /\ UNCHANGED <<jobThreads, ran>>
  /\ rowOrders' = (rowOrders \ {o}) \cup {[q EXCEPT !.st = "answered"] : q \in {p \in {o} : p.own}}
  /\ UNCHANGED <<enabled, by, rowPanel, rowBusy, rowClicks>>

\* A refusal is only shown, as is an answer that is lost; otherwise the jobs are asked for, and the pack.
RowOrderAnswered(o) ==
  /\ o \in rowOrders /\ o.st = "answered" /\ rowOrders' = rowOrders \ {o}
  /\ rowBusy' = rowBusy \ {IF OfTrigger(o) THEN "trigger" ELSE "restart"}
  /\ \/ UNCHANGED <<packAsks, jobAsks>>
     \/ AskPack /\ IF OfTrigger(o) THEN AskTriggerJobs ELSE UNCHANGED jobAsks
  /\ UNCHANGED <<rowServer, shownPhase, shownJobs, rowClicks>>

-----------------------------------------------------------------------------
RowInit ==
  /\ rowPhase \in {"NEW", "COMPLETED"} /\ enabled = {t \in Triggers : rowPhase = "NEW"}
  /\ by = [t \in Triggers |-> "start"]
  /\ triggerJobs = {} /\ jobThreads = {} /\ ran = [i \in JobIds |-> "unused"]
  /\ shownPhase = rowPhase /\ packAsks = {} /\ shownJobs = NoTriggerJob
  /\ jobAsks = {} /\ rowBusy = {} /\ rowOrders = {} /\ rowClicks = 0

RowNext ==
  \/ \E t \in Triggers : PageSwitches(t)
  \/ Prepare \/ Loaded \/ EnsureAfterLoad \/ JobThreadsDie
  \/ \E th \in jobThreads : JobThreadEnables(th) \/ JobThreadDone(th) \/ JobThreadFails(th)
  \/ PollPackRow \/ ServePackRow \/ \E p \in packAsks : LandPackRow(p)
  \/ PollTriggerJobs \/ \E a \in jobAsks : ServeTriggerJobs(a) \/ LandTriggerJobs(a)
  \/ TriggerClicked \/ FullRestartClicked \/ OtherPage
  \/ \E o \in rowOrders : ServeOrder(o) \/ RowOrderAnswered(o)

RowSpec == RowInit /\ [][RowNext]_rowVars

-----------------------------------------------------------------------------
\* While rows are loaded into the target table no trigger of it is enabled, through restarts at any
\* moment, unless it could not be disabled, or was enabled on the page, or by the thread of a job that a
\* restart has deleted; no job is run twice, whatever is clicked twice and on how many pages; and of the
\* triggers of a job that still exists and that the row calls done, none is disabled but on the page.
TriggersOnlyByJob ==
  /\ rowPhase = "LOADING" => \A t \in enabled : by[t] \in {"undisabled", "page", "orphan"}
  /\ \A i \in JobIds : ran[i] # "again"
  /\ shownJobs.st = "DONE" /\ (\E j \in triggerJobs : j.id = shownJobs.id) =>
       \A t \in Triggers \ enabled : by[t] = "page"
=============================================================================
