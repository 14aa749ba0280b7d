------------------------ MODULE MigrationDetailView ------------------------
(***************************************************************************)
(* The detail panel of one migration (components/MigrationDetail) and the  *)
(* server behind it. The panel is not rebuilt when another migration is    *)
(* chosen: it keeps the detail of the previous one until an answer lands,  *)
(* and an answer lands whatever it is about. The buttons of its header are *)
(* drawn from that detail and act on the chosen migration.                 *)
(***************************************************************************)
EXTENDS MigrationApi, FiniteSets

CONSTANTS
  Migs,          \* the migrations
  FirstRecs,     \* the tables the server may start with
  RecMoves,      \* the phase changes of the orchestrator that the instance allows
  MaxPost,       \* bound: actions of the operator
  MaxAsk         \* bound: detail requests, and trigger job requests, under way

VARIABLES
  rec,           \* the server's rows
  job,           \* the state of the latest trigger job of each migration
  sel,           \* migrationId, the chosen migration
  detail,        \* the detail the panel has, with its migration; or NoDetail
  asks,          \* detail requests: the migration, and the row once the server has answered
  jobs,          \* latest job known to EnableTriggersButton: its migration and state
  jobAnswers,    \* answers about trigger jobs on their way
  busy,          \* the button groups that are busy
  requests,      \* actions under way
  done           \* actions so far

detailVars == <<rec, job, sel, detail, asks, jobs, jobAnswers, busy, requests, done>>

panelVars == <<detail, asks>>
triggerVars == <<jobs, jobAnswers>>

NoDetail == [id |-> "none", r |-> [phase |-> "", paused |-> FALSE, error |-> "none", cdc |-> TRUE]]
NoJob == [of |-> "none", st |-> "none"]
Unanswered == [phase |-> "?", paused |-> FALSE, error |-> "none", cdc |-> TRUE]

\* A row of the server. Of the error codes those of baseline and indexes are told apart.
RecType ==
  [phase : ValidPhases \cup {Gone}, paused : BOOLEAN,
   error : BaselineErrors \cup {"INDEXES_ENABLE_ERROR", "another", "none"}, cdc : BOOLEAN]

ASSUME DetailAssumption ==
  /\ FirstRecs \subseteq [Migs -> RecType]
  /\ RecMoves \subseteq ValidPhases \X ValidPhases
  /\ MaxPost \in Nat /\ MaxAsk \in Nat \ {0}

JobState == {"none", "PENDING", "RUNNING", "DONE", "FAILED"}
Groups == {"indexes", "baseline", "mismatch", "triggers", "stop_delete"}

DetailTypeOK ==
  /\ \A m \in Migs : rec[m].paused \in BOOLEAN
  /\ job \in [Migs -> JobState]
  /\ sel \in Migs /\ detail.id \in Migs \cup {"none"}
  /\ Cardinality(asks) <= MaxAsk
  /\ jobs.of \in Migs \cup {"none"} /\ jobs.st \in JobState
  /\ busy \subseteq Groups /\ done \in 0..MaxPost

-----------------------------------------------------------------------------
(* The detail: loadDetail.                                                 *)

\* loadDetail asks for the chosen migration; the requests under way go on.
LoadDetail(m) ==
  asks' = IF Cardinality(asks) < MaxAsk THEN asks \cup {[id |-> m, r |-> Unanswered]} ELSE asks

\* A request for the trigger jobs of a migration; alive: its answer is checked for the migration
\* still being the chosen one.
AskJobs(m, alive) ==
  jobAnswers' = IF Cardinality(jobAnswers) < MaxAsk
                  THEN jobAnswers \cup {[of |-> m, st |-> "?", alive |-> alive]} ELSE jobAnswers

\* Another migration is chosen in the list: effects load it and its jobs; detail and jobs stay.
Choose(m) ==
  /\ m # sel /\ sel' = m
  /\ LoadDetail(m)
  /\ AskJobs(m, TRUE)
  /\ UNCHANGED <<rec, job, detail, jobs, busy, requests, done>>

ServeDetail(a) ==
  /\ a \in asks /\ a.r = Unanswered
  /\ asks' = (asks \ {a}) \cup {[a EXCEPT !.r = rec[a.id]]}
  /\ UNCHANGED <<rec, job, sel, detail, triggerVars, busy, requests, done>>

\* The groups of buttons that the header draws for a detail.
GroupOf(act) ==
  CASE act = "enable_indexes"   -> "indexes"
    [] act = "restart_baseline" -> "baseline"
    [] act \in {"retry_verify", "force_complete"} -> "mismatch"
    [] act \in {"create_trigger_job", "run_trigger_job"} -> "triggers"
    [] OTHER                    -> "stop_delete"

HeaderGroups(r) == {GroupOf(act) : act \in HeaderActions(r)}

\* The answer lands, for the chosen migration or not. A group that is no longer drawn forgets
\* its state.
LandDetail(a) ==
  /\ a \in asks /\ a.r # Unanswered
  /\ asks' = asks \ {a}
  /\ detail' = [id |-> a.id, r |-> a.r]
  /\ busy' = busy \cap HeaderGroups(a.r)
  /\ jobs' = IF "triggers" \in HeaderGroups(a.r) THEN jobs ELSE NoJob
  /\ UNCHANGED <<rec, job, sel, jobAnswers, requests, done>>

\* The effect on sseEvents: a migration_phase, baseline_progress or target_trigger_job event of the
\* chosen migration that is the newest one when the panel is drawn. Such events come at any time.
SeeMigrationEvent ==
  /\ LoadDetail(sel)
  /\ UNCHANGED <<rec, job, sel, detail, triggerVars, busy, requests, done>>

-----------------------------------------------------------------------------
(* Trigger jobs: EnableTriggersButton.                                     *)

\* Whether the group is drawn.
TriggersDrawn == "triggers" \in HeaderGroups(detail.r)

\* tick(): every three seconds while the group is drawn.
PollJobs ==
  /\ TriggersDrawn
  /\ AskJobs(sel, TRUE)
  /\ UNCHANGED <<rec, job, sel, panelVars, jobs, busy, requests, done>>

ServeJobs(a) ==
  /\ a \in jobAnswers /\ a.st = "?"
  /\ jobAnswers' = (jobAnswers \ {a}) \cup {[a EXCEPT !.st = job[a.of]]}
  /\ UNCHANGED <<rec, job, sel, panelVars, jobs, busy, requests, done>>

\* The answer of a poll is dropped when another migration was chosen before its head arrived
\* (alive); one that passed the check, and those of loadJobs(), which has no such check, land.
LandJobs(a) ==
  /\ a \in jobAnswers /\ a.st # "?"
  /\ jobAnswers' = jobAnswers \ {a}
  /\ jobs' \in (IF ~TriggersDrawn THEN {NoJob} ELSE {[of |-> a.of, st |-> a.st]})
                 \cup (IF a.alive /\ a.of # sel THEN {jobs} ELSE {})
  /\ UNCHANGED <<rec, job, sel, panelVars, busy, requests, done>>

\* The button offered for the latest job known.
TriggerActions ==
  CASE jobs.st \in {"none", "FAILED"} -> {"create_trigger_job"}
    [] jobs.st = "PENDING"            -> {"run_trigger_job"}
    [] OTHER                          -> {}

\* The thread of the job ends.
JobEnds(m) ==
  /\ job[m] = "RUNNING"
  /\ job' \in {[job EXCEPT ![m] = "DONE"], [job EXCEPT ![m] = "FAILED"]}
  /\ UNCHANGED <<rec, sel, panelVars, triggerVars, busy, requests, done>>

-----------------------------------------------------------------------------
(* The buttons.                                                            *)

\* What the header offers: drawn from detail, disabled while the group is busy.
Offered ==
  {act \in (HeaderActions(detail.r) \ {"create_trigger_job"})
             \cup (IF TriggersDrawn THEN TriggerActions ELSE {}) : GroupOf(act) \notin busy}

\* A click, confirmed where the code asks: the request goes to the chosen migration.
Click(act) ==
  /\ act \in Offered
  /\ done < MaxPost /\ done' = done + 1
  /\ busy' = busy \cup {GroupOf(act)}
  /\ requests' = requests \cup {[to |-> sel, act |-> act, n |-> done, st |-> "sent",
                                 job |-> IF act = "run_trigger_job" THEN jobs.of ELSE "none"]}
  /\ UNCHANGED <<rec, job, sel, panelVars, triggerVars>>

\* Mutant of AcceptsRequest: the job may be of another migration.
AcceptsAnyJob(q) ==
  IF q.act = "run_trigger_job"
    THEN job[q.to] = "PENDING" /\ rec[q.to].phase # Gone
    ELSE Accepts(q.act, rec[q.to])

\* run_job_async takes a PENDING job of that very migration.
AcceptsRequest(q) ==
  IF q.act = "run_trigger_job"
    THEN q.job = q.to /\ job[q.to] = "PENDING" /\ rec[q.to].phase # Gone
    ELSE Accepts(q.act, rec[q.to])

\* ensure_pending_job keeps a PENDING or RUNNING job.
JobAfter(q) ==
  CASE q.act = "run_trigger_job" -> "RUNNING"
    [] q.act = "create_trigger_job" /\ job[q.to] \notin {"PENDING", "RUNNING"} -> "PENDING"
    [] OTHER -> job[q.to]

ServeRequest(q) ==
  /\ q \in requests /\ q.st = "sent"
  /\ IF AcceptsRequest(q)
       THEN /\ rec' = [rec EXCEPT ![q.to] = Effect(q.act, @)]
            /\ job' = [job EXCEPT ![q.to] = JobAfter(q)]
            /\ requests' = (requests \ {q}) \cup {[q EXCEPT !.st = "accepted"]}
       ELSE /\ requests' = (requests \ {q}) \cup {[q EXCEPT !.st = "refused"]}
            /\ UNCHANGED <<rec, job>>
  /\ UNCHANGED <<sel, panelVars, triggerVars, busy, done>>

\* A refusal of the index, baseline and mismatch buttons is only shown; the others load the
\* detail of the migration they were clicked for, and the trigger buttons the jobs first. A
\* deletion closes the panel: the operator chooses another migration.
RequestAnswered(q) ==
  /\ q \in requests /\ q.st # "sent"
  /\ requests' = requests \ {q} /\ busy' = busy \ {GroupOf(q.act)}
  /\ IF \/ q.st = "refused" /\ GroupOf(q.act) \in {"indexes", "baseline", "mismatch"}
        \/ q.st = "accepted" /\ q.act = "delete"
       THEN UNCHANGED asks
       ELSE LoadDetail(q.to)
  /\ IF GroupOf(q.act) = "triggers" THEN AskJobs(q.to, FALSE) ELSE UNCHANGED jobAnswers
  /\ UNCHANGED <<rec, job, sel, detail, jobs, done>>

-----------------------------------------------------------------------------
MoveOn(m) ==
  /\ \E move \in RecMoves :
       /\ rec[m].phase = move[1]
       /\ rec' = [rec EXCEPT ![m].phase = move[2],
                             ![m].error = IF move[2] = "FAILED" THEN "BASELINE_LOAD_FAILED" ELSE @]
  /\ UNCHANGED <<job, sel, panelVars, triggerVars, busy, requests, done>>

\* A trigger job may be left over from an earlier visit.
DetailInit ==
  /\ rec \in FirstRecs
  /\ job \in {j \in [Migs -> {"none", "PENDING"}] :
               \A m \in Migs : j[m] = "PENDING" => rec[m].phase \in TriggerPhases}
  /\ sel \in Migs /\ detail = NoDetail
  /\ asks = {[id |-> sel, r |-> Unanswered]}
  /\ jobs = NoJob /\ jobAnswers = {} /\ busy = {} /\ requests = {} /\ done = 0

DetailNext ==
  \/ \E m \in Migs : Choose(m) \/ JobEnds(m) \/ MoveOn(m)
  \/ \E a \in asks : ServeDetail(a) \/ LandDetail(a)
  \/ \E a \in jobAnswers : ServeJobs(a) \/ LandJobs(a)
  \/ SeeMigrationEvent \/ PollJobs
  \/ \E act \in Offered : Click(act)
  \/ \E q \in requests : ServeRequest(q) \/ RequestAnswered(q)

DetailSpec == DetailInit /\ [][DetailNext]_detailVars

-----------------------------------------------------------------------------
(* Properties.                                                             *)

\* Although the header may be drawn from the detail of another migration, or an old one, a request
\* that deletes, restarts, rebuilds indexes, verifies or completes takes effect on a migration only in
\* a phase in which the panel would offer it for that very migration: what the console does not check
\* the server does. (Stop and resume are accepted in any phase, pause in five phases that have no
\* button, and a trigger job also for a CDC migration that was completed by force.) And a trigger job
\* is started only by a request for its own migration, although the button may still hold the job of
\* the migration chosen before.
Unchecked == {"stop", "resume", "pause", "create_trigger_job", "run_trigger_job"}
EffectRespectsPanel ==
  [][/\ \A q \in requests :
          (q.st = "sent" /\ [q EXCEPT !.st = "accepted"] \in requests' /\ q.act \notin Unchecked)
            => q.act \in HeaderActions(rec[q.to])
     /\ \A m \in Migs : (job[m] = "PENDING" /\ job'[m] = "RUNNING")
            => \E q \in requests : q.act = "run_trigger_job" /\ q.to = m /\ q.job = m]_detailVars
=============================================================================
