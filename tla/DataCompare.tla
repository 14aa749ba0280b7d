---------------------------- MODULE DataCompare ----------------------------
(***************************************************************************)
(* The comparison of a table's data (routes/data_compare.py, the compare   *)
(* loop of the workers, the page components/DataCompare) and the phase     *)
(* DATA_VERIFYING of a migration, which runs one.  A full comparison is a  *)
(* task cut into chunks of both tables; workers claim the chunks, and      *)
(* whoever completes one looks whether the task can be decided.  A         *)
(* comparison of the last N rows is one query of a thread.                 *)
(*                                                                         *)
(* Each chunk stands for one row, so the tables are the same when they     *)
(* have as many chunks.  They are at rest while they are compared.  A      *)
(* transaction is one step: the decision counts the chunks in one          *)
(* statement, with the row of the task locked.                             *)
(***************************************************************************)
EXTENDS Naturals, FiniteSets

CONSTANTS
  Contents,        \* records [source, target]: chunks of the two tables
  Workers,         \* threads of the workers' compare loop
  MaxTask,         \* bound: comparisons
  MaxRetries,      \* _MAX_COMPARE_RETRIES
  MaxFaults,       \* bound: errors of Oracle, deaths of a worker or of the backend
  MaxUser,         \* bound: clicks of the operators
  MaxLists         \* bound: answers of the list of tasks under way

ASSUME CompareAssumption == /\ Contents \subseteq [source : Nat, target : Nat]
                            /\ MaxTask \in Nat /\ MaxRetries \in Nat

TaskIds == 1..MaxTask
Sides == {"source", "target"}
NoTask == 0
NoCreator == [at |-> "none", task |-> NoTask]
Free == [do |-> "idle"]

VARIABLES
  content,         \* the tables
  task,            \* data_compare_tasks
  chunks,          \* data_compare_chunks, but for FAILED tries: sets of records, by task
  threads,         \* background threads of the backend: what they do, of which task
  worker,          \* what each worker does
  mig,             \* the migration that verifies its data
  creator,         \* _in_progress: the thread that makes the migration's task
  tick,            \* the orchestrator's tick: {} or the migration's task as it read it
  lost,            \* history: tasks whose worker or thread was lost, or whose decision failed
  faults, clicks,  \* how many there were
  submitting,      \* the POST of the page is under way
  taskRows,        \* tasks: what the page shows of each task
  lists,           \* loadTasks: the answers that have not landed
  loadingTasks     \* one was asked for after the last that landed

counts == <<faults, clicks>>
taskVars == <<content, task, chunks, threads, worker, lost>>
verifyVars == <<mig, creator, tick>>
pageRows == <<taskRows, lists, loadingTasks>>
compareVars == <<taskVars, verifyVars, counts, submitting, pageRows>>

Unfinished == {"PENDING", "CHUNKING", "RUNNING"}
NoRow == [st |-> "none", total |-> 0, done |-> 0, verdict |-> "none"]
Exists(t) == task[t].st \notin {"none", "gone"}
Shown == {t \in TaskIds : taskRows[t] # "none"}
\* list_tasks, as far as the page tells the tasks apart.
Status(t) == IF ~Exists(t) THEN "none" ELSE IF task[t].st \in Unfinished THEN "unfinished" ELSE "ended"
ListNow == [t \in TaskIds |-> Status(t)]
Same == content.source = content.target

CompareTypeOK ==
  /\ \A t \in TaskIds : /\ task[t].st \in Unfinished \cup {"none", "gone", "DONE", "FAILED"}
                        /\ task[t].verdict \in {"none", "same", "differs"}
                        /\ \A c \in chunks[t] : /\ c.side \in Sides /\ c.tries \in 0..MaxRetries
                                                /\ c.st \in {"PENDING", "CLAIMED", "DONE", "FAILED"}
  /\ mig.phase \in {"DATA_VERIFYING", "DATA_MISMATCH", "COMPLETED", "FAILED"}
  /\ mig.task \in TaskIds \cup {NoTask} /\ creator.at \in {"none", "begun", "inserted"}
  /\ lost \subseteq TaskIds /\ submitting \in BOOLEAN

-----------------------------------------------------------------------------
(* Tasks and the threads that begin them.                                  *)

\* INSERT INTO data_compare_tasks ... 'PENDING'.
Unused == {t \in TaskIds : task[t].st = "none" /\ \A u \in TaskIds : u < t => task[u].st # "none"}
Inserted(t) == [task EXCEPT ![t] = [NoRow EXCEPT !.st = "PENDING"]]
\* A statement about a task that was deleted changes no row.
WithStatus(t, st) == IF Exists(t) THEN [task EXCEPT ![t].st = st] ELSE task

\* _create_chunks_and_start, first half; _run_last_n_comparison likewise.
ThreadBegins(h) ==
  /\ h \in threads /\ h.do \in {"cut", "last_n"}
  /\ task' = WithStatus(h.task, IF h.do = "cut" THEN "CHUNKING" ELSE "RUNNING")
  /\ threads' = (threads \ {h}) \cup {[h EXCEPT !.do = IF h.do = "cut" THEN "insert" ELSE "query"]}
  /\ UNCHANGED <<content, chunks, worker, lost, verifyVars, counts, submitting, pageRows>>

NewChunks == {[side |-> "source", i |-> i, st |-> "PENDING", tries |-> 0] : i \in 1..content.source}
             \cup {[side |-> "target", i |-> i, st |-> "PENDING", tries |-> 0] : i \in 1..content.target}
Chunked(t) == content.source + content.target

\* The chunks and RUNNING are one commit; the insert fails when the task is gone.
ThreadInserts(h) ==
  /\ h \in threads /\ h.do = "insert"
  /\ IF Exists(h.task)
       THEN /\ chunks' = [chunks EXCEPT ![h.task] = NewChunks]
            /\ task' = [task EXCEPT ![h.task].st = "RUNNING", ![h.task].total = Chunked(h.task)]
            /\ threads' = (threads \ {h}) \cup
                            (IF Chunked(h.task) = 0 THEN {[h EXCEPT !.do = "decide"]} ELSE {})
       ELSE threads' = threads \ {h} /\ UNCHANGED <<chunks, task>>
  /\ UNCHANGED <<content, worker, lost, verifyVars, counts, submitting, pageRows>>

\* Oracle fails, or the order column is of another table: the task fails.
ThreadFails(h) ==
  /\ h \in threads /\ h.do \in {"insert", "query"} /\ (h.wrong \/ faults < MaxFaults)
  /\ faults' = IF h.wrong THEN faults ELSE faults + 1
  /\ task' = WithStatus(h.task, "FAILED") /\ threads' = threads \ {h}
  /\ UNCHANGED <<content, chunks, worker, lost, verifyVars, clicks, submitting, pageRows>>

LastNDone(h) ==
  /\ h \in threads /\ h.do = "query" /\ ~h.wrong
  /\ task' = IF Exists(h.task)
               THEN [task EXCEPT ![h.task].st = "DONE", ![h.task].verdict = IF Same THEN "same" ELSE "differs"]
               ELSE task
  /\ threads' = threads \ {h}
  /\ UNCHANGED <<content, chunks, worker, lost, verifyVars, counts, submitting, pageRows>>

-----------------------------------------------------------------------------
(* The workers.                                                            *)

Having(t, st) == {c \in chunks[t] : c.st = st}
Become(t, c, st) == [chunks EXCEPT ![t] = (@ \ {c}) \cup {[c EXCEPT !.st = st]}]

\* claim_compare_chunk.
Claimable(t) == task[t].st = "RUNNING" /\ ~(mig.task = t /\ mig.paused)
ClaimCompareChunk(w) ==
  /\ worker[w] = Free
  /\ \E t \in TaskIds : /\ Claimable(t)
                        /\ \E c \in Having(t, "PENDING") :
                             /\ chunks' = Become(t, c, "CLAIMED")
                             /\ worker' = [worker EXCEPT ![w] = [do |-> "count", task |-> t,
                                                                 chunk |-> [c EXCEPT !.st = "CLAIMED"]]]
  /\ UNCHANGED <<content, task, threads, lost, verifyVars, counts, submitting, pageRows>>

\* Mutant of CompleteCompareChunk: it is left to somebody else to decide the task.
CompleteChunkOnly(w) ==
  /\ worker[w].do = "count" /\ worker' = [worker EXCEPT ![w] = Free]
  /\ LET t == worker[w].task
     IN  IF worker[w].chunk \in chunks[t]
           THEN /\ chunks' = Become(t, worker[w].chunk, "DONE")
                /\ task' = [task EXCEPT ![t].done = @ + 1]
           ELSE UNCHANGED <<chunks, task>>
  /\ UNCHANGED <<content, threads, lost, verifyVars, counts, submitting, pageRows>>

\* complete_compare_chunk: a deleted chunk has no task to decide.
CompleteCompareChunk(w) ==
  /\ worker[w].do = "count"
  /\ LET t == worker[w].task
     IN  IF worker[w].chunk \in chunks[t]
           THEN /\ chunks' = Become(t, worker[w].chunk, "DONE")
                /\ task' = [task EXCEPT ![t].done = @ + 1]
                /\ worker' = [worker EXCEPT ![w] = [do |-> "decide", task |-> t]]
           ELSE worker' = [worker EXCEPT ![w] = Free] /\ UNCHANGED <<chunks, task>>
  /\ UNCHANGED <<content, threads, lost, verifyVars, counts, submitting, pageRows>>

\* fail_compare_chunk: nobody looks whether the task can be decided.
AfterError(c) == IF c.tries < MaxRetries THEN [c EXCEPT !.st = "PENDING", !.tries = @ + 1]
                                         ELSE [c EXCEPT !.st = "FAILED"]
FailCompareChunk(w) ==
  /\ worker[w].do = "count" /\ faults < MaxFaults /\ faults' = faults + 1
  /\ LET t == worker[w].task  c == worker[w].chunk
     IN  chunks' = IF c \in chunks[t] THEN [chunks EXCEPT ![t] = (@ \ {c}) \cup {AfterError(c)}] ELSE chunks
  /\ worker' = [worker EXCEPT ![w] = Free]
  /\ UNCHANGED <<content, task, threads, lost, verifyVars, clicks, submitting, pageRows>>

\* try_aggregate, _try_aggregate_from_worker.
Verdict(t) == IF Cardinality({c \in Having(t, "DONE") : c.side = "source"})
                   = Cardinality({c \in Having(t, "DONE") : c.side = "target"})
                THEN "same" ELSE "differs"
\* Mutant of Decided: a chunk that somebody works on is not waited for.
DecidedEarly(t) ==
  IF task[t].st # "RUNNING" THEN task[t]
  ELSE [task[t] EXCEPT !.done = Cardinality(Having(t, "DONE")),
          !.st = IF Having(t, "PENDING") # {} THEN "RUNNING"
                 ELSE IF Having(t, "FAILED") # {} THEN "FAILED" ELSE "DONE",
          !.verdict = Verdict(t)]

Decided(t) ==
  IF task[t].st # "RUNNING" THEN task[t]
  ELSE [task[t] EXCEPT !.done = Cardinality(Having(t, "DONE")),
          !.st = IF Having(t, "PENDING") \cup Having(t, "CLAIMED") # {} THEN "RUNNING"
                 ELSE IF Having(t, "FAILED") # {} THEN "FAILED" ELSE "DONE",
          !.verdict = IF Having(t, "DONE") = chunks[t] THEN Verdict(t) ELSE "none"]

WorkerDecides(w) ==
  /\ worker[w].do = "decide"
  /\ task' = [task EXCEPT ![worker[w].task] = Decided(worker[w].task)]
  /\ worker' = [worker EXCEPT ![w] = Free]
  /\ UNCHANGED <<content, chunks, threads, lost, verifyVars, counts, submitting, pageRows>>

\* The backend decides an empty task by itself.
ThreadDecides(h) ==
  /\ h \in threads /\ h.do = "decide"
  /\ task' = [task EXCEPT ![h.task] = Decided(h.task)] /\ threads' = threads \ {h}
  /\ UNCHANGED <<content, chunks, worker, lost, verifyVars, counts, submitting, pageRows>>

\* A worker dies and is started again, or its decision ends in an error that is only printed:
\* a claimed chunk stays claimed, and the decision is not repeated.
WorkerDies(w) ==
  /\ worker[w] # Free /\ faults < MaxFaults /\ faults' = faults + 1
  /\ lost' = lost \cup {worker[w].task} /\ worker' = [worker EXCEPT ![w] = Free]
  /\ UNCHANGED <<content, task, chunks, threads, verifyVars, clicks, submitting, pageRows>>

-----------------------------------------------------------------------------
(* DATA_VERIFYING and DATA_MISMATCH of the migration.                      *)

\* get_active_migrations: the tick acts on the row as it was read at its beginning.
TickBegins ==
  /\ tick = {} /\ mig.phase = "DATA_VERIFYING" /\ tick' = {mig.task}
  /\ UNCHANGED <<taskVars, mig, creator, counts, submitting, pageRows>>

\* _safe_transition.
MoveMigration(p) == IF mig.phase = "DATA_VERIFYING" THEN [mig EXCEPT !.phase = p] ELSE mig

\* _handle_data_verifying; _fail fails the migration whatever its phase is.
HandleDataVerifying ==
  /\ tick # {} /\ tick' = {}
  /\ IF tick = {NoTask}
       THEN creator' = (IF creator = NoCreator THEN [NoCreator EXCEPT !.at = "begun"] ELSE creator)
            /\ UNCHANGED <<mig, task>>
       ELSE LET id == CHOOSE t \in tick : TRUE
                row == task[id]
            IN  /\ mig' = CASE ~Exists(id) \/ row.st = "FAILED" -> [mig EXCEPT !.phase = "FAILED"]
                            [] row.st = "DONE" -> MoveMigration(IF row.verdict = "same" THEN "COMPLETED"
                                                                                         ELSE "DATA_MISMATCH")
                            [] OTHER -> mig
                /\ task' = IF row.st = "RUNNING" /\ row.total = 0
                             THEN [task EXCEPT ![id] = Decided(id)] ELSE task
                /\ UNCHANGED creator
  /\ UNCHANGED <<content, chunks, threads, worker, lost, counts, submitting, pageRows>>

\* _run: the task and the migration's reference to it are one commit, the thread comes after it.
CreatorInserts ==
  /\ creator.at = "begun"
  /\ \E t \in Unused : task' = Inserted(t) /\ mig' = [mig EXCEPT !.task = t] /\ creator' = [at |-> "inserted", task |-> t]
  /\ UNCHANGED <<content, chunks, threads, worker, lost, tick, counts, submitting, pageRows>>

CreatorLaunches ==
  /\ creator.at = "inserted" /\ creator' = NoCreator
  /\ threads' = threads \cup {[do |-> "cut", task |-> creator.task, wrong |-> FALSE]}
  /\ UNCHANGED <<content, task, chunks, worker, lost, mig, tick, counts, submitting, pageRows>>

\* The operator, on the page of the migration.
RetryVerify ==
  /\ mig.phase = "DATA_MISMATCH" /\ clicks < MaxUser /\ clicks' = clicks + 1
  /\ mig' = [mig EXCEPT !.phase = "DATA_VERIFYING", !.task = NoTask]
  /\ UNCHANGED <<taskVars, creator, tick, faults, submitting, pageRows>>

ForceComplete ==
  /\ mig.phase = "DATA_MISMATCH" /\ clicks < MaxUser /\ clicks' = clicks + 1
  /\ mig' = [mig EXCEPT !.phase = "COMPLETED", !.forced = TRUE]
  /\ UNCHANGED <<taskVars, creator, tick, faults, submitting, pageRows>>

TogglePause ==
  /\ clicks < MaxUser /\ clicks' = clicks + 1 /\ mig' = [mig EXCEPT !.paused = ~@]
  /\ UNCHANGED <<taskVars, creator, tick, faults, submitting, pageRows>>

\* The backend is started again: its threads are gone, and what they were to do is not repeated.
BackendRestarts ==
  /\ faults < MaxFaults /\ faults' = faults + 1 /\ (creator # NoCreator \/ threads # {})
  /\ lost' = lost \cup {h.task : h \in threads} \cup ({creator.task} \ {NoTask})
  /\ threads' = {} /\ creator' = NoCreator /\ tick' = {}
  /\ UNCHANGED <<content, task, chunks, worker, mig, clicks, submitting, pageRows>>

-----------------------------------------------------------------------------
(* The page.                                                               *)

\* What the form can hold when it is sent. The order column is of another table when the table
\* was chosen after it, or while the columns of the table before are still offered.
FormCanRun == {[mode |-> "full", order |-> "own"], [mode |-> "last_n", order |-> "own"],
               [mode |-> "last_n", order |-> "foreign"]}

\* loadTasks, list_tasks: the answer is of the moment it is asked for and lands later, in any order.
LoadTasks == /\ Cardinality(lists \cup {ListNow}) <= MaxLists
             /\ lists' = lists \cup {ListNow} /\ loadingTasks' = TRUE

\* An answer that is an error empties the list; one that does not come leaves it.
LandTasks(l) ==
  /\ l \in lists /\ lists' = lists \ {l} /\ loadingTasks' = FALSE
  /\ taskRows' \in {l, [t \in TaskIds |-> "none"], taskRows}
  /\ UNCHANGED <<taskVars, verifyVars, counts, submitting>>

\* handleRun, run_compare.
HandleRun ==
  /\ ~submitting /\ clicks < MaxUser /\ clicks' = clicks + 1 /\ submitting' = TRUE
  /\ \E t \in Unused, f \in FormCanRun :
       /\ task' = Inserted(t)
       /\ threads' = threads \cup {[do |-> IF f.mode = "full" THEN "cut" ELSE "last_n", task |-> t,
                                    wrong |-> f.mode = "last_n" /\ f.order = "foreign"]}
  /\ UNCHANGED <<content, chunks, worker, lost, verifyVars, faults, pageRows>>

\* The list is asked for after an answer; after an error it is not, though the task may be there.
RunAnswered ==
  /\ submitting /\ submitting' = FALSE
  /\ LoadTasks \/ UNCHANGED <<lists, loadingTasks>>
  /\ UNCHANGED <<taskVars, verifyVars, counts, taskRows>>

\* hasRunning: the list is asked for again while a row of it is not finished.
HasRunning == \E t \in TaskIds : taskRows[t] = "unfinished"
PollTasks ==
  /\ HasRunning /\ LoadTasks
  /\ UNCHANGED <<taskVars, verifyVars, counts, submitting, taskRows>>

\* The button above the table; it is the operator's only way to see a task others started.
Refresh ==
  /\ ~loadingTasks /\ clicks < MaxUser /\ clicks' = clicks + 1 /\ LoadTasks
  /\ UNCHANGED <<taskVars, verifyVars, faults, submitting, taskRows>>

\* handleDelete, delete_task: whoever the task is of. The chunks go with it.
HandleDelete(t) ==
  /\ t \in Shown /\ clicks < MaxUser /\ clicks' = clicks + 1 /\ LoadTasks
  /\ task' = IF Exists(t) THEN [task EXCEPT ![t] = [NoRow EXCEPT !.st = "gone"]] ELSE task
  /\ chunks' = [chunks EXCEPT ![t] = {}]
  /\ UNCHANGED <<content, threads, worker, lost, verifyVars, faults, submitting, taskRows>>

-----------------------------------------------------------------------------
CompareInit ==
  /\ content \in Contents
  /\ task = [t \in TaskIds |-> NoRow] /\ chunks = [t \in TaskIds |-> {}]
  /\ threads = {} /\ worker = [w \in Workers |-> Free] /\ lost = {}
  /\ \E p \in {"DATA_VERIFYING", "FAILED"} :
       mig = [phase |-> p, task |-> NoTask, paused |-> FALSE, forced |-> FALSE]
  /\ creator = NoCreator /\ tick = {}
  /\ faults = 0 /\ clicks = 0
  /\ submitting = FALSE
  /\ taskRows = [t \in TaskIds |-> "none"] /\ lists = {[t \in TaskIds |-> "none"]} /\ loadingTasks = TRUE

ThreadStep(h) == ThreadBegins(h) \/ ThreadInserts(h) \/ ThreadFails(h) \/ LastNDone(h) \/ ThreadDecides(h)
WorkerStep(w) == ClaimCompareChunk(w) \/ CompleteCompareChunk(w) \/ FailCompareChunk(w) \/ WorkerDecides(w)

CompareNext ==
  \/ \E h \in threads : ThreadStep(h)
  \/ \E w \in Workers : WorkerStep(w) \/ WorkerDies(w)
  \/ TickBegins \/ HandleDataVerifying \/ CreatorInserts \/ CreatorLaunches
  \/ RetryVerify \/ ForceComplete \/ TogglePause \/ BackendRestarts
  \/ HandleRun \/ RunAnswered
  \/ (\E l \in lists : LandTasks(l)) \/ PollTasks \/ Refresh
  \/ \E t \in TaskIds : HandleDelete(t)

CompareSpec == CompareInit /\ [][CompareNext]_compareVars

-----------------------------------------------------------------------------
(* Properties.                                                             *)

\* The verdict of a comparison is the truth about the two tables, with every chunk of both counted
\* once, whatever was retried and whoever decided; and a migration completes its verification on
\* such a verdict or because the operator forced it.
VerdictIsTrue ==
  /\ \A t \in TaskIds : task[t].st = "DONE" => (task[t].verdict = "same" <=> Same)
  /\ \A t \in TaskIds : (task[t].st = "DONE" /\ chunks[t] # {}) => task[t].done = task[t].total
  /\ mig.phase = "COMPLETED" => (Same \/ mig.forced)

\* A comparison that has begun is not stranded: as long as it is unfinished there is a chunk to
\* claim, or a worker or a thread that has the next step of it to do, so that it ends without
\* anybody's help. The known exceptions: a worker or a thread was lost, or a chunk failed for good.
InHand(t) ==
  \/ Having(t, "PENDING") # {}
  \/ creator.task = t \/ (\E h \in threads : h.task = t)
  \/ \E w \in Workers : worker[w] # Free /\ worker[w].task = t
NeverStranded ==
  \A t \in TaskIds : task[t].st \in Unfinished => InHand(t) \/ t \in lost \/ Having(t, "FAILED") # {}
=============================================================================
