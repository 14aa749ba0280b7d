# A TLA+ model of the Oracle-to-Oracle migration coordinator

The repository migrates Oracle tables into another Oracle database: a bulk copy, split into
chunks that worker processes load in parallel, and, for the CDC strategies, the changes made
meanwhile, which Debezium puts on Kafka and CDC workers apply. One *coordinator* process
(Flask and threads) drives every migration through its phases; *workers* (any number, possibly
on other hosts) do the loading. They share no memory and send each other no messages: every
interaction goes through rows of a PostgreSQL *State DB*. A *web console* shows the operator what
some request answered some time ago and sends requests decided on that. Nearly everything that can
go wrong is therefore an interleaving of small transactions and answers of different processes, some
of them dead, slow or repeated. Those interleavings are what this project models, checks with TLC
and, where the property is one of safety, proves with TLAPS for every size.

## The system

| Component | State | Operations | Talks to |
|---|---|---|---|
| Chunk queue (`workers/common.py`, `backend/services/job_queue.py`) | `migration_chunks`: status, `claimed_at`, `retry_count` | claim, progress, complete, cancel, fail, permanent fail, stale reset, retry | workers, tick, operator |
| Bulk load (`workers/worker.py`, `orchestrator.py`) | phase BULK_LOADING, the chunks, the destination table | process_chunk, `_handle_bulk_loading` | queue, Oracle |
| Baseline (`orchestrator.py`, `worker.py`) | phases STAGE_VALIDATED ... STAGE_DROPPING, BASELINE chunks, stage and target table | publishing thread, baseline workers, restart-baseline | queue, Oracle, tick |
| Phase machine (`orchestrator.py`) | `migrations.phase`, `paused`; `_in_progress` in memory | the tick: one handler per phase, each possibly with a thread; the kick; `_safe_transition` | everything |
| Operator's requests (`routes/migrations.py`) | the same rows | run, cancel, pause, resume, retry-chunks, retry_verify, restart-baseline, full restart, PATCH phase, delete | phase machine |
| Pack queue (`routes/planner.py`, `orchestrator.py`) | plans, launch orders, items | start, tick's plan sync, add items | phase machine |
| Data comparison (`routes/data_compare.py`, `common.py`, `worker.py`) | tasks and chunks | cut, claim, compare, fail, retry, decide, delete | phase DATA_VERIFYING |
| Connector groups (`connector_groups.py`, `orchestrator.py`) | `connector_groups.status`, run id | start, stop, status poll, health check | Debezium, phase machine |
| Trigger, index and DDL jobs | job tables | enqueue, claim, run, fail | target database |
| Settings (`routes/config.py`) | stored connections with secrets; a copy in memory | load masked, save, test | State DB, or the copy |
| Console (`frontend/src`) | what the last answers said; selections, forms, busy marks | polls, an event stream, buttons | every route |
| CDC apply and catch-up (`worker.py`, `common.py`, `orchestrator.py`) | `migration_cdc_state` (heartbeat, lag), Kafka offsets, the consumer's position | claim by heartbeat, poll, apply, the two commits, lag, release; the handlers of the CDC phases | Kafka, Oracle, phase machine |

What is hard about it, and what makes each part correct:

* **Chunk queue and loads.** Claims race; a claim has no owner check, so a worker that was slower
  than ten minutes still writes the status of a chunk that is no longer its own; a batch may be
  committed in Oracle although its worker never heard so; the tick counts chunks in one transaction
  and changes the phase in another. Correct: a table declared loaded has every row, a chunk has
  one loader, DONE is final, the counter is right, the load ends.
* **Baseline.** A restart deletes the chunks and truncates the target under the hands of workers
  and of an earlier publishing thread. Correct: a published target is exactly the stage table; the
  baseline comes to an end.
* **Phase machine.** Handlers act on a row read earlier; threads outlive the phase they were
  started for; the load slot is counted in one transaction and taken in another; requests arrive
  at any moment. Correct: migrations leave the queue in turn, each gets its turn, a cancellation is answered.
* **Pack queue.** A start and a plan sync both read the plan without a lock, decide and write later.
  Correct: nothing that has ended holds the queue, nothing under way is thrown back, every order runs.
* **Comparison.** Whoever completes the last chunk decides; workers, threads and the tick may all be
  last. Correct: a verdict is true and counts every chunk, and no task is left that nobody will decide.
* **Connector groups.** Start, stop, poll and health-check threads write one status, each on what it
  read before. Correct: a start or stop ends and a broken connector is noticed.
* **CDC apply.** A batch is committed in Oracle, then in Kafka; a worker dies between the two, is slower than its heartbeat, or
  skips over an event that failed. Only the consumer group keeps two workers apart, and it does not guard Oracle. The lag that ends a
  migration is measured in one transaction, stored in another and acted on by two actors. Correct: what is committed was applied; caught
  up means that everything was committed.
* **Console.** Answers come in any order and about things chosen before; page and server keep separate
  tables of what is allowed. Correct: what is shown does not go back, what is sent is what was shown, a
  button is refused only for a reason the page could not see, data is dropped only when asked, results
  reach the screen.

`PROJECT.json` lists every hazard at its source line with the property that covers it.

## Modules

The coordinator and its workers:

| Module | What it models | Proofs |
|---|---|---|
| `ChunkTable` | A row of `migration_chunks` and what each SQL statement does to it. No behaviour of its own. | - |
| `BulkLoad` | The bulk load of one migration: workers, tick, operator. | `BulkLoadProofs` |
| `TableLoad` | Abstract specification of a load: rows only arrive; completion is declared only when all are there. `BulkLoad` implements it. | `BulkLoadProofs` |
| `BaselineLoad` | Publishing the stage table: publishing thread, workers, tick, restart, cancellation. | `BaselineLoadProofs` |
| `LoadQueue` | Several migrations from DRAFT through the NEW queue and the heavy phases to the release of the load slot: tick, kick, threads, operator. | `LoadQueueProofs` |
| `PackQueue` | A plan with its orders and items: starts, plan sync, requests, failures. | `PackProofs` |
| `DataCompare` | Comparison tasks, chunks, workers and threads; DATA_VERIFYING; the comparison page. | `DataCompareProofs` |
| `CdcApply` | The changes of one table on a Kafka topic and the workers that apply them; the phases CDC_APPLYING to STEADY_STATE. | `BaselineLoadProofs` |
| `ConnectorGroup` | The status of a Debezium connector: threads, poll, health check, coordinator restarts. | `PackProofs` |
| `PackRow` | One table of a pack: triggers, trigger jobs with their threads, full restart. | `PanelProofs` |

The console, each with the routes it talks to:

| Module | What it models | Proofs |
|---|---|---|
| `LiveQuery` | One use of the hooks `useApi` and `useSSE`. | `LiveQueryProofs` |
| `MigrationApi` | Which requests the server accepts on a migration, and which buttons the console draws for it. No behaviour of its own. | - |
| `MigrationListView` | The list of migrations: polls, row and bulk actions. | `LiveQueryProofs` |
| `MigrationDetailView` | The detail panel, which outlives the choice of another migration. | `PanelProofs` |
| `PackPanel` | What the pack panel computes of a queue: counters, badges, tiles, buttons (on `PackQueue`). | `PackProofs` |
| `DashboardView` | The table of objects with its selection; the DDL pack and its jobs. | `DashboardProofs` |
| `TableWizard` | The dialog that puts tables into a pack, and `add_plan_items`. | `PanelProofs` |
| `SourceBrowser`, `CdcPackCard` | The browser of source tables; the card of a CDC pack. | `PanelProofs` |
| `ObjectDrawer` | The drawer of an object: DDL offers, sync of columns, differences drawn. | `DashboardProofs` |
| `TargetPrep` | Preparation of the target by pairs of tables. | `DashboardProofs` |
| `CatalogPage`, `SnapshotBanner` | The catalogue of a snapshot; loading a snapshot. | `PanelProofs` |
| `ConsoleSettings` | Connection settings with masked secrets. | `PanelProofs` |

`MCBulkLoad`, `MCBaselineLoad`, `MCCdcApply` and `MCLoadQueue` are instances of one module. `MCBaselineCdc`, `MCConsole`, `MCPack` and
`MCPanels` put several independent components into one run: a variable says which of them is at work in a behaviour, the
others stay as they begin. A step, a property and a bound are always those of the component's own module.

How they fit: `LoadQueue` sees the load of the chunks as one step of the environment (`LoadChunks`);
`BulkLoad` models exactly that step for one migration, and `TableLoad` is what it promises. Where
`LoadQueue` says RELEASED, `BaselineLoad` takes over (BASELINE_PUBLISHING to INDEXES_ENABLING), and `DataCompare` has
DATA_VERIFYING; `CdcApply` begins where the indexes are enabled again (CDC_APPLYING). `PackQueue` sees a migration's whole life as a chain of steps (`Progress`). `PackPanel` is a reading of
`PackQueue`'s state; `MigrationListView` and `MigrationDetailView` share the tables of `MigrationApi`.

### How steps are cut

One PostgreSQL transaction is one step, with one exception: `claim_chunk`'s UPDATE selects its row
from a snapshot, locks it (`FOR UPDATE SKIP LOCKED`) and becomes visible at the commit, so it is two
steps (`ClaimBegin`, `ClaimCommit`), other claims skip the row between them, and other statements on
the row wait. One Oracle commit is one step; a commit whose answer is lost is a step that has the
effect and reports failure. Time exists only as the age of `claimed_at`: a claim is *fresh*, then,
nondeterministically, *stale* (older than `_STALE_AFTER_MINUTES`).

### BulkLoad

`chunk` is `migration_chunks`; `wk[w]` is where worker `w` is in `process_chunk`, on which chunk and
after how many batches; `copies[c][b]` how often batch `b` of chunk `c` is in the destination;
`chunksDone` the counter column; `tick` the coordinator's tick between its transactions: it *reads*
(stale reset and the list of active migrations), then, for a loading migration, *counts*, then
writes the phase it decided on, whatever the phase has become meanwhile, as `_transition` does.
`Abandon` is a dying process or a lost State DB connection: the row stays as it was. `ReadFails`,
`FlushFails` and `FlushAnswerLost` cover the Oracle errors, with the fallback of `_flush_batch_fallback`
that tries a batch again at once. `TickRaises` is a handler's exception, which `_tick` turns into
FAILED. Operator: cancel, pause, resume, retry-chunks.

The constant `Late` says whether a live worker may hold a chunk longer than the stale limit. The code
does not prevent it (nothing refreshes `claimed_at`), so properties that need `~Late` say so:
they hold in deployments whose chunks take less than ten minutes.

### BaselineLoad

Chunks get new rows (new ids) at each cut, so a worker also remembers whether the row it claimed still
exists (`wk[w].row`): its updates then change nothing. `thread` is the migration's thread in
`_in_progress`: *drain*, *delete*, *truncate*, *chunk*, then the two transactions of
`_safe_transition` (`loading?`, `loading`). `copies[k]` counts key `k` in the target. `Keyed` says
whether a unique index survives `DISABLE CONSTRAINT` (Oracle drops the index it made itself for the key
and keeps one created before). `Delayed` says whether a handler may run on a phase that has changed since the tick
read it, which needs another migration's handler to run first in the same tick. A restart-baseline
request is its three transactions.

### LoadQueue

`phase` and `paused` are the columns; `ahead[m]` replaces `state_changed_at`: the migrations that were NEW
before `m` became NEW, which is what the `ROW_NUMBER` queries of `_handle_new` order by. `inProg` is `_in_progress`, and
`thread` the threads with the step each is at. A thread's Oracle or Kafka work is the time until its step `read`, the
first half of `_safe_transition`; `advance` is the second half. The preparing and the topic thread go on to
`_create_chunks_and_transition` (`stats`) whatever `_safe_transition` returned, as the code does, and the chunk thread they start
loses its in-progress mark at once to the finally clause of its parent (`CreateChunks`).

Handlers run for two *callers*. The tick reads all active, unpaused migrations with their phases (`TickRead`) and
handles them in any order, each on the phase it read; the kick (`_kick_new_migrations_for_group`) reads the first NEW
migrations of the group and runs `_handle_new` for them in another thread. `_handle_new` is three steps: the
busy slots, the place in the queue, the start of a thread. `MoveOn` covers the handlers that
change the phase unconditionally, `Decide` and `Transition` those that look first. There is one connector group; `running`
says whether it is RUNNING.

`NumThreads` bounds the threads at a time; it only delays the start of a thread.

### CdcApply

`cdcPhase` and `cdcPaused` are the migration's, `heartbeat` and `lagRow` the columns of `migration_cdc_state`. An event is its offset
1, 2, ... on the topic's one partition (`connector_groups.py:592` makes one unless the environment says otherwise); `target[k]` is the offset the
row of key `k` was last written from.
`applier[w]` is the thread of worker `w`: *loop* (the head of the loop, where it asks whether it should run, or its end, where a
checkin is due), *polling*, *applying*, *applied* (between the commit in Oracle and the one in Kafka), *measured* and *checked in* (between
the lag, its storing and `trigger_lag_zero`), *fatal* and *stopping*. `from` and `pos` are the position before and after the
poll. When an event fails, the transaction is rolled back and `pos` stays (`ApplyFails`), as in the code.

Kafka is modelled from its use: `Rebalances` gives the partition to any member at any moment when its owner is not at a batch (a live consumer gives
its partition up in a poll), and a member goes on from the committed offset; `IsSlow` is the member that does not poll in time and loses the
partition in the middle of a batch, whose commit the group then refuses. The same step, or only half of it, is a worker slower than
its heartbeat. `Breaks` at *applied* is a commit whose answer is lost. The tick is three steps: it reads the phase, its
handler reads the heartbeat or the lag, `_transition` writes. The history variables `rolledBack` and `undone` name what
`CommittedIsApplied` excepts, `firstFailed` what `CaughtUpIsCommitted` excepts.

### PackQueue and PackPanel

`row[i]` is an item with its migration's phase, `starter` and `sync` hold what a start or a plan sync has read and not yet
written. The migration's phases are a chain of steps (`Progress`), each of which may make a sync due; a sync may be lost
(a fault) as `_sync_plan_after_transition` swallows its errors. `PackPanel` has no variables: its operators are the
functions of `packModel.ts` and `PackPanel.tsx`, applied to the queue's state. A row has its place in the queue (`queue_position`)
until the next `_update_queue_positions`, whatever its phase is by then, so what is counted by the place is stated for
any set of rows that have one. The queue keeps phases in groups; where the panel tells more of them apart, a row is seen in each exact
phase of its group (`InDetail`).

### DataCompare

A chunk stands for one row of one of the two tables, so the tables are the same when they have as many chunks. Threads
cut and insert the chunks or run a comparison of the last rows; `worker[w]` counts a claimed chunk or is at the
decision; `creator` and `tick` are the two halves of making the task of DATA_VERIFYING; `lost` names the tasks of which
a worker or thread has died (there is no stale reset for these chunks).

### The console modules

An answer on its way is an element of a set (so answers overtake each other), a request not served yet is another; the server's
half of a route is one action that reads and writes the server's variables. `MigrationListView` gives a row a version (`gen`)
and a request the version it was clicked on, which only the properties read. Failed requests are answers of the environment.

`DashboardView`: `submit_jobs` is one transaction per action of a request, which looks for an active job and writes one object by object
(`SubmitJob`) and becomes visible at its commit (`CommitJobs`), so two requests may write two jobs for one object. A load of the
catalogue is begun, reads the target, and commits or fails (`BeginLoad`, `CatalogReads`, `CatalogCommits`, `CatalogFails`); of the
snapshots stored the latest is the one begun last, since `loaded_at` is the time its transaction began. The loop that waits for the jobs
asks for such a load when all have ended, and does not look whether it was made. What a worker leaves need not equal the source, and an
object that is there already is called done and left. The target is changed by the jobs only: changes to it by other tools are not
modelled.

`ConsoleSettings`: `memory` is `_mem_configs`. Every access to the State DB may fail; the coordinator then reads its memory, which a restart
empties, or writes there only, and answers as ever. `blind` names the services saved or tested like that.

`PackRow`: `enabled` are the triggers of the target that are on, and `by` names what left each of them so: a load may fail to switch some
off (`Prepare`) and goes on, the preparation page switches any of them in any phase (`PageSwitches`), a job's thread switches on those it can,
and a thread that a full restart left behind does it for no job.

`TableWizard`: `keys` survive a second reading of the tables, `seen` may be the pack of the schema migration that was chosen before,
and the request (`ServeWizard`) may be refused by any of the server's checks, or fail before or after its commit.

## Runs

| Run | Bounds | Shows |
|---|---|---|
| `bulk` | 2 workers, 2 chunks, 1 batch, limit 1, 1 retry; a death or a retry-chunks (`OneTrouble`) | no lost row, one loader per chunk, DONE final, exact counter, the load ends, `BulkLoad` implements `TableLoad` |
| `bulk_stranded` | slow workers, no faults | *violated*: a re-queued chunk is cancelled by its slow first worker and stranded |
| `baseline_cdc` | 2 workers, 2 chunks, 3 keys, 2 restarts, 1 fault; or 2 apply workers, 3 events of 2 keys, 2 failures or one other trouble (`WithinBound`) | the published target is exactly the stage; a fault-free baseline ends; committed events are applied; caught up means committed |
| `baseline_duplicate` | a stage with a repeated key | *violated*: a chunk is DONE although none of its rows were inserted |
| `baseline_twice` | `Delayed` | *violated*: a second publishing thread truncates the target under the first one's load |
| `cdc_skipped` | 2 keys, 1 worker, 1 failure | *violated*: the batch after a failed event is committed over it |
| `queue` | 2 bulk migrations (one staged), 1 cancellation | migrations leave the queue in turn; each gets its turn |
| `queue_faults` | 1 CDC migration, tick and kick; two of: a fault, a cancellation, a full restart, a pause (`WithinBound`) | a cancellation is answered whatever thread it meets |
| `queue_cancelled` | 1 migration, 1 cancellation | *violated*: a thread moves a CANCELLED migration to CHUNKING |
| `pack` | plans of up to 2 items in one or two orders with 2 interferences; or one connector with 2 troubles | the queue is held by nothing that has ended, no start rewinds, the panel withholds nothing and counts what it shows, an undisturbed queue ends; a connector's start or stop ends, a broken connector is noticed |
| `console` | 2 urls, 2 versions, 2 changes of the url; or a list of 2 migrations, 1 action, 1 fault | what is shown never goes back nor is foreign at rest, it settles; a button is refused only if its row was stale; a bulk action comes back |
| `panels` | twelve panels on fourteen screens (the dashboard is three: tables, DDL pack, jobs), each with one or two objects, one to four actions and at most one fault; of two jobs, two loads, or clicks, saves of others and faults together at most three (`WithinBound`) | what is sent was shown; data is dropped only when asked; triggers are on during a load only for the known reasons; a verdict is true and no comparison stranded; differences and results are drawn; rows settle; the wizard and the detail panel agree with the server |

Why the bounds are enough: every hazard is between two actors (two workers, a worker and the coordinator, two handlers, two
answers, a request and the plan sync) about one object; two of each give every such pair, and an object that is not
involved. One retry makes both outcomes of `fail_chunk` happen, one fault puts a crash between any two steps, and two
restarts make a restart of a restart. For the changes, three events of two keys put two changes of one row and one of another into a batch or on both sides of a batch's end, and two
workers overlap. For the queue, two migrations of one lane give every order of two, and three threads are as
many as they start. Where the product of several kinds of trouble is too large, an action constraint bounds their sum and
each kind is still met alone and with another. The proofs remove the bounds for the safety properties they cover. Every bounded
counter is a constant named `Max...`. Deadlock is checked except in `baseline_cdc`, `cdc_skipped`, `pack` and `panels`, where a component whose
operator has used up the bounded actions, or whose migration has failed, rests.

Fairness, for the liveness properties: each worker's own steps, the tick, the coordinator's threads and requests, and
the passing of time are weakly fair. The code justifies it: workers poll in an endless loop and containers
restart them, the tick thread runs every few seconds, threads and requests run until they end. In `LoadQueue` the tick and
the kick are each fair as a whole: one thread runs their handlers in a row. A worker's step is fair as a whole, not per
action. In `PackQueue` a transaction that has read also writes, and a migration progresses; in `ConnectorGroup` the tick,
the lifecycle threads, the poll and the health check go on. In `LiveQuery` the interval fires, and answers are *strongly* fair:
a new poll aborts the request under way, so a request is served and lands infinitely often enabled but not for ever; the
intervals, five and ten seconds, are longer than a request takes. Faults, operators and the Debezium connector never have to act.

## Findings

The `expect: violation` runs are disagreements between the code and its own comments or documentation, met while modelling;
`PROJECT.json` quotes them. In short: a stale chunk's slow worker strands it; the test that is to tell a repeated baseline
insert from lost rows compares counts of the whole table; a failed event is committed over by the next batch and never applied; a handler can
start a second publishing thread on a phase that is over; a chunk thread whose mark was taken off moves a cancelled migration on.

The models reach more, which the hazards in `PROJECT.json` note:

* the drain of a baseline restart (`orchestrator.py:1106`) waits until no chunk is CLAIMED or RUNNING, but `reset_stale_chunks` leaves out
  BASELINE_PUBLISHING: the chunk of a worker that died before the restart blocks it, and a cancellation, for ever. `BaselineEnds` is
  therefore stated for behaviour without faults;
* a slow apply worker that the group has given up still commits its batch in Oracle, over a later one of its successor: rows go back to an older
  change, which is declared committed (`undone`). It needs two workers and a batch slower than `max.poll.interval.ms`;
* a first batch that fails leaves no committed offset, so that the lag is measured from the position past it and the migration is
  declared caught up with nothing applied (`firstFailed`);
* a retried bulk chunk repeats its committed batches; without a surviving unique index a retried baseline chunk is published twice;
* two migrations can share the one bulk slot; a kick beside the tick, or a crash between CHUNKING and the saving of the chunks,
  leaves a migration in BULK_LOADING without chunks, and a migration of an empty table can be moved back to BULK_LOADING, where it
  keeps its slot for ever. That is why `TurnComes` is stated for undisturbed behaviour of tables that have rows;
* of two requests about a connector the later one does not always win: a late RUNNING or STOPPED overwrites it, and a start whose
  thread outlives a stop can leave two connectors of one group;
* levelling a pair removes extra columns of the target (`oracle_stage.py:274`), where the page's route
  (`target_prep.py:161`) speaks of the missing ones;
* two requests that look for an active DDL job at once make two for one object: `ddl_apply_jobs` has no unique index, as
  `target_trigger_jobs` has, and the look is not locked (`ddl_apply_jobs.py:97`);
* the load of the catalogue after the last DDL job may fail or be refused, and the page says nothing and goes on showing the old snapshot
  (`Dashboard.tsx:710`). That is why `RefreshedWhenFinished` speaks of the jobs whose load was stored;
* a coordinator that cannot read the State DB knows no secret (`state_db.py:985`), so that a form saved with the mask stores the mask as
  the password (`config.py:63`); and a configuration that could not be written is answered as saved (`state_db.py:1001`). `MaskIsNoSecret`
  excepts the services that were saved so;
* triggers that could not be disabled (`oracle_browser.py:958`), or that the preparation page has enabled meanwhile, are on during the load
  (`TriggersOnlyByJob` names both);
* the wizard keeps a chosen key column over a second reading (`TablePackModal.tsx:211`); when the table has lost it there is no box to take
  it away, and the server refuses the form until the dialog is opened anew (`KeptTooLong`);
* the dashboard keeps the CDC pack of the schema migration chosen before until the next poll, and sends its id: a schema migration without
  a pack then joins the pack of another, although `TablePackModal.tsx:349` promises the single pack of this migration; one with a pack is refused;
* a row that has left NEW counts as queued in the cards until its stale place is cleared, though its badge says running; the overview counts
  by phase alone, so a row that is DONE to the plan may be counted as in work too (`CountersMatchBadges` says how far they may differ);
* five phases of the server have no button although it would accept a pause; stop and resume are accepted in any phase. That is
  why `EffectRespectsPanel` names the requests it is about.

## Proofs

A theorem holds for every value of the constants that the named `ASSUME` of its module allows (bounds are naturals, first
states are well typed); TLC evaluates each of these assumptions in a run. Unless a theorem says so there is no other hypothesis.

**`BulkLoadProofs`**

* `TypeCorrect`: `Safety => []TypeOK`.
* `NoRowLost`: `LoadedIsPresent`, for slow workers too. It is not inductive: a worker about to complete a
  chunk must have loaded all of it, and the tick's decision "BULK_LOADED", taken in an earlier transaction, must still be
  justified. `IInv` adds that a worker holds a real chunk (`JobOK`), that every batch before its position is present
  (`LoadedSoFar`) and that a decision taken implies presence (`DecisionHolds`), which is stable because nothing removes a row.
* `Exclusive`, `DoneStaysDone`, `CounterExact`: from the invariant `EInv`, whose core `Owned` ties each worker to the row it
  claimed: with `~Late`, a chunk held by a worker is CLAIMED or RUNNING and fresh, is held by that worker alone and is
  locked by nobody. This is what makes the missing owner check harmless, and only `~Late` gives it.
* `Refinement`: every step of `BulkLoad` is a step of `TableLoad` or a stutter.

**`BaselineLoadProofs`**

* `TypeCorrect`: `Safety => []TypeOK`, with what a worker's memory of its row means (`TInv`).
* `PublishedExactly`: `PublishedIsStage`, for any chunks, slow and dying workers, repeated inserts, restarts, cancellations and
  coordinator deaths. Two hypotheses stay, each with a run that shows the property fail without it: `~Delayed` (`baseline_twice`)
  and `Disjoint` (`baseline_duplicate`): with a unique index no key is staged in two chunks. The invariant `IInv`: the target has
  rows of the stage only, a keyed chunk wholly or not at all (`Clean`), or was not touched yet; what is DONE is there
  (`DoneIsThere`); no row of an earlier run's queue is left when the target is truncated (`NoRowLeft`); while the publishing
  thread runs nobody loads or declares anything (`PublishingAlone`); once publication is decided everything is in the target
  (`AllLoaded`). `Single`, that an index keeps keys single, is proved beside it.

* `CdcApply`, for any workers, keys, events, batch sizes and numbers of troubles. `CdcIInv` has three parts. `GroupInv`: the type, a position that never passes the end of the
  topic (`Positions`), and that of the members of the group only the owner of the partition is at a batch (`BatchOfOwner`). `AppliedInv`: all before the
  point the owner has got to is in the target but for the two exceptions (`OwnerIsGood`), which is what makes its next commit good; with it
  `CommittedIsApplied` is inductive (`CommittedIsAppliedHolds`). The lemma `AppliesGood` is its heart: after a batch its own events are in the
  target and those before it are as well as they were, though the batch may be a repetition and put rows back to changes that a dead worker had gone
  past; whoever is out of the group writes over nothing that is not marked as undone. `ToldInv`: every end of the topic that is told, by a worker's
  measurement, the stored lag, the tick's memory or the phase, was committed when it was measured (`Tales`), for which a position past the
  committed offset must come from a failed batch (`PositionIsCommitted`); with `CommittedGrows` it gives `CaughtUpIsCommittedHolds`.
  A rebalance, a release and a takeover leave all of it alone. `CdcTypeCorrect` is its first conjunct, and
  `BaselineAndCdcTypeCorrect` joins it with the baseline's type invariant.

**`LoadQueueProofs`** (there are finitely many migrations; the model counts those ahead)

* `TypeCorrect`: `Safety => []TypeOK`, with `Named`: a running thread and a handler under way have a migration, and the free slots a
  handler has counted never exceed its lane's limit.
* `LeavesInTurn`: `InTurn` for any number of migrations, threads, crashes, errors, cancellations, pauses and kicks.
  Looked at alone, the step that changes the phase (`Advance`) knows nothing of the queue. `OrderInv` carries the
  knowledge to it from the place check, two or more transactions earlier: while nothing is restarted, a migration that is
  still NEW is in a snapshot only as NEW, is past `TakePosition` only if it was first, and is under a thread only if that
  is a preparing thread which has not changed the phase yet (or one about to fail it). It is stable because a migration is NEW once
  and nobody gets ahead of one in the queue (`Onward`, proved of every step but `FullRestart`). Without the premise
  `restarts = 0` it is false: a thread started before a full restart takes the migration out of the queue afterwards.

**`PackProofs`**

* `PackTypeCorrect`: needs that items are numbered without a gap and no order has a higher number than the last item
  (`NoGap`), so that a request that adds tables stays within `Items`; this rests on the least and greatest elements and the
  numbering of finite sets, which are lemmas of their own.
* `RunningIsLiveHolds`: `EndIsTold` says that a migration that has ended is told to the plan before its sync is gone, unless the sync
  is lost; with `NoDraftRuns` and `SyncHasCause` it is inductive.
* `StartNeverRewindsHolds`: an action property of the same invariant; only the guarded UPDATE of a start writes NEW.
* `NothingWithheldHolds`, `CountersMatchBadgesHolds`: the panel's classification and the server's agree on every reachable item, the second for
  every set of rows that have a place in the queue. They use the invariant (an item whose status and phase disagree is a reachable one
  only while its sync is due) and lemmas that sort the items by the panel's buckets.
* `GroupTypeCorrect` (`ConnectorGroup`): threads, poll and health check keep what they read of a status between their two
  transactions; the invariant is the type of that memory in every one of twenty steps. `PackAndGroupTypeCorrect` joins it with the queue's.

**`DataCompareProofs`**

* `CompareTypeCorrect`, `VerdictIsTrueHolds`, `NeverStrandedHolds`: from `CompareIInv`. Its heart is `ChunksOK` (the chunks of a task are
  both tables, each row once, and a finished task has none open), `WorkersOK` and `ClaimedIsHeld` (a claimed chunk has one
  worker, unless one was lost or the task deleted), `OneThread`, and `VerifiesInFull`: a migration is verified by a full
  comparison, never by one of the last rows. That the last completion decides, although completion and decision are two
  transactions, is the step from `ClaimedIsHeld` to `NeverStranded`.

**`LiveQueryProofs`**

* `QueryTypeCorrect`, `NeverGoesBackHolds`, `ForeignOnlyWhileLoadingHolds` (`LiveQuery`): there is one request at most (`OneRequest`), an
  answer is not older than what is shown of its url (`ServedIsNewer`), and only the button asks for another url than the present one
  (`AskedIsPresent`).
* `ListTypeCorrect`, `RefusedOnlyIfStaleHolds` (`MigrationListView`): `CopiesAreOld`, every copy of a row the browser has or will get
  is the present row or an older version; so a request for the present version was drawn for the present row (`PostsAreFit`), and the
  lemma `OffersAreAccepted` says that the console's tables of phases offer nothing that the server's refuse. That row actions are told
  apart by their number (`PostsDiffer`) ties the answer to the request.
* `ConsoleTypeCorrect`: the type invariant of the two together; whichever is at work, the other stays as it began.

**`DashboardProofs`**: the panels that change the target

* `DashboardView`, from `DashInv`: `DashTypeCorrect`; `DropsOnlyWhatWasAskedHolds`: a box that stands for a loss was ticked by hand,
  and a request under way keeps what was ticked when it was sent, whatever of it is written already (`TickedByHand`, `PostsOK`), so
  neither the polls that pass through the open dialog nor the requests of others add a loss; `RefreshedWhenFinishedHolds`: the jobs that a load
  of the catalogue covers, those of its loop and of the loops whose loads were begun before it, have ended (`CoveredEnded`), and an object that only these
  have touched is in the load as it is in the target, unless a newer snapshot is stored already (`LoadsKnow`), so loads may overtake each
  other; `BarCountsWhatIsSentHolds`.
* `ObjectDrawer`, from `DrawerInv`: `DrawerTypeCorrect`, `DataLossConfirmedHolds`, `DiffIsDrawnHolds`, `SyncIsShownHolds`. A detail, on
  its way or shown, belongs to the object and, if it differs, differs in something its type is compared by (`DetailsOfObject`); the lemma
  behind `DiffIsDrawnHolds` says for every type that the fields the server compares are among those the drawer marks.
  `SyncReaches` follows a sync of columns from the target over the snapshot and the request to the drawer.
* `TargetPrep`, from `PrepInv`: `RowsSettleHolds`, for any number of tables and workers of the sweep: each mark of a row has
  a request that will clear it (`RowsAwaited`), and as long as a pair of the sweep is left a worker is there to take it (`SweepGoesOn`).
  `PrepTypeCorrect`: each worker of a sweep has at most one comparison under way (`OneEach`, which counts the requests), so the
  number of workers that are left never becomes negative.

**`PanelProofs`**: the other panels, and all of them together

* `TriggersOnlyByJobHolds` (`PackRow`): each job thread has its job or is one that a full restart left behind, and every trigger that
  is on has a cause. During a load that is a failed DISABLE, the preparation page or such a thread; a job itself enables none then.
* `WizTypeCorrect`, `RefusedOnlyIfOvertakenHolds`, `IncludeListAsShownHolds` (`TableWizard`): `SentIsChecked`: the request under way
  satisfies the dialog's checks for what the dialog had read; comparing these with the server's checks leaves only what changed since
  and what the dialog keeps too long (`KeptTooLong`).
* `MaskIsNoSecretHolds` (`ConsoleSettings`): a form, an answer or a request has the mask of a service only if its secret is kept, was
  erased, or was written while the State DB failed (`FormsKept`, `AnswersKept`, `SentKept`).
* `BrowserTypeCorrect`, `SentBelongsToSchemaHolds` (`SourceBrowser`): `BrowserInv` adds that a finished list is the list of the schema that
  is chosen. `CardTypeCorrect`, `RemovesOwnTableHolds` (`CdcPackCard`): the tables of the card, of each answer and of each order
  belong to the pack it names (`CardInv`).
* `SnapshotIsShownHolds` (`SnapshotBanner`): an answer is no older than what this page had been told when it asked (`AnswerIsNew`),
  and what it was told is committed (`ToldIsCommitted`).
* `CatTypeCorrect`, `CatalogIsShownHolds` (`CatalogPage`). The newest set of reads, unless overtaken, has exactly what
  the snapshot has of the types already read, but for objects compared again since (`NewestIsExact`); so has the list once no read is
  under way (`ListIsExact`); and what was levelled is in the snapshot, or a comparison that will write it there is under way
  (`ToldIsTrue`). The attempt showed the history variable `told` of the model to be wrong: a levelling
  from an older snapshot of the same schemas makes the present one stale as well. It takes one snapshot more than the run has.
* `DetailTypeCorrect`, `EffectRespectsPanelHolds` (`MigrationDetailView`): here requests are offered for other migrations and old
  details, so nothing can be said of a request when it is sent; the lemma `CheckedByServer` says that a request the property is about
  is accepted only in a phase that has its button, and `AcceptsRequest` that a job belongs to its migration.
* `RowTypeCorrect` (`PackRow`): a table has at most one open trigger job (`OneOpen`), since a new one is made only when none
  is. `SettingsTypeCorrect`: a configuration that was delivered has a masked or empty secret for every service
  (`FormAnswers`), so whatever is typed over it is a form again. `BannerTypeCorrect`: snapshots are numbered 1, 2, ... without a gap and
  there are no more of them than loads (`Numbering`).
* `DataLossAskedHolds`, `SentAsShownHolds`, `ResultIsShownHolds`: the three properties of the run `panels` that speak of every panel. `PanelsInside`:
  a behaviour of the panels together is a behaviour of each, because a step of one panel leaves the others alone; so the
  theorems of the parts carry over. `PanelsTypeCorrect`, the type invariant of all of them, follows the same way.

Only model-checked:

* liveness, which is beyond the prover: `LoadEnds`, `BaselineEnds`, `TurnComes`, `CancelAnswered`, `QueueRuns`, `LifecycleEnds`,
  `BrokenIsNoticed`, `QuerySettles`, `BulkComesBack`;
* of the safety properties and type invariants of the runs none: each is stated by a theorem.

## Not modelled

* In `CdcApply`: the request lag_zero (`migrations.py:770`), which declares a migration caught up by hand; CDC_APPLY_STARTING,
  which no migration enters any more; parsing of Debezium events and the MERGE they become; more than one partition.
* `PATCH /phase`, which lets the operator write any phase and has no rule to check.
* Target index jobs, and INDEXES_ENABLING beyond its result.
* `rows_loaded`, `worker_id`, `chunks_failed` and message texts: written, but nothing the models decide on reads them.
* The fair order of claims between several migrations (one migration per module in the loads).
* In `LoadQueue`: `queue_position`, which is only displayed (the gate computes the place anew), key inference and the
  checks that fail a migration for a bad configuration, several groups, the double error of a failing `_fail`.
* In `BaselineLoad`: pause and retry-chunks, which work as in `BulkLoad`, and an empty stage table.
* Oracle DDL text, LOB conversion, layout and wording of the console; the CRUD of schema migrations and their key derivation.

## Plan

The modules of the plan are written. What would be worth adding: `CdcApply` with several partitions and with a deletion
followed by an insertion of one key; the worker's part of target index jobs; the liveness of the catch-up once the skipped events
(`cdc_skipped`) and the lag of a first failed batch are repaired in the code.
