----------------------------- MODULE PackQueue -----------------------------
(***************************************************************************)
(* The pack queue of a schema migration: a plan (migration_plans) whose    *)
(* items (migration_plan_items) each belong to a launch order and to one   *)
(* table migration.  Starting the plan moves the first pending order from  *)
(* DRAFT to NEW (planner.py, _start_next_plan_batch); when the last item   *)
(* of an order is done the orchestrator starts the next one                *)
(* (orchestrator.py, _sync_plan_after_transition).                         *)
(*                                                                         *)
(* Both are transactions that read the plan without locking it and write   *)
(* conditionally afterwards, so each is two steps here, and the operator,  *)
(* the orchestrator and other requests act in between.  The plan sync runs *)
(* after the transition it follows is committed.                           *)
(***************************************************************************)
EXTENDS Naturals, FiniteSets, FiniteSetsExt

CONSTANTS Tables,     \* the tables of the schema
          Items,      \* the identifiers items may get, in the order they are added: 1 .. n
          FirstPlans, \* the queues the model starts from
          MaxFault    \* bounds the failures and what the operator does besides starting

ASSUME PackAssumption == /\ IsFiniteSet(Tables)
                         /\ IsFiniteSet(Items) /\ Items = 1..Cardinality(Items)
                         /\ MaxFault \in Nat

VARIABLES row,      \* item -> the item and its migration
          plan,     \* migration_plans.status
          captured, \* the tables of the CDC group (group_tables)
          starter,  \* who starts an order -> the drafts and phases the transaction has read
          sync,     \* item -> the plan sync that follows its migration's last transition
          fault     \* how often the operator or a failure interfered

packVars == <<row, plan, captured, starter, sync, fault>>

Loading == {"BULK_LOADING"}      \* stands for the phases from PREPARING to STAGE_DROPPING
Ended == {"COMPLETED", "STEADY_STATE", "FAILED", "CANCELLED"}
Phases == Loading \cup Ended
            \cup {"DRAFT", "NEW", "INDEXES_ENABLING", "CDC_APPLY_STARTING", "CDC_CAUGHT_UP", "CANCELLING"}
Statuses == {"PENDING", "RUNNING", "DONE", "FAILED", "CANCELLED"}
NoItem == [table |-> "none", cdc |-> FALSE, batch |-> 0, status |-> "none", phase |-> "none"]
Unseen == [i \in {} |-> "none"]
NoSync == [to |-> "none", step |-> "none", plan |-> "none", seen |-> Unseen]

Item == [table : Tables, cdc : BOOLEAN, batch : 1..Cardinality(Items), status : Statuses, phase : Phases]
PlanStatuses == {"READY", "RUNNING", "DONE", "FAILED", "CANCELLED"}
Starters == {"ui", "cdc"}
Seen == UNION {[S -> Phases] : S \in SUBSET Items}

\* A plan is made of drafts, numbered from the first; its orders are no more than its items.
ASSUME FirstPlansAssumption ==
  \A p \in FirstPlans : \E n \in 0..Cardinality(Items) :
    /\ p \in [Items -> Item \cup {NoItem}]
    /\ \A i \in Items : IF i > n THEN p[i] = NoItem
                        ELSE p[i].status = "PENDING" /\ p[i].phase = "DRAFT" /\ p[i].batch <= n

Present == {i \in Items : row[i].status # "none"}
Having(s) == {i \in Present : row[i].status = s}
Pending(b) == {i \in Having("PENDING") : row[i].batch = b}
PendingBatches(r) == {r[i].batch : i \in {j \in Items : r[j].status = "PENDING"}}

\* planner.py, _can_start_plan_batch: bulk loads do not overlap, CDC goes beside anything.
CanStartBatch(running, pending) ==
  ~ ((\E i \in running : ~row[i].cdc) /\ (\E i \in pending : ~row[i].cdc))

CanForceQueue(explicit, pending) == explicit /\ pending # {} /\ \A i \in pending : row[i].cdc

StatusForPhase(p) == CASE p \in {"INDEXES_ENABLING", "COMPLETED", "STEADY_STATE"} -> "DONE"
                       [] p \in {"CANCELLED", "FAILED"} -> p
                       [] p = "DRAFT" -> "none"
                       [] OTHER -> "RUNNING"

\* Mutant of Launched: it goes by the phase that was read.
LaunchedAsSeen(r, seen) ==
  [i \in Items |->
     IF i \notin DOMAIN seen \/ r[i].status = "none" THEN r[i]
     ELSE IF seen[i] = "DRAFT" THEN [r[i] EXCEPT !.phase = "NEW", !.status = "RUNNING"]
     ELSE IF StatusForPhase(seen[i]) # "none" /\ r[i].status = "PENDING"
          THEN [r[i] EXCEPT !.status = StatusForPhase(seen[i])]
     ELSE r[i]]

\* What a start writes: a draft enters the queue, any other item takes the
\* status of the phase the transaction had read.
Launched(r, seen) ==
  [i \in Items |->
     IF i \notin DOMAIN seen \/ r[i].status = "none" THEN r[i]
     ELSE IF r[i].phase = "DRAFT" THEN [r[i] EXCEPT !.phase = "NEW", !.status = "RUNNING"]
     ELSE IF StatusForPhase(seen[i]) # "none" /\ r[i].status = "PENDING"
          THEN [r[i] EXCEPT !.status = StatusForPhase(seen[i])]
     ELSE r[i]]

-----------------------------------------------------------------------------
(* Starting an order: the operator's button, and the connector group,      *)
(* which starts its own orders by number when it starts or is refreshed.   *)

Startable(b, explicit) ==
  /\ plan \in {"READY", "RUNNING"}
  /\ Pending(b) # {}
  /\ ~explicit => b = Min(PendingBatches(row))
  /\ \/ CanStartBatch(Having("RUNNING"), Pending(b))
     \/ CanForceQueue(explicit, Pending(b))

StartRead(s, b, explicit) ==
  /\ starter[s] = Unseen
  /\ Startable(b, explicit)
  /\ starter' = [starter EXCEPT ![s] = [i \in Pending(b) |-> row[i].phase]]
  /\ UNCHANGED <<row, plan, captured, sync, fault>>

StartPlan == StartRead("ui", Min(PendingBatches(row) \cup {1 + Cardinality(Items)}), FALSE)

StartCdcBatch ==
  \E b \in {row[i].batch : i \in {j \in Having("PENDING") : row[j].cdc /\ row[j].phase = "DRAFT"}} :
     StartRead("cdc", b, TRUE)

StartWrite(s) ==
  /\ starter[s] # Unseen
  /\ row' = Launched(row, starter[s])
  /\ plan' = "RUNNING"
  /\ starter' = [starter EXCEPT ![s] = Unseen]
  /\ UNCHANGED <<captured, sync, fault>>

-----------------------------------------------------------------------------
(* The orchestrator.                                                       *)

Successors(r) ==
  CASE r.phase = "NEW" -> Loading
    [] r.phase \in Loading -> {"INDEXES_ENABLING"}
    [] r.phase = "INDEXES_ENABLING" -> IF r.cdc THEN {"CDC_APPLY_STARTING"} ELSE {"COMPLETED"}
    [] r.phase = "CDC_APPLY_STARTING" -> {"CDC_CAUGHT_UP"}
    [] r.phase = "CDC_CAUGHT_UP" -> {"STEADY_STATE"}
    [] r.phase = "CANCELLING" -> {"CANCELLED"}
    [] OTHER -> {}

\* Mutant of SyncPhases: a failure is not told to the plan.
SyncPhasesOfSuccess == {"INDEXES_ENABLING", "COMPLETED", "STEADY_STATE", "CANCELLED"}

SyncPhases == {"INDEXES_ENABLING", "COMPLETED", "STEADY_STATE", "FAILED", "CANCELLED"}

\* A transition is committed; the sync follows in the same thread, so the
\* next transition of the migration waits for it.
Transition(i, p) ==
  /\ sync[i].step \in {"none", "lost"}
  /\ row' = [row EXCEPT ![i].phase = p]
  /\ sync' = [sync EXCEPT ![i] = IF p \in SyncPhases THEN [NoSync EXCEPT !.to = p, !.step = "due"]
                                 ELSE @]
  /\ UNCHANGED <<plan, captured, starter>>

Progress(i) == \E p \in Successors(row[i]) : Transition(i, p) /\ UNCHANGED fault

\* Any active phase may fail (DATA_MISMATCH is the same to the plan).
Fails(i) == /\ fault < MaxFault
            /\ row[i].phase \in Loading \cup {"NEW", "INDEXES_ENABLING", "CDC_APPLY_STARTING", "CDC_CAUGHT_UP"}
            /\ Transition(i, "FAILED")
            /\ fault' = fault + 1

\* orchestrator.py, _plan_status_without_pending.
PlanStatusWithoutPending(r) ==
  LET has(s) == \E i \in Items : r[i].status = s
  IN CASE has("RUNNING") -> "RUNNING"
       [] ~has("RUNNING") /\ has("FAILED") -> "FAILED"
       [] ~has("RUNNING") /\ ~has("FAILED") /\ has("CANCELLED") -> "CANCELLED"
       [] OTHER -> "DONE"

\* What the sync of item i decides from what it reads, its own update included.
Decision(i) ==
  LET st   == StatusForPhase(sync[i].to)
      r    == [row EXCEPT ![i].status = st]
      next == Min(PendingBatches(r))
      base == [sync[i] EXCEPT !.step = "decided"]
  IN CASE row[i].status \in {"none", st} -> NoSync
       [] row[i].status \notin {"none", st} /\ st # "DONE" -> [base EXCEPT !.plan = st]
       [] row[i].status \notin {"none", st} /\ st = "DONE" ->
            IF \E j \in Present : r[j].batch = row[i].batch /\ r[j].status # "DONE" THEN base
            ELSE IF PendingBatches(r) = {} THEN [base EXCEPT !.plan = PlanStatusWithoutPending(r)]
            ELSE [base EXCEPT !.plan = "RUNNING",
                              !.seen = [j \in {k \in Present : r[k].status = "PENDING" /\ r[k].batch = next}
                                          |-> r[j].phase]]

SyncRead(i) ==
  /\ sync[i].step = "due"
  /\ sync' = [sync EXCEPT ![i] = Decision(i)]
  /\ UNCHANGED <<row, plan, captured, starter, fault>>

\* Mutant of SyncWrite: the next order is not launched.
SyncWriteStatus(i) ==
  /\ sync[i].step = "decided"
  /\ row' = IF row[i].status = "none" THEN row ELSE [row EXCEPT ![i].status = StatusForPhase(sync[i].to)]
  /\ plan' = IF sync[i].plan = "none" THEN plan ELSE sync[i].plan
  /\ sync' = [sync EXCEPT ![i] = NoSync]
  /\ UNCHANGED <<captured, starter, fault>>

SyncWrite(i) ==
  /\ sync[i].step = "decided"
  /\ row' = Launched(IF row[i].status = "none" THEN row
                     ELSE [row EXCEPT ![i].status = StatusForPhase(sync[i].to)], sync[i].seen)
  /\ plan' = IF sync[i].plan = "none" THEN plan ELSE sync[i].plan
  /\ sync' = [sync EXCEPT ![i] = NoSync]
  /\ UNCHANGED <<captured, starter, fault>>

\* The sync raises, or the process stops before it: it is never tried again.
SyncLost(i) ==
  /\ fault < MaxFault
  /\ sync[i].step \in {"due", "decided"}
  /\ sync' = [sync EXCEPT ![i] = [NoSync EXCEPT !.step = "lost"]]
  /\ fault' = fault + 1
  /\ UNCHANGED <<row, plan, captured, starter>>

-----------------------------------------------------------------------------
(* Other requests of the operator.                                         *)

\* Mutant of NextBatch: an order is left out.
NextBatchButOne == 2 + Max({row[i].batch : i \in Items})

NextBatch == 1 + Max({row[i].batch : i \in Items})
FreeItems(n) == LET used == Cardinality(Present) IN (used + 1) .. (used + n)

\* The phases in which a CDC migration does not hold its table in the group.
GroupFinal == {"COMPLETED", "FAILED", "CANCELLED"}
HeldTables == {row[i].table : i \in {j \in Present : row[j].cdc /\ row[j].phase \notin GroupFinal}}

InPlan(t) == \E i \in Present : /\ row[i].table = t
                                /\ row[i].status \notin {"DONE", "FAILED", "CANCELLED"}
                                /\ row[i].phase \notin GroupFinal

\* schema_migrations.py, add_plan_items: one transaction, all tables or none.
AddPlanItems(tables, cdc, sequential, prune) ==
  LET n   == Cardinality(tables)
      ord == CHOOSE f \in [tables -> 1..n] : IsInjective(f)
      item(t) == [table |-> t, cdc |-> cdc, status |-> "PENDING", phase |-> "DRAFT",
                  batch |-> IF cdc \/ sequential THEN NextBatch + ord[t] - 1 ELSE NextBatch]
  IN /\ fault < MaxFault
     /\ tables # {} /\ FreeItems(n) \subseteq Items
     /\ \A t \in tables : ~InPlan(t)
     /\ cdc => tables \cap HeldTables = {}
     /\ prune => cdc /\ HeldTables \cap captured \subseteq tables
     /\ captured' = IF ~cdc THEN captured ELSE IF prune THEN tables ELSE captured \cup tables
     /\ row' = [i \in Items |-> IF \E t \in tables : i = Cardinality(Present) + ord[t]
                                THEN item(CHOOSE t \in tables : i = Cardinality(Present) + ord[t])
                                ELSE row[i]]
     /\ plan' = IF plan \in {"DONE", "FAILED", "CANCELLED"} THEN "READY" ELSE plan
     /\ fault' = fault + 1
     /\ UNCHANGED <<starter, sync>>

\* connector_groups.py, remove_table.
RemoveTable(t) ==
  /\ fault < MaxFault
  /\ t \in captured \ HeldTables
  /\ captured' = captured \ {t}
  /\ fault' = fault + 1
  /\ UNCHANGED <<row, plan, starter, sync>>

\* routes/migrations.py, full_restart_migration: accepted in every phase, and
\* the plan keeps its status.  It waits for a sync that has updated the item.
FullRestart(i, start) ==
  /\ fault < MaxFault
  /\ i \in Present /\ sync[i].step # "decided"
  /\ row' = [row EXCEPT ![i].phase = IF start THEN "NEW" ELSE "DRAFT",
                        ![i].status = IF start THEN "RUNNING" ELSE "PENDING"]
  /\ fault' = fault + 1
  /\ UNCHANGED <<plan, captured, starter, sync>>

\* Actions of the migration list, which knows no plan: run a draft, cancel.
RunDraft(i) ==
  /\ fault < MaxFault
  /\ row[i].phase = "DRAFT"
  /\ row' = [row EXCEPT ![i].phase = "NEW"]
  /\ fault' = fault + 1
  /\ UNCHANGED <<plan, captured, starter, sync>>

Cancel(i) ==
  /\ fault < MaxFault
  /\ i \in Present
  /\ row' = [row EXCEPT ![i].phase = "CANCELLING"]
  /\ fault' = fault + 1
  /\ UNCHANGED <<plan, captured, starter, sync>>

-----------------------------------------------------------------------------
PackInit ==
  /\ row \in FirstPlans
  /\ plan = "READY"
  /\ captured = {row[i].table : i \in {j \in Items : row[j].cdc}}
  /\ starter = [s \in Starters |-> Unseen]
  /\ sync = [i \in Items |-> NoSync]
  /\ fault = 0

Operator ==
  \/ StartPlan
  \/ StartCdcBatch
  \/ \E ts \in SUBSET Tables, c, s, p \in BOOLEAN : AddPlanItems(ts, c, s, p)
  \/ \E t \in Tables : RemoveTable(t)
  \/ \E i \in Items : (\E b \in BOOLEAN : FullRestart(i, b)) \/ RunDraft(i) \/ Cancel(i)

PackNext ==
  \/ Operator
  \/ \E s \in Starters : StartWrite(s)
  \/ \E i \in Items : Progress(i) \/ Fails(i) \/ SyncRead(i) \/ SyncWrite(i) \/ SyncLost(i)

\* A request runs to its end, and one loop of the orchestrator moves migration i on and syncs it.
StartFairness == \A s \in Starters : WF_packVars(StartWrite(s))
ItemFairness == \A i \in Items : WF_packVars(Progress(i) \/ SyncRead(i) \/ SyncWrite(i))

PackSpec == PackInit /\ [][PackNext]_packVars /\ StartFairness /\ ItemFairness

-----------------------------------------------------------------------------
PackTypeOK ==
  /\ row \in [Items -> Item \cup {NoItem}]
  /\ plan \in PlanStatuses
  /\ captured \subseteq Tables
  /\ starter \in [Starters -> Seen]
  /\ sync \in [Items -> [to : SyncPhases \cup {"none"}, step : {"none", "due", "decided", "lost"},
                         plan : PlanStatuses \cup {"none"}, seen : Seen]]
  /\ fault \in 0..MaxFault

\* However a start, a sync and the operator's requests interleave, an item
\* that stays RUNNING has a migration at work: once the sync of its last
\* transition is through, no finished or draft migration holds the queue.
RunningIsLive ==
  \A i \in Present : row[i].status = "RUNNING" /\ sync[i].step = "none"
                       => row[i].phase \notin Ended \cup {"DRAFT"}

\* A start never throws a migration that is already past NEW back to NEW,
\* whatever its transaction has read: only a draft is launched.
StartNeverRewinds ==
  [][\A i \in Items : row'[i].phase = "NEW" /\ fault' = fault
                        => row[i].phase \in {"DRAFT", "NEW"}]_packVars

\* A queue that was started and is left alone runs to its end: when nothing
\* fails and nobody interferes, every order gets its turn.
QueueRuns == [](fault = 0) => (plan = "RUNNING" ~> \A i \in Present : row[i].status = "DONE")
=============================================================================
