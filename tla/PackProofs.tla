----------------------------- MODULE PackProofs -----------------------------
(***************************************************************************)
(* Theorems about the pack queue, the panel that shows it and the          *)
(* connector of a CDC pack, for any number of tables and items, any first  *)
(* plans and any number of failures, starts, requests and restarts.        *)
(***************************************************************************)
EXTENDS MCPack, FiniteSetTheorems, FunctionTheorems, WellFoundedInduction, TLAPS

USE PackAssumption

N == Cardinality(Items)
Rows == [Items -> Item \cup {NoItem}]
Sync == [to : SyncPhases \cup {"none"}, step : {"none", "due", "decided", "lost"},
         plan : PlanStatuses \cup {"none"}, seen : Seen]

----------------------------------------------------------------------------
(* The inductive invariant. *)

(* The items are numbered without a gap, and no order has a higher number   *)
(* than the last item: adding items stays within Items and their orders.    *)
Filled(r) == {i \in Items : r[i].status # "none"}
NoGap(r) == \E k \in 0..N : Filled(r) = 1..k /\ \A i \in Filled(r) : r[i].batch <= k

(* A sync that has work to do follows a transition the plan is told of.     *)
SyncHasCause == \A i \in Items : sync[i].step \in {"due", "decided"} => sync[i].to \in SyncPhases

(* A migration that has ended is told to the plan before its sync is gone,  *)
(* unless the sync is lost; and a draft never runs.                         *)
EndIsTold ==
  \A i \in Items : sync[i].step = "none" /\ row[i].phase \in Ended
                     => row[i].status \notin {"PENDING", "RUNNING"}
NoDraftRuns == \A i \in Items : row[i].phase = "DRAFT" => row[i].status # "RUNNING"

PackTInv == PackTypeOK /\ NoGap(row)
PackIInv == PackTInv /\ SyncHasCause /\ EndIsTold /\ NoDraftRuns

----------------------------------------------------------------------------
(* Least and greatest elements.                                             *)

LEMMA LeastNat ==
  ASSUME NEW S \in SUBSET Nat, S # {}
  PROVE  Min(S) \in S /\ \A x \in S : Min(S) <= x
<1> DEFINE R == {p \in Nat \X Nat : p[1] < p[2]}
<1>1. IsWellFoundedOn(R, Nat)
  BY NatLessThanWellFounded DEF OpToRel
<1> HIDE DEF R
<1>2. PICK m \in S : \A y \in S : ~ (<<y, m>> \in R)
  BY <1>1, WFMin
<1>3. \A y \in S : m <= y
  <2> SUFFICES ASSUME NEW y \in S PROVE ~ (y < m)
    OBVIOUS
  <2> QED BY <1>2 DEF R
<1> QED BY <1>3 DEF Min

LEMMA GreatestNat ==
  ASSUME NEW b \in Nat, NEW S \in SUBSET (0..b), S # {}
  PROVE  Max(S) \in S /\ \A x \in S : Max(S) >= x
<1> DEFINE T == {b - x : x \in S}
<1>1. T \in SUBSET Nat
  <2> SUFFICES ASSUME NEW x \in S PROVE b - x \in Nat
    OBVIOUS
  <2>1. x \in 0..b
    OBVIOUS
  <2> QED BY <2>1
<1>0. T # {}
  OBVIOUS
<1> HIDE DEF T
<1>2. PICK m \in T : \A y \in T : m <= y
  BY <1>1, <1>0, LeastNat
<1> USE DEF T
<1>3. PICK x \in S : m = b - x
  BY <1>2
<1>4. \A y \in S : x >= y
  <2> SUFFICES ASSUME NEW y \in S PROVE x >= y
    OBVIOUS
  <2>1. b - y \in T
    OBVIOUS
  <2>2. m <= b - y
    BY <1>2, <2>1
  <2>3. x \in 0..b /\ y \in 0..b
    OBVIOUS
  <2> HIDE DEF T
  <2> QED BY <1>3, <2>2, <2>3
<1> QED BY <1>4 DEF Max

(* The numbers the tables of a request get are exactly 1 to their number.   *)
LEMMA Numbering ==
  ASSUME NEW S, IsFiniteSet(S)
  PROVE  LET n == Cardinality(S)
             f == CHOOSE g \in [S -> 1..n] : IsInjective(g)
         IN /\ n \in Nat
            /\ f \in [S -> 1..n]
            /\ \A k \in 1..n : \E t \in S : f[t] = k
<1> DEFINE n == Cardinality(S)
           f == CHOOSE g \in [S -> 1..n] : IsInjective(g)
<1>1. n \in Nat /\ ExistsBijection(1..n, S)
  BY FS_CardinalityType
<1>2. ExistsBijection(S, 1..n)
  BY <1>1, Fun_ExistsBijSymmetric
<1>3. \E g \in [S -> 1..n] : IsInjective(g)
  BY <1>2 DEF ExistsBijection, Bijection, Injection
<1>4. f \in [S -> 1..n] /\ IsInjective(f)
  BY <1>3
<1>5. IsFiniteSet(1..n) /\ Cardinality(1..n) = n
  BY <1>1, FS_Interval
<1>6. f \in Injection(S, 1..n)
  BY <1>4 DEF Injection
<1>7. f \in Surjection(S, 1..n)
  BY <1>5, <1>6, FS_Injection
<1> QED BY <1>1, <1>4, <1>7 DEF Surjection

----------------------------------------------------------------------------
(* The helpers of the queue.                                                *)

LEMMA ItemOrNone ==
  ASSUME NEW r \in Rows, NEW i \in Items
  PROVE  /\ r[i].status # "none" <=> r[i] \in Item
         /\ r[i].status = "none" => r[i] = NoItem
         /\ r[i].phase \in Phases <=> r[i] \in Item
         /\ r[i].batch \in 0..N
<1>1. CASE r[i] \in Item
  BY <1>1 DEF Item, Statuses, Phases, N
<1>2. CASE r[i] = NoItem
  BY <1>2, FS_CardinalityType DEF NoItem, Item, Statuses, Phases, Loading, Ended, N
<1> QED BY <1>1, <1>2 DEF Rows

LEMMA StatusOfPhase ==
  ASSUME NEW p
  PROVE  /\ StatusForPhase(p) \in Statuses \cup {"none"}
         /\ p \in SyncPhases => StatusForPhase(p) \in {"DONE", "FAILED", "CANCELLED"}
BY DEF StatusForPhase, Statuses, SyncPhases

(* A start changes drafts, which enter the queue, and pending items, which  *)
(* take a status; the rest of the queue stays as it is.                     *)
LEMMA LaunchedRows ==
  ASSUME NEW r \in Rows, NEW seen \in Seen
  PROVE  /\ Launched(r, seen) \in Rows
         /\ Filled(Launched(r, seen)) = Filled(r)
         /\ \A i \in Items :
              LET n == Launched(r, seen)[i]
              IN /\ n.batch = r[i].batch
                 /\ \/ n = r[i]
                    \/ r[i].phase = "DRAFT" /\ n.phase = "NEW" /\ n.status = "RUNNING"
                    \/ r[i].phase # "DRAFT" /\ n.phase = r[i].phase /\ r[i].status = "PENDING"
<1> DEFINE L == Launched(r, seen)
<1>1. ASSUME NEW i \in Items
      PROVE  /\ L[i] \in Item \cup {NoItem}
             /\ L[i].status = "none" <=> r[i].status = "none"
             /\ L[i].batch = r[i].batch
             /\ \/ L[i] = r[i]
                \/ r[i].phase = "DRAFT" /\ L[i].phase = "NEW" /\ L[i].status = "RUNNING"
                \/ r[i].phase # "DRAFT" /\ L[i].phase = r[i].phase /\ r[i].status = "PENDING"
  <2>1. CASE i \notin DOMAIN seen \/ r[i].status = "none"
    BY <2>1 DEF Launched, Rows
  <2>2. CASE ~ (i \notin DOMAIN seen \/ r[i].status = "none")
    <3>1. r[i] \in Item
      BY <2>2, ItemOrNone
    <3>2. CASE r[i].phase = "DRAFT"
      <4>1. L[i] = [r[i] EXCEPT !.phase = "NEW", !.status = "RUNNING"]
        BY <2>2, <3>2 DEF Launched
      <4> HIDE DEF L
      <4> QED BY <2>2, <3>1, <3>2, <4>1 DEF Item, Phases, Statuses
    <3>3. CASE r[i].phase # "DRAFT" /\ StatusForPhase(seen[i]) # "none" /\ r[i].status = "PENDING"
      <4>1. L[i] = [r[i] EXCEPT !.status = StatusForPhase(seen[i])]
        BY <2>2, <3>3 DEF Launched
      <4>2. StatusForPhase(seen[i]) \in Statuses
        BY <3>3, StatusOfPhase
      <4> HIDE DEF L
      <4> QED BY <2>2, <3>1, <3>3, <4>1, <4>2 DEF Item, Statuses
    <3>4. CASE r[i].phase # "DRAFT" /\ ~ (StatusForPhase(seen[i]) # "none" /\ r[i].status = "PENDING")
      <4>1. L[i] = r[i]
        BY <2>2, <3>4 DEF Launched
      <4> QED BY <4>1, <3>1
    <3> QED BY <3>2, <3>3, <3>4
  <2> QED BY <2>1, <2>2
<1>2. L \in Rows
  <2>1. L = [i \in Items |-> L[i]]
    BY DEF Launched
  <2> HIDE DEF L
  <2> QED BY <2>1, <1>1 DEF Rows
<1>3. Filled(L) = Filled(r)
  <2> HIDE DEF L
  <2> QED BY <1>1 DEF Filled
<1> QED BY <1>1, <1>2, <1>3

(* Changing the phase or the status of one item leaves no gap.              *)
LEMMA NoGapKept ==
  ASSUME NEW r \in Rows, NEW n \in Rows, NoGap(r),
         \A i \in Items : n[i].batch = r[i].batch /\ (n[i].status = "none" <=> r[i].status = "none")
  PROVE  NoGap(n)
<1>1. Filled(n) = Filled(r)
  BY DEF Filled
<1>2. \A i \in Filled(r) : n[i].batch = r[i].batch
  BY DEF Filled
<1> QED BY <1>1, <1>2 DEF NoGap

LEMMA SeenType ==
  ASSUME NEW S \in SUBSET Items, NEW r \in Rows, \A i \in S : r[i].status # "none"
  PROVE  [i \in S |-> r[i].phase] \in Seen
<1>1. \A i \in S : r[i].phase \in Phases
  BY ItemOrNone
<1>2. [i \in S |-> r[i].phase] \in [S -> Phases]
  BY <1>1
<1> QED BY <1>2 DEF Seen

LEMMA UnseenIsSeen == Unseen \in Seen
<1>1. Unseen \in [{} -> Phases]
  BY DEF Unseen
<1> QED BY <1>1 DEF Seen

LEMMA NoSyncType == NoSync \in Sync
BY UnseenIsSeen DEF NoSync, Sync

LEMMA DecisionType ==
  ASSUME PackTypeOK, NEW i \in Items, sync[i].step = "due"
  PROVE  /\ Decision(i) \in Sync
         /\ \/ Decision(i) = NoSync /\ row[i].status \in {"none", StatusForPhase(sync[i].to)}
            \/ Decision(i).step = "decided" /\ Decision(i).to = sync[i].to
<1> DEFINE st == StatusForPhase(sync[i].to)
           base == [sync[i] EXCEPT !.step = "decided"]
           upd == [row EXCEPT ![i].status = st]
           next == Min(PendingBatches(upd))
           batch == {k \in Present : upd[k].status = "PENDING" /\ upd[k].batch = next}
           seen == [j \in batch |-> upd[j].phase]
<1>1. sync[i] \in Sync /\ row \in Rows
  BY DEF PackTypeOK, Sync, Rows
<1>2. base \in Sync /\ base.step = "decided" /\ base.to = sync[i].to
  BY <1>1 DEF Sync
<1>3. CASE row[i].status \in {"none", st}
  BY <1>3, NoSyncType DEF Decision
<1>4. CASE row[i].status \notin {"none", st} /\ st # "DONE"
  <2>1. Decision(i) = [base EXCEPT !.plan = st]
    BY <1>4 DEF Decision
  <2>2. row[i] \in Item
    BY <1>1, <1>4, ItemOrNone
  <2>3. st \in PlanStatuses \cup {"none"}
    BY <1>4 DEF StatusForPhase, PlanStatuses
  <2> HIDE DEF base, st
  <2> QED BY <1>2, <2>1, <2>3 DEF Sync
<1>5. CASE row[i].status \notin {"none", st} /\ st = "DONE"
  <2>1. upd \in Rows
    <3>1. row[i] \in Item /\ st \in Statuses
      BY <1>1, <1>5, ItemOrNone DEF Statuses
    <3> HIDE DEF st
    <3>2. [row[i] EXCEPT !.status = st] \in Item
      BY <3>1 DEF Item
    <3> QED BY <1>1, <3>2 DEF Rows
  <2>2. seen \in Seen
    <3>1. \A j \in batch : upd[j].status # "none"
      OBVIOUS
    <3>2. batch \in SUBSET Items
      BY DEF Present
    <3> HIDE DEF batch, upd
    <3> QED BY <2>1, <3>1, <3>2, SeenType
  <2>3. \/ Decision(i) = base
        \/ Decision(i) = [base EXCEPT !.plan = PlanStatusWithoutPending(upd)]
        \/ Decision(i) = [base EXCEPT !.plan = "RUNNING", !.seen = seen]
    <3> HIDE DEF base
    <3>1. CASE \E j \in Present : upd[j].batch = row[i].batch /\ upd[j].status # "DONE"
      BY <1>5, <3>1 DEF Decision, base
    <3>2. CASE /\ ~ \E j \in Present : upd[j].batch = row[i].batch /\ upd[j].status # "DONE"
               /\ PendingBatches(upd) = {}
      BY <1>5, <3>2 DEF Decision, base
    <3>3. CASE /\ ~ \E j \in Present : upd[j].batch = row[i].batch /\ upd[j].status # "DONE"
               /\ PendingBatches(upd) # {}
      BY <1>5, <3>3 DEF Decision, base
    <3> QED BY <3>1, <3>2, <3>3
  <2>4. PlanStatusWithoutPending(upd) \in PlanStatuses
    BY DEF PlanStatusWithoutPending, PlanStatuses
  <2> HIDE DEF base, upd, seen
  <2> QED BY <1>2, <2>2, <2>3, <2>4 DEF Sync, PlanStatuses
<1> QED BY <1>3, <1>4, <1>5

(* New items are drafts, numbered on from the last item, in orders of their *)
(* own that are no more than the items.                                     *)
LEMMA AddedRows ==
  ASSUME PackTInv, NEW ts \in SUBSET Tables,
         NEW cdc \in BOOLEAN, NEW seq \in BOOLEAN, NEW prune \in BOOLEAN,
         AddPlanItems(ts, cdc, seq, prune)
  PROVE  /\ row' \in Rows
         /\ NoGap(row')
         /\ \A i \in Items : row'[i] = row[i] \/ (row'[i].status = "PENDING" /\ row'[i].phase = "DRAFT")
<1> DEFINE n == Cardinality(ts)
           ord == CHOOSE f \in [ts -> 1..n] : IsInjective(f)
           item(t) == [table |-> t, cdc |-> cdc, status |-> "PENDING", phase |-> "DRAFT",
                       batch |-> IF cdc \/ seq THEN NextBatch + ord[t] - 1 ELSE NextBatch]
<1>1. row \in Rows /\ NoGap(row) /\ Present = Filled(row) /\ N \in Nat /\ Items = 1..N
  BY FS_CardinalityType DEF PackTInv, PackTypeOK, Rows, Present, Filled, N
<1>2. PICK k \in 0..N : Filled(row) = 1..k /\ \A i \in Filled(row) : row[i].batch <= k
  BY <1>1 DEF NoGap
<1>3. Cardinality(Present) = k
  BY <1>1, <1>2, FS_Interval
<1>4. /\ n \in Nat
      /\ ord \in [ts -> 1..n]
      /\ \A j \in 1..n : \E t \in ts : ord[t] = j
  <2>1. IsFiniteSet(ts)
    BY FS_Subset
  <2> QED BY <2>1, Numbering
<1>5. /\ ts # {} /\ FreeItems(n) \subseteq Items
      /\ row' = [i \in Items |-> IF \E t \in ts : i = k + ord[t]
                                 THEN item(CHOOSE t \in ts : i = k + ord[t])
                                 ELSE row[i]]
  BY <1>3 DEF AddPlanItems
<1> HIDE DEF n, ord
<1>6. n >= 1 /\ k + n <= N
  <2>1. n >= 1
    <3>1. PICK t \in ts : TRUE
      BY <1>5
    <3>2. ord[t] \in 1..n
      BY <1>4
    <3> QED BY <1>4, <3>2
  <2>2. k + n \in FreeItems(n)
    BY <1>3, <1>4, <2>1 DEF FreeItems
  <2> QED BY <1>1, <1>5, <2>1, <2>2
<1>7. NextBatch \in 1..(k + 1)
  <2> DEFINE S == {row[i].batch : i \in Items}
  <2>1. \A i \in Items : row[i].batch \in 0..k
    <3> SUFFICES ASSUME NEW i \in Items PROVE row[i].batch \in 0..k
      OBVIOUS
    <3>1. CASE row[i].status = "none"
      <4>1. row[i].batch = 0
        BY <1>1, <3>1, ItemOrNone DEF NoItem
      <4> QED BY <4>1
    <3>2. CASE row[i].status # "none"
      <4>1. row[i].batch <= k
        BY <1>2, <3>2 DEF Filled
      <4> QED BY <1>1, <4>1, ItemOrNone
    <3> QED BY <3>1, <3>2
  <2>2. S \in SUBSET (0..k)
    BY <2>1
  <2>3. S # {}
    <3>1. 1 \in Items
      BY <1>1, <1>4, <1>6
    <3>2. row[1].batch \in S
      BY <3>1
    <3> QED BY <3>2
  <2> HIDE DEF S
  <2>4. Max(S) \in 0..k
    <3>1. k \in Nat
      BY <1>1
    <3> QED BY <2>2, <2>3, <3>1, GreatestNat
  <2> QED BY <2>4 DEF NextBatch, S
<1>8. ASSUME NEW i \in Items, NEW t \in ts, i = k + ord[t]
      PROVE  item(t) \in Item /\ item(t).batch <= k + n /\ item(t).status = "PENDING"
               /\ item(t).phase = "DRAFT"
  <2>1. ord[t] \in 1..n
    BY <1>4
  <2>2. item(t).batch \in 1..(k + n)
    BY <1>4, <1>6, <1>7, <2>1
  <2>3. item(t).batch \in 1..N
    BY <1>1, <1>4, <1>6, <2>2
  <2> QED BY <1>4, <2>2, <2>3 DEF Item, Statuses, Phases, N
<1> HIDE DEF item
<1>9. ASSUME NEW i \in Items
      PROVE  \/ /\ i \in (k + 1)..(k + n) /\ row'[i] \in Item /\ row'[i].batch <= k + n
                /\ row'[i].status = "PENDING" /\ row'[i].phase = "DRAFT"
             \/ i \notin (k + 1)..(k + n) /\ row'[i] = row[i]
  <2>1. CASE \E t \in ts : i = k + ord[t]
    <3> DEFINE t == CHOOSE u \in ts : i = k + ord[u]
    <3>1. t \in ts /\ i = k + ord[t]
      BY <2>1
    <3>2. row'[i] = item(t)
      BY <1>5, <2>1
    <3> HIDE DEF t
    <3>3. ord[t] \in 1..n
      BY <1>4, <3>1
    <3>4. i \in (k + 1)..(k + n)
      BY <1>4, <3>1, <3>3
    <3> QED BY <1>8, <3>1, <3>2, <3>4
  <2>2. CASE ~ \E t \in ts : i = k + ord[t]
    <3>1. row'[i] = row[i]
      BY <1>5, <2>2
    <3>2. i \notin (k + 1)..(k + n)
      <4> SUFFICES ASSUME i \in (k + 1)..(k + n) PROVE FALSE
        OBVIOUS
      <4>1. i - k \in 1..n
        BY <1>4
      <4>2. PICK t \in ts : ord[t] = i - k
        BY <1>4, <4>1
      <4>3. i = k + ord[t]
        BY <4>2
      <4> QED BY <2>2, <4>3
    <3> QED BY <3>1, <3>2
  <2> QED BY <2>1, <2>2
<1>10. row' \in Rows
  BY <1>1, <1>5, <1>9 DEF Rows
<1>11. Filled(row') = 1..(k + n)
  <2>1. ASSUME NEW i \in Items PROVE row'[i].status # "none" <=> i \in 1..(k + n)
    <3>1. row[i].status # "none" <=> i \in 1..k
      BY <1>2 DEF Filled
    <3>2. i \in 1..(k + n) <=> i \in 1..k \/ i \in (k + 1)..(k + n)
      BY <1>1, <1>4
    <3> QED BY <1>9, <3>1, <3>2
  <2> QED BY <1>1, <1>4, <1>6, <2>1 DEF Filled
<1>12. \A i \in Filled(row') : row'[i].batch <= k + n
  <2> SUFFICES ASSUME NEW i \in Items, row'[i].status # "none" PROVE row'[i].batch <= k + n
    BY DEF Filled
  <2>1. CASE row'[i] = row[i]
    <3>1. row[i].batch <= k /\ row[i].batch \in 0..N
      BY <1>1, <1>2, <2>1, ItemOrNone DEF Filled
    <3> QED BY <1>1, <1>4, <2>1, <3>1
  <2> QED BY <1>9, <2>1
<1>13. NoGap(row')
  <2>1. k + n \in 0..N
    BY <1>1, <1>4, <1>6
  <2> QED BY <1>11, <1>12, <2>1 DEF NoGap
<1> QED BY <1>9, <1>10, <1>13

----------------------------------------------------------------------------
(* The invariant holds at the beginning and is kept by every step.          *)

LEMMA BeginsWell == PackInit => PackIInv
<1> SUFFICES ASSUME PackInit PROVE PackIInv
  OBVIOUS
<1>1. PICK n \in 0..N : /\ row \in Rows
                        /\ \A i \in Items : IF i > n THEN row[i] = NoItem
                                            ELSE row[i].status = "PENDING" /\ row[i].phase = "DRAFT" /\ row[i].batch <= n
  BY FirstPlansAssumption DEF PackInit, Rows, N
<1>2. N \in Nat /\ Items = 1..N
  BY FS_CardinalityType DEF N
<1>3. NoGap(row)
  <2>1. \A i \in Items : row[i].status # "none" <=> i <= n
    BY <1>1, <1>2 DEF NoItem
  <2>2. Filled(row) = 1..n
    BY <1>2, <2>1 DEF Filled
  <2>3. \A i \in Filled(row) : row[i].batch <= n
    BY <1>1, <1>2, <2>1 DEF Filled
  <2> QED BY <2>2, <2>3 DEF NoGap
<1>4. PackTypeOK
  <2>1. captured \subseteq Tables
    <3> SUFFICES ASSUME NEW i \in Items, row[i].cdc PROVE row[i].table \in Tables
      BY DEF PackInit
    <3>1. row[i] # NoItem
      BY DEF NoItem
    <3> QED BY <1>1, <3>1 DEF Rows, Item
  <2>2. starter \in [Starters -> Seen]
    BY UnseenIsSeen DEF PackInit
  <2>3. sync \in [Items -> Sync]
    BY NoSyncType DEF PackInit
  <2> QED BY <1>1, <2>1, <2>2, <2>3 DEF PackTypeOK, PackInit, Rows, Sync, PlanStatuses
<1>5. SyncHasCause
  BY DEF SyncHasCause, PackInit, NoSync
<1>6. EndIsTold /\ NoDraftRuns
  <2>1. \A i \in Items : row[i].phase \in {"DRAFT", "none"} /\ row[i].status \in {"PENDING", "none"}
    BY <1>1, <1>2 DEF NoItem
  <2> QED BY <2>1 DEF EndIsTold, NoDraftRuns, Ended
<1> QED BY <1>3, <1>4, <1>5, <1>6 DEF PackIInv, PackTInv

(* A step that writes the phase and the status of one item.                 *)
LEMMA OneItemWritten ==
  ASSUME PackTInv, NEW i \in Items, row[i].status # "none", NEW st \in Statuses, NEW p \in Phases,
         row' = [row EXCEPT ![i].phase = p, ![i].status = st]
  PROVE  row' \in Rows /\ NoGap(row')
<1>1. row \in Rows /\ NoGap(row)
  BY DEF PackTInv, PackTypeOK, Rows
<1>2. row[i] \in Item
  BY <1>1, ItemOrNone
<1>3. [row[i] EXCEPT !.phase = p, !.status = st] \in Item
  BY <1>2 DEF Item
<1>4. row' = [row EXCEPT ![i] = [row[i] EXCEPT !.phase = p, !.status = st]]
  BY <1>1 DEF Rows
<1>5. row' \in Rows
  BY <1>1, <1>3, <1>4 DEF Rows
<1>6. \A j \in Items : row'[j].batch = row[j].batch /\ (row'[j].status = "none" <=> row[j].status = "none")
  BY <1>1, <1>2, <1>4 DEF Rows, Item, Statuses
<1> QED BY <1>1, <1>5, <1>6, NoGapKept

(* A step that writes the phase of one item.                                *)
LEMMA OnePhaseWritten ==
  ASSUME PackTInv, NEW i \in Items, row[i].status # "none", NEW p \in Phases,
         row' = [row EXCEPT ![i].phase = p]
  PROVE  row' \in Rows /\ NoGap(row')
<1>1. row \in Rows /\ row[i] \in Item
  BY ItemOrNone DEF PackTInv, PackTypeOK, Rows
<1>2. row' = [row EXCEPT ![i].phase = p, ![i].status = row[i].status]
  BY <1>1 DEF Rows, Item
<1>3. row[i].status \in Statuses
  BY <1>1 DEF Item
<1> QED BY <1>2, <1>3, OneItemWritten

LEMMA TransitionKeepsTypes ==
  ASSUME PackTInv, NEW i \in Items, row[i].status # "none", NEW p \in Phases,
         Transition(i, p), fault' \in 0..MaxFault
  PROVE  PackTInv'
<1>1. row' \in Rows /\ NoGap(row')
  BY OnePhaseWritten DEF Transition
<1>2. sync' \in [Items -> Sync]
  <2>1. sync \in [Items -> Sync]
    BY DEF PackTInv, PackTypeOK, Sync
  <2>2. p \in SyncPhases => [NoSync EXCEPT !.to = p, !.step = "due"] \in Sync
    BY NoSyncType DEF Sync
  <2> QED BY <2>1, <2>2 DEF Transition
<1> QED BY <1>1, <1>2 DEF PackTInv, PackTypeOK, Transition, Rows, Sync

(* The rows a sync leaves behind.                                           *)
LEMMA SyncedRows ==
  ASSUME PackTInv, SyncHasCause, NEW i \in Items, SyncWrite(i)
  PROVE  /\ row' \in Rows /\ NoGap(row')
         /\ row[i].status # "none" => row'[i].status \in {"DONE", "FAILED", "CANCELLED"} \/ row'[i].phase = "NEW"
         /\ \A j \in Items :
              \/ row'[j].status \notin {"PENDING", "RUNNING"} /\ row'[j].phase = row[j].phase
              \/ row'[j] = row[j] /\ (j # i \/ row[i].status = "none")
              \/ row[j].phase = "DRAFT" /\ row'[j].phase = "NEW" /\ row'[j].status = "RUNNING"
              \/ /\ j # i /\ row[j].phase # "DRAFT"
                 /\ row'[j].phase = row[j].phase /\ row[j].status = "PENDING"
<1> DEFINE st == StatusForPhase(sync[i].to)
           mid == IF row[i].status = "none" THEN row ELSE [row EXCEPT ![i].status = st]
<1>1. row \in Rows /\ NoGap(row) /\ sync[i].seen \in Seen
  BY DEF PackTInv, PackTypeOK, Rows
<1>2. st \in {"DONE", "FAILED", "CANCELLED"}
  BY StatusOfPhase DEF SyncHasCause, SyncWrite
<1>3. row' = Launched(mid, sync[i].seen)
  BY DEF SyncWrite
<1> HIDE DEF st
<1>4. /\ mid \in Rows
      /\ \A j \in Items : mid[j].batch = row[j].batch /\ (mid[j].status = "none" <=> row[j].status = "none")
      /\ \A j \in Items : mid[j].phase = row[j].phase
      /\ \A j \in Items : j # i => mid[j] = row[j]
      /\ mid[i] = row[i] \/ mid[i].status = st
      /\ row[i].status = "none" => mid[i] = row[i]
      /\ row[i].status # "none" => mid[i].status = st
  <2>1. CASE row[i].status = "none"
    BY <1>1, <2>1
  <2>2. CASE row[i].status # "none"
    <3>1. row[i] \in Item
      BY <1>1, <2>2, ItemOrNone
    <3>2. [row[i] EXCEPT !.status = st] \in Item
      BY <1>2, <3>1 DEF Item, Statuses
    <3>3. mid = [row EXCEPT ![i] = [row[i] EXCEPT !.status = st]]
      BY <1>1, <2>2 DEF Rows
    <3> HIDE DEF mid
    <3> QED BY <1>1, <1>2, <2>2, <3>1, <3>2, <3>3 DEF Rows, Item
  <2> QED BY <2>1, <2>2
<1> HIDE DEF mid
<1>5. NoGap(mid)
  BY <1>1, <1>4, NoGapKept
<1>6. /\ row' \in Rows
      /\ \A j \in Items :
           /\ row'[j].batch = mid[j].batch
           /\ \/ row'[j] = mid[j]
              \/ mid[j].phase = "DRAFT" /\ row'[j].phase = "NEW" /\ row'[j].status = "RUNNING"
              \/ mid[j].phase # "DRAFT" /\ row'[j].phase = mid[j].phase /\ mid[j].status = "PENDING"
      /\ Filled(row') = Filled(mid)
  BY <1>1, <1>3, <1>4, LaunchedRows
<1>7. NoGap(row')
  BY <1>4, <1>5, <1>6, NoGapKept DEF Filled
<1> QED BY <1>2, <1>4, <1>6, <1>7

LEMMA PackStep == PackIInv /\ [PackNext]_packVars => PackIInv'
<1> SUFFICES ASSUME PackIInv, [PackNext]_packVars PROVE PackIInv'
  OBVIOUS
<1> USE DEF PackIInv, PackTInv
<1>1. /\ row \in Rows /\ NoGap(row) /\ sync \in [Items -> Sync] /\ starter \in [Starters -> Seen]
      /\ plan \in PlanStatuses /\ captured \subseteq Tables /\ fault \in 0..MaxFault
  BY DEF PackTypeOK, Rows, Sync
<1>2. ASSUME row' \in Rows, NoGap(row'), sync' \in [Items -> Sync], starter' \in [Starters -> Seen],
             plan' \in PlanStatuses, captured' \subseteq Tables, fault' \in 0..MaxFault
      PROVE  PackTInv'
  BY <1>2 DEF PackTypeOK, Rows, Sync
<1>3. \A i \in Items : row[i].status # "none" <=> row[i].phase \in Phases
  BY <1>1, ItemOrNone
<1>4. ASSUME fault < MaxFault, fault' = fault + 1 PROVE fault' \in 0..MaxFault
  BY <1>1, <1>4
<1>5. ASSUME NEW s \in Starters, NEW b, NEW x, StartRead(s, b, x) PROVE PackIInv'
  <2>1. [i \in Pending(b) |-> row[i].phase] \in Seen
    BY <1>1, SeenType DEF Pending, Having, Present
  <2>2. PackTInv'
    BY <1>1, <1>2, <1>5, <2>1 DEF StartRead
  <2> QED BY <1>5, <2>2 DEF StartRead, SyncHasCause, EndIsTold, NoDraftRuns
<1>6. ASSUME NEW s \in Starters, StartWrite(s) PROVE PackIInv'
  <2>1. row' = Launched(row, starter[s]) /\ starter[s] \in Seen
    BY <1>1, <1>6 DEF StartWrite
  <2>2. /\ row' \in Rows
        /\ \A i \in Items :
             /\ row'[i].batch = row[i].batch
             /\ \/ row'[i] = row[i]
                \/ row[i].phase = "DRAFT" /\ row'[i].phase = "NEW" /\ row'[i].status = "RUNNING"
                \/ row[i].phase # "DRAFT" /\ row'[i].phase = row[i].phase /\ row[i].status = "PENDING"
        /\ Filled(row') = Filled(row)
    BY <1>1, <2>1, LaunchedRows
  <2>3. NoGap(row')
    BY <1>1, <2>2, NoGapKept DEF Filled
  <2>4. starter' \in [Starters -> Seen] /\ plan' \in PlanStatuses
    BY <1>1, <1>6, UnseenIsSeen DEF StartWrite, PlanStatuses
  <2>5. PackTInv'
    BY <1>1, <1>2, <1>6, <2>2, <2>3, <2>4 DEF StartWrite
  <2>6. EndIsTold' /\ NoDraftRuns'
    BY <1>6, <2>2 DEF StartWrite, EndIsTold, NoDraftRuns, Ended
  <2> QED BY <1>6, <2>5, <2>6 DEF StartWrite, SyncHasCause
<1>7. ASSUME NEW i \in Items, NEW p \in Phases \ {"DRAFT"}, row[i].status # "none",
             row[i].phase \notin Ended, Transition(i, p), fault' \in 0..MaxFault
      PROVE  PackIInv'
  <2>1. PackTInv'
    BY <1>7, TransitionKeepsTypes
  <2>2. /\ row'[i].phase = p /\ row'[i].status = row[i].status
        /\ \A j \in Items : j # i => row'[j] = row[j] /\ sync'[j] = sync[j]
        /\ IF p \in SyncPhases THEN sync'[i].step = "due" /\ sync'[i].to = p ELSE sync'[i] = sync[i]
    <3>1. row[i] \in Item
      BY <1>1, <1>7, ItemOrNone
    <3> QED BY <1>1, <1>7, <3>1 DEF Transition, Rows, Item, NoSync
  <2>3. SyncHasCause'
    BY <2>2 DEF SyncHasCause
  <2>4. EndIsTold' /\ NoDraftRuns'
    BY <1>7, <2>2 DEF EndIsTold, NoDraftRuns, Ended, SyncPhases
  <2> QED BY <2>1, <2>3, <2>4
<1>8. ASSUME NEW i \in Items, Progress(i) PROVE PackIInv'
  <2>1. PICK p \in Successors(row[i]) : Transition(i, p) /\ UNCHANGED fault
    BY <1>8 DEF Progress
  <2>2. p \in Phases \ {"DRAFT"} /\ row[i].phase \in Phases \ Ended
    BY DEF Successors, Phases, Loading, Ended
  <2> QED BY <1>1, <1>3, <1>7, <2>1, <2>2
<1>9. ASSUME NEW i \in Items, Fails(i) PROVE PackIInv'
  <2>1. row[i].phase \in Phases \ Ended /\ "FAILED" \in Phases
    BY <1>9 DEF Fails, Phases, Loading, Ended
  <2> QED BY <1>1, <1>3, <1>4, <1>7, <1>9, <2>1 DEF Fails
<1>10. ASSUME NEW i \in Items, SyncRead(i) PROVE PackIInv'
  <2>1. /\ Decision(i) \in Sync
        /\ \/ Decision(i) = NoSync /\ row[i].status \in {"none", StatusForPhase(sync[i].to)}
           \/ Decision(i).step = "decided" /\ Decision(i).to = sync[i].to
    BY <1>10, DecisionType DEF SyncRead
  <2>2. PackTInv'
    BY <1>1, <1>2, <1>10, <2>1 DEF SyncRead
  <2>3. SyncHasCause'
    BY <1>1, <1>10, <2>1 DEF SyncRead, SyncHasCause, NoSync
  <2>4. row[i].status \in {"none", StatusForPhase(sync[i].to)} => row[i].status \notin {"PENDING", "RUNNING"}
    BY <1>10, StatusOfPhase DEF SyncRead, SyncHasCause
  <2>5. EndIsTold' /\ NoDraftRuns'
    BY <1>1, <1>10, <2>1, <2>4 DEF SyncRead, EndIsTold, NoDraftRuns
  <2> QED BY <2>2, <2>3, <2>5
<1>11. ASSUME NEW i \in Items, SyncWrite(i) PROVE PackIInv'
  <2>1. /\ row' \in Rows /\ NoGap(row')
        /\ row[i].status # "none" => row'[i].status \in {"DONE", "FAILED", "CANCELLED"} \/ row'[i].phase = "NEW"
        /\ \A j \in Items :
              \/ row'[j].status \notin {"PENDING", "RUNNING"} /\ row'[j].phase = row[j].phase
              \/ row'[j] = row[j] /\ (j # i \/ row[i].status = "none")
              \/ row[j].phase = "DRAFT" /\ row'[j].phase = "NEW" /\ row'[j].status = "RUNNING"
              \/ /\ j # i /\ row[j].phase # "DRAFT"
                 /\ row'[j].phase = row[j].phase /\ row[j].status = "PENDING"
    BY <1>11, SyncedRows
  <2>2. /\ sync' \in [Items -> Sync] /\ sync'[i].step = "none"
        /\ \A j \in Items : j # i => sync'[j] = sync[j]
    BY <1>1, <1>11, NoSyncType DEF SyncWrite, NoSync
  <2>3. plan' \in PlanStatuses
    BY <1>1, <1>11 DEF SyncWrite, Sync
  <2>4. PackTInv'
    BY <1>1, <1>2, <1>11, <2>1, <2>2, <2>3 DEF SyncWrite
  <2>5. SyncHasCause'
    BY <2>2 DEF SyncHasCause
  <2>6. EndIsTold'
    <3> SUFFICES ASSUME NEW j \in Items, sync'[j].step = "none", row'[j].phase \in Ended
                 PROVE  row'[j].status \notin {"PENDING", "RUNNING"}
      BY DEF EndIsTold
    <3>1. CASE j # i
      BY <2>1, <2>2, <3>1 DEF EndIsTold, Ended
    <3>2. CASE j = i
      <4>1. row[i].status = "none" => row[i].phase = "none"
        BY <1>1, ItemOrNone DEF NoItem
      <4> QED BY <2>1, <3>2, <4>1 DEF Ended
    <3> QED BY <3>1, <3>2
  <2>7. NoDraftRuns'
    BY <2>1 DEF NoDraftRuns
  <2> QED BY <2>4, <2>5, <2>6, <2>7
<1>12. ASSUME NEW i \in Items, SyncLost(i) PROVE PackIInv'
  <2>1. [NoSync EXCEPT !.step = "lost"] \in Sync /\ [NoSync EXCEPT !.step = "lost"].step = "lost"
    BY NoSyncType DEF Sync
  <2>2. PackTInv'
    BY <1>1, <1>2, <1>4, <1>12, <2>1 DEF SyncLost
  <2> QED BY <1>1, <1>12, <2>1, <2>2 DEF SyncLost, SyncHasCause, EndIsTold, NoDraftRuns
<1>13. ASSUME NEW ts \in SUBSET Tables, NEW c \in BOOLEAN, NEW q \in BOOLEAN, NEW x \in BOOLEAN,
              AddPlanItems(ts, c, q, x)
       PROVE  PackIInv'
  <2>1. /\ row' \in Rows /\ NoGap(row')
        /\ \A i \in Items : row'[i] = row[i] \/ (row'[i].status = "PENDING" /\ row'[i].phase = "DRAFT")
    BY <1>13, AddedRows
  <2>2. /\ captured' \subseteq Tables /\ plan' \in PlanStatuses /\ fault' = fault + 1 /\ fault < MaxFault
        /\ UNCHANGED <<starter, sync>>
    BY <1>1, <1>13 DEF AddPlanItems, PlanStatuses
  <2>3. PackTInv'
    BY <1>1, <1>2, <1>4, <2>1, <2>2
  <2> QED BY <2>1, <2>2, <2>3 DEF SyncHasCause, EndIsTold, NoDraftRuns, Ended
<1>14. ASSUME NEW t \in Tables, RemoveTable(t) PROVE PackIInv'
  <2>1. PackTInv'
    BY <1>1, <1>2, <1>4, <1>14 DEF RemoveTable
  <2> QED BY <1>14, <2>1 DEF RemoveTable, SyncHasCause, EndIsTold, NoDraftRuns
<1>15. ASSUME NEW i \in Items, NEW x \in BOOLEAN, FullRestart(i, x) PROVE PackIInv'
  <2> DEFINE p == IF x THEN "NEW" ELSE "DRAFT"
             st == IF x THEN "RUNNING" ELSE "PENDING"
  <2>1. p \in Phases /\ st \in Statuses /\ row[i].status # "none"
        /\ row' = [row EXCEPT ![i].phase = p, ![i].status = st]
    BY <1>15 DEF FullRestart, Present, Phases, Statuses
  <2>2. p \notin Ended /\ (p = "DRAFT" => st # "RUNNING")
    BY DEF Ended
  <2> HIDE DEF p, st
  <2>3. row' \in Rows /\ NoGap(row')
    BY <2>1, OneItemWritten
  <2>4. PackTInv'
    BY <1>1, <1>2, <1>4, <1>15, <2>3 DEF FullRestart
  <2>5. row'[i].phase = p /\ row'[i].status = st /\ \A j \in Items : j # i => row'[j] = row[j]
    <3>1. row[i] \in Item
      BY <1>1, <2>1, ItemOrNone
    <3> QED BY <1>1, <2>1, <3>1 DEF Rows, Item
  <2> QED BY <1>15, <2>2, <2>4, <2>5 DEF FullRestart, SyncHasCause, EndIsTold, NoDraftRuns
<1>16. ASSUME NEW i \in Items, NEW p \in {"NEW", "CANCELLING"}, row[i].status # "none",
              row' = [row EXCEPT ![i].phase = p], UNCHANGED <<plan, captured, starter, sync>>,
              fault < MaxFault, fault' = fault + 1
       PROVE  PackIInv'
  <2>1. row' \in Rows /\ NoGap(row')
    BY <1>16, OnePhaseWritten DEF Phases
  <2>2. PackTInv'
    BY <1>1, <1>2, <1>4, <1>16, <2>1
  <2>3. row'[i].phase = p /\ \A j \in Items : j # i => row'[j] = row[j]
    <3>1. row[i] \in Item
      BY <1>1, <1>16, ItemOrNone
    <3> QED BY <1>1, <1>16, <3>1 DEF Rows, Item
  <2> QED BY <1>16, <2>2, <2>3 DEF SyncHasCause, EndIsTold, NoDraftRuns, Ended
<1>17. ASSUME NEW i \in Items, RunDraft(i) \/ Cancel(i) PROVE PackIInv'
  <2>1. row[i].status # "none"
    BY <1>3, <1>17 DEF RunDraft, Cancel, Present, Phases
  <2> QED BY <1>16, <1>17, <2>1 DEF RunDraft, Cancel
<1>18. CASE UNCHANGED packVars
  BY <1>18 DEF packVars, PackTypeOK, SyncHasCause, EndIsTold, NoDraftRuns
<1>19. CASE StartPlan \/ StartCdcBatch
  BY <1>5, <1>19 DEF StartPlan, StartCdcBatch, Starters
<1>20. CASE PackNext
  BY <1>6, <1>8, <1>9, <1>10, <1>11, <1>12, <1>13, <1>14, <1>15, <1>17, <1>19, <1>20 DEF PackNext, Operator
<1> QED BY <1>18, <1>20

----------------------------------------------------------------------------
(* The safety of PackSpec: liveness needs its fairness and is left to TLC.  *)

(* Whatever is started, added, restarted, cancelled or lost, the queue is   *)
(* made of its items in order, and every sync knows what it may write.      *)
THEOREM PackTypeCorrect == PackSpec => []PackTypeOK
<1>1. PackIInv => PackTypeOK
  BY DEF PackIInv, PackTInv
<1> QED BY <1>1, BeginsWell, PackStep, PTL DEF PackSpec

(* planner.py and orchestrator.py: once the sync that follows a transition  *)
(* is through, no item is left RUNNING with a migration that has ended or   *)
(* has never begun, however starts, syncs and requests interleave.          *)
THEOREM RunningIsLiveHolds == PackSpec => []RunningIsLive
<1>1. PackIInv => RunningIsLive
  BY DEF PackIInv, EndIsTold, NoDraftRuns, RunningIsLive, Present
<1> QED BY <1>1, BeginsWell, PackStep, PTL DEF PackSpec

(* planner.py, _start_next_plan_batch: a start launches drafts only, and no *)
(* other step that is not an operator's request or a failure puts a         *)
(* migration (back) to NEW.                                                 *)
THEOREM StartNeverRewindsHolds == PackSpec => StartNeverRewinds
<1>1. ASSUME PackIInv, [PackNext]_packVars, NEW i \in Items, row'[i].phase = "NEW", fault' = fault
      PROVE  row[i].phase \in {"DRAFT", "NEW"}
  <2> USE DEF PackIInv, PackTInv
  <2>1. row \in Rows /\ sync \in [Items -> Sync] /\ starter \in [Starters -> Seen] /\ fault \in Nat
    BY <1>1 DEF PackTypeOK, Rows, Sync
  <2>2. fault' # fault + 1
    BY <1>1, <2>1
  <2>3. CASE row' = row
    BY <1>1, <2>3
  <2>4. ASSUME NEW s \in Starters, StartWrite(s) PROVE row[i].phase \in {"DRAFT", "NEW"}
    <3>1. starter[s] \in Seen /\ row' = Launched(row, starter[s])
      BY <2>1, <2>4 DEF StartWrite
    <3> QED BY <1>1, <2>1, <3>1, LaunchedRows
  <2>5. ASSUME NEW j \in Items, NEW p \in Successors(row[j]), Transition(j, p)
        PROVE  row[i].phase \in {"DRAFT", "NEW"}
    <3>1. p # "NEW"
      BY DEF Successors, Loading
    <3>2. i # j => row'[i] = row[i]
      BY <2>1, <2>5 DEF Transition, Rows
    <3>3. row[j].phase \in Phases
      BY DEF Successors, Phases, Loading
    <3>4. row[j] \in Item
      BY <2>1, <3>3, ItemOrNone
    <3>5. row'[j].phase = p
      BY <2>1, <2>5, <3>4 DEF Transition, Rows, Item
    <3> QED BY <1>1, <3>1, <3>2, <3>5
  <2>6. ASSUME NEW j \in Items, SyncWrite(j) PROVE row[i].phase \in {"DRAFT", "NEW"}
    BY <1>1, <2>6, SyncedRows
  <2>7. CASE StartPlan \/ StartCdcBatch
    BY <2>3, <2>7 DEF StartPlan, StartCdcBatch, StartRead
  <2>8. CASE \/ \E ts \in SUBSET Tables, c, s, x \in BOOLEAN : AddPlanItems(ts, c, s, x)
             \/ \E t \in Tables : RemoveTable(t)
             \/ \E j \in Items : (\E b \in BOOLEAN : FullRestart(j, b)) \/ RunDraft(j) \/ Cancel(j)
             \/ \E j \in Items : Fails(j) \/ SyncLost(j)
    BY <2>2, <2>8 DEF AddPlanItems, RemoveTable, FullRestart, RunDraft, Cancel, Fails, SyncLost
  <2>9. CASE \E j \in Items : Progress(j)
    BY <2>5, <2>9 DEF Progress
  <2>10. CASE \E j \in Items : SyncRead(j)
    BY <2>3, <2>10 DEF SyncRead
  <2>11. CASE UNCHANGED packVars
    BY <2>3, <2>11 DEF packVars
  <2> QED BY <1>1, <2>4, <2>6, <2>7, <2>8, <2>9, <2>10, <2>11 DEF PackNext, Operator
<1>2. PackIInv /\ [PackNext]_packVars
        => [\A i \in Items : row'[i].phase = "NEW" /\ fault' = fault
              => row[i].phase \in {"DRAFT", "NEW"}]_packVars
  BY <1>1
<1> QED BY <1>2, BeginsWell, PackStep, PTL DEF PackSpec, StartNeverRewinds

----------------------------------------------------------------------------
(* The panel.                                                               *)

LEMMA PresentItems ==
  ASSUME PackTypeOK, NEW i \in Present
  PROVE  row[i] \in Item /\ row[i].cdc \in BOOLEAN /\ row[i].batch \in Nat
<1>1. row \in Rows /\ i \in Items /\ row[i].status # "none"
  BY DEF PackTypeOK, Rows, Present
<1>2. row[i] \in Item
  BY <1>1, ItemOrNone
<1>3. N \in Nat
  BY FS_CardinalityType DEF N
<1> QED BY <1>2, <1>3 DEF Item, N

(* The badge says running of nothing but items that are RUNNING.            *)
LEMMA ShownRuns == Shown("running") \subseteq Having("RUNNING")
BY DEF Shown, VisualState, Having

(* PackPanel.tsx against planner.py, connector_groups.py and the trigger    *)
(* routes: whatever the server would accept the panel offers.               *)
LEMMA PanelOffers == PackTypeOK => NothingWithheld
<1> SUFFICES ASSUME PackTypeOK PROVE NothingWithheld
  OBVIOUS
<1>1. ASSUME NEW b \in PendingBatches(row), Startable(b, FALSE)
      PROVE  CanStart /\ PackButtons(FALSE) # {}
  <2>1. /\ plan \in {"READY", "RUNNING"} /\ Pending(b) # {} /\ b = Min(PendingBatches(row))
        /\ CanStartBatch(Having("RUNNING"), Pending(b))
    BY <1>1 DEF Startable, CanForceQueue
  <2>2. Having("PENDING") # {}
    BY <2>1 DEF Pending
  <2>3. NextPending = Pending(b)
    BY <2>1, <2>2 DEF NextPending
  <2>4. ~ ((\E i \in Shown("running") : ~row[i].cdc) /\ (\E i \in NextPending : ~row[i].cdc))
    BY <2>1, <2>3, ShownRuns DEF CanStartBatch
  <2>5. CanStart
    BY <2>1, <2>2, <2>4 DEF CanStart
  <2>6. PackButtons(FALSE) # {}
    <3>1. PICK i \in Present : TRUE
      BY <2>2 DEF Having
    <3>2. CASE row[i].cdc = TRUE
      <4>1. i \in QueueGroup("cdc")
        BY <3>2 DEF QueueGroup
      <4>2. "cdc" \in PackButtons(FALSE)
        BY <2>5, <4>1 DEF PackButtons
      <4> QED BY <4>2
    <3>3. CASE row[i].cdc = FALSE
      <4>1. i \in QueueGroup("bulk")
        BY <3>3 DEF QueueGroup
      <4>2. "bulk" \in PackButtons(FALSE)
        BY <2>5, <4>1 DEF PackButtons
      <4> QED BY <4>2
    <3> QED BY <3>2, <3>3, PresentItems
  <2> QED BY <2>5, <2>6
<1>2. ASSUME NEW b \in PendingBatches(row), Startable(b, FALSE), NEW i \in Pending(b), row[i].phase = "DRAFT",
             Shown("failed") = {}
      PROVE  ReadyNote
  <2>1. i \in Shown("queued")
    BY <1>2 DEF Pending, Having, Shown, VisualState, DonePhases, Bad
  <2> QED BY <1>1, <1>2, <2>1 DEF ReadyNote
<1>3. captured \ HeldTables \subseteq CanRemove
  <2> SUFFICES ASSUME NEW t \in captured, t \notin HeldTables,
                      NEW i \in QueueGroup("cdc"), row[i].table = t
               PROVE  ~ActiveCdcPackItem(row[i])
    BY DEF CanRemove
  <2>1. i \in Present /\ row[i].cdc
    BY DEF QueueGroup
  <2> QED BY <2>1 DEF HeldTables, ActiveCdcPackItem
<1>4. ASSUME NEW i \in Present, "trigger_job" \in PackRowActions(row[i])
      PROVE  row[i].phase \in {"COMPLETED", "CDC_CAUGHT_UP", "STEADY_STATE"}
  BY <1>4 DEF PackRowActions, ShouldShowTriggerJob
<1>5. (\E b \in PendingBatches(row) : Startable(b, FALSE)) => CanStart /\ PackButtons(FALSE) # {}
  BY <1>1
<1>6. (\E b \in PendingBatches(row) : Startable(b, FALSE) /\ \E i \in Pending(b) : row[i].phase = "DRAFT")
        /\ Shown("failed") = {} => ReadyNote
  BY <1>2
<1> QED BY <1>3, <1>4, <1>5, <1>6 DEF NothingWithheld

THEOREM NothingWithheldHolds == PackSpec => []NothingWithheld
BY PackTypeCorrect, PanelOffers, PTL

(* The counter of a card and the badge of a row are worked out separately;  *)
(* for these buckets they say the same of an item, but for a running one    *)
(* that still has its place in the queue.                                   *)
LEMMA BucketIsBadge ==
  ASSUME NEW it \in Item, NEW v \in {"done", "failed", "running"}, NEW q \in BOOLEAN
  PROVE  PackItemBucket(it, q) = v <=> VisualState(it) = v /\ ~(v = "running" /\ q)
<1>1. CASE it.status = "DONE" \/ it.phase \in DonePhases
  BY <1>1 DEF PackItemBucket, VisualState
<1>2. CASE ~(it.status = "DONE" \/ it.phase \in DonePhases) /\ (it.status \in Bad \/ it.phase \in Bad)
  BY <1>2 DEF PackItemBucket, VisualState
<1>3. CASE /\ ~(it.status = "DONE" \/ it.phase \in DonePhases) /\ ~(it.status \in Bad \/ it.phase \in Bad)
           /\ it.status = "PENDING" \/ it.phase \in {"DRAFT", "NEW"}
  BY <1>3 DEF PackItemBucket, VisualState
<1>4. CASE /\ ~(it.status = "DONE" \/ it.phase \in DonePhases) /\ ~(it.status \in Bad \/ it.phase \in Bad)
           /\ ~(it.status = "PENDING" \/ it.phase \in {"DRAFT", "NEW"})
  <2>1. it.status = "RUNNING"
    BY <1>4 DEF Item, Statuses, Bad
  <2> QED BY <1>4, <2>1 DEF PackItemBucket, VisualState
<1> QED BY <1>1, <1>2, <1>3, <1>4

LEMMA PresentFinite == IsFiniteSet(Present)
BY FS_Subset DEF Present

LEMMA CountersAgree ==
  ASSUME PackTypeOK, NEW Q \in SUBSET Present, NEW v \in {"done", "failed", "running"}
  PROVE  PackItemCounts(QueueGroup("bulk"), Q)[v] + PackItemCounts(QueueGroup("cdc"), Q)[v]
           = Cardinality(IF v = "running" THEN Shown(v) \ Q ELSE Shown(v))
<1> DEFINE Of(kind) == {i \in QueueGroup(kind) : PackItemBucket(row[i], i \in Q) = v}
           B == Of("bulk")
           C == Of("cdc")
           Counted == IF v = "running" THEN Shown(v) \ Q ELSE Shown(v)
<1>1. /\ PackItemCounts(QueueGroup("bulk"), Q)[v] = Cardinality(B)
      /\ PackItemCounts(QueueGroup("cdc"), Q)[v] = Cardinality(C)
  BY DEF PackItemCounts
<1>2. \A i \in Present : /\ i \in B <=> i \in Counted /\ row[i].cdc = FALSE
                         /\ i \in C <=> i \in Counted /\ row[i].cdc = TRUE
  <2> SUFFICES ASSUME NEW i \in Present
               PROVE  /\ i \in B <=> i \in Counted /\ row[i].cdc = FALSE
                      /\ i \in C <=> i \in Counted /\ row[i].cdc = TRUE
    OBVIOUS
  <2>1. row[i] \in Item
    BY PresentItems
  <2>2. PackItemBucket(row[i], i \in Q) = v <=> i \in Counted
    <3>1. PackItemBucket(row[i], i \in Q) = v <=> VisualState(row[i]) = v /\ ~(v = "running" /\ i \in Q)
      <4>1. (i \in Q) \in BOOLEAN
        OBVIOUS
      <4> QED BY <2>1, <4>1, BucketIsBadge, Zenon
    <3> QED BY <3>1 DEF Shown
  <2>3. /\ i \in QueueGroup("bulk") <=> row[i].cdc = FALSE
        /\ i \in QueueGroup("cdc") <=> row[i].cdc = TRUE
    <3>1. /\ i \in QueueGroup("bulk") <=> row[i].cdc = ("bulk" = "cdc")
          /\ i \in QueueGroup("cdc") <=> row[i].cdc = ("cdc" = "cdc")
      BY Zenon DEF QueueGroup
    <3>2. ("bulk" = "cdc") = FALSE /\ ("cdc" = "cdc") = TRUE
      OBVIOUS
    <3> QED BY <3>1, <3>2
  <2> QED BY <2>2, <2>3
<1>3. B \subseteq Present /\ C \subseteq Present
  BY DEF QueueGroup
<1>4. Counted \subseteq Present
  BY DEF Shown
<1> HIDE DEF B, C, Counted
<1>5. Counted = B \cup C
  <2>1. \A i \in Present : i \in Counted <=> i \in B \cup C
    BY <1>2, PresentItems
  <2> QED BY <1>3, <1>4, <2>1
<1>6. B \cap C = {}
  BY <1>2, <1>3
<1>7. IsFiniteSet(B) /\ IsFiniteSet(C)
  BY <1>3, PresentFinite, FS_Subset
<1>8. Cardinality(B \cup C) = Cardinality(B) + Cardinality(C) - 0
  BY <1>6, <1>7, FS_Union, FS_EmptySet
<1>9. Cardinality(B) \in Nat /\ Cardinality(C) \in Nat
  BY <1>7, FS_CardinalityType
<1>10. Cardinality(Counted) = Cardinality(B) + Cardinality(C)
  BY <1>5, <1>8, <1>9
<1> QED BY <1>1, <1>10, Zenon DEF Counted

(* The badge, which reads the item's status first, against the overview,    *)
(* which reads the phase alone.                                             *)
LEMMA InWork ==
  ASSUME PackTypeOK, NEW i \in Present
  PROVE  /\ i \in Shown("running") \ ActiveWork => row[i].phase = "CANCELLING"
         /\ i \in ActiveWork \ Shown("running") => row[i].status # "RUNNING"
<1>1. row[i] \in Item
  BY PresentItems
<1>2. row[i].phase \in Phases /\ row[i].status \in Statuses
  BY <1>1 DEF Item
<1>3. i \in Shown("running") => row[i].phase \notin Ended \cup {"DRAFT", "NEW"}
  BY DEF Shown, VisualState, DonePhases, Bad, Ended
<1>4. i \in Shown("running") /\ i \notin ActiveWork => row[i].phase = "CANCELLING"
  BY <1>2, <1>3 DEF ActiveWork, ActiveWorkPhases, Phases
<1>5. i \in ActiveWork => row[i].phase \notin Ended \cup {"DRAFT", "NEW"}
  BY DEF ActiveWork, ActiveWorkPhases, Loading, Ended
<1>6. i \in ActiveWork /\ row[i].status = "RUNNING" => i \in Shown("running")
  BY <1>5 DEF Shown, VisualState, DonePhases, Bad, Ended
<1> QED BY <1>4, <1>6

LEMMA LeastBatch ==
  ASSUME PackTypeOK, NEW S \in SUBSET Present, S # {}
  PROVE  \E i \in S : row[i].batch = Min({row[j].batch : j \in S})
<1> DEFINE B == {row[j].batch : j \in S}
<1>1. B \in SUBSET Nat
  BY PresentItems
<1>2. B # {}
  OBVIOUS
<1> HIDE DEF B
<1>3. Min(B) \in B
  BY <1>1, <1>2, LeastNat
<1> QED BY <1>3 DEF B

(* The order that is called the current one is one where something runs.    *)
LEMMA CurrentRuns ==
  ASSUME PackTypeOK, Shown("running") # {}
  PROVE  \E i \in Shown("running") \cup ActiveWork : row[i].batch = CurrentBatch
<1>1. CASE ActiveWork # {}
  <2>1. CurrentBatch = Min({row[i].batch : i \in ActiveWork})
    BY <1>1 DEF CurrentBatch
  <2>2. ActiveWork \in SUBSET Present
    BY DEF ActiveWork
  <2> QED BY <1>1, <2>1, <2>2, LeastBatch
<1>2. CASE ActiveWork = {}
  <2>1. CurrentBatch = Min({row[i].batch : i \in Shown("running")})
    BY <1>2 DEF CurrentBatch
  <2>2. Shown("running") \in SUBSET Present
    BY DEF Shown
  <2> QED BY <2>1, <2>2, LeastBatch
<1> QED BY <1>1, <1>2

LEMMA AtMostOne ==
  ASSUME NEW S, NEW x, S \subseteq {x}
  PROVE  Cardinality(S) <= 1
<1>1. IsFiniteSet({x}) /\ Cardinality({x}) = 1
  BY FS_Singleton
<1> QED BY <1>1, FS_Subset

(* A row is in one tile of the CDC card, unless it was started outside of   *)
(* the pack and still counts as not started.                                *)
LEMMA OneTile ==
  ASSUME NEW it, NEW q \in BOOLEAN, NEW hb \in BOOLEAN, NEW gs \in CardStatuses
  PROVE  Cardinality(CardTiles(it, q, hb, gs)) > 1 => it.status = "PENDING" /\ it.phase # "DRAFT"
<1> DEFINE tiles == CardTiles(it, q, hb, gs)
<1> SUFFICES ASSUME ~(it.status = "PENDING" /\ it.phase # "DRAFT") PROVE Cardinality(tiles) <= 1
  <2>1. Cardinality(tiles) <= 1 => ~(Cardinality(tiles) > 1)
    <3>1. tiles \subseteq {"not_started", "waits_group", "starting", "queued", "loading", "waits_worker", "applying"}
      BY DEF CardTiles
    <3>2. IsFiniteSet({"not_started", "waits_group", "starting", "queued", "loading", "waits_worker", "applying"})
      <4>1. IsFiniteSet({"not_started"})
        BY FS_Singleton
      <4>2. IsFiniteSet({"not_started"} \cup {"waits_group"} \cup {"starting"} \cup {"queued"} \cup {"loading"}
                          \cup {"waits_worker"} \cup {"applying"})
        BY <4>1, FS_AddElement
      <4>3. {"not_started"} \cup {"waits_group"} \cup {"starting"} \cup {"queued"} \cup {"loading"}
              \cup {"waits_worker"} \cup {"applying"}
            = {"not_started", "waits_group", "starting", "queued", "loading", "waits_worker", "applying"}
        OBVIOUS
      <4> QED BY <4>2, <4>3
    <3>3. Cardinality(tiles) \in Nat
      <4> HIDE DEF tiles
      <4> QED BY <3>1, <3>2, FS_Subset, FS_CardinalityType
    <3> QED BY <3>3
  <2> QED BY <2>1
<1>1. CASE it.phase = "DRAFT"
  <2>1. tiles \subseteq {"not_started"}
    BY <1>1 DEF CardTiles, Loading
  <2> QED BY <2>1, AtMostOne
<1>2. CASE it.phase = "NEW"
  <2>1. tiles \subseteq {IF gs # "RUNNING" THEN "waits_group" ELSE IF q THEN "queued" ELSE "starting"}
    BY <1>2 DEF CardTiles, Loading
  <2> QED BY <2>1, AtMostOne
<1>3. CASE it.phase \in Loading \cup {"INDEXES_ENABLING"}
  <2>1. tiles \subseteq {"loading"}
    BY <1>3 DEF CardTiles, Loading
  <2> QED BY <2>1, AtMostOne
<1>4. CASE it.phase \notin Loading \cup {"INDEXES_ENABLING", "DRAFT", "NEW"}
  <2>1. tiles \subseteq {IF hb \/ it.phase = "CDC_CATCHING_UP" THEN "applying" ELSE "waits_worker"}
    BY <1>4 DEF CardTiles
  <2> QED BY <2>1, AtMostOne
<1> QED BY <1>1, <1>2, <1>3, <1>4

LEMMA RowsAgree == PackTypeOK => RowsCountedOnce
<1> SUFFICES ASSUME PackTypeOK, NEW i \in QueueGroup("cdc"), NEW it \in InDetail(row[i]),
                    NEW q \in BOOLEAN, NEW hb \in BOOLEAN, NEW gs \in CardStatuses
             PROVE  /\ Cardinality(CardTiles(it, q, hb, gs)) > 1 => it.status = "PENDING" /\ it.phase # "DRAFT"
                    /\ StatusLabel(it, q, hb, gs) # "phase"
                         => ProgressText(it, q, hb, gs) = StatusLabel(it, q, hb, gs)
                    /\ "waits_group" \in CardTiles(it, q, hb, gs)
                         => "rows_wait_for_the_group" \in CardRemarks(gs)
                    /\ it.phase = "NEW" /\ CanStartConnector(gs)
                         => "waits_group" \in CardTiles(it, q, hb, gs)
  BY DEF RowsCountedOnce
<1>1. i \in Present /\ row[i] \in Item /\ row[i].cdc = TRUE
  <2>1. i \in Present /\ row[i].cdc = ("cdc" = "cdc")
    BY DEF QueueGroup
  <2> QED BY <2>1, PresentItems
<1>2. it.cdc = TRUE /\ (it.phase = "NEW" => row[i].phase = "NEW")
  <2>1. PICK p : it = [row[i] EXCEPT !.phase = p] /\ (p = "NEW" => row[i].phase = "NEW")
    BY DEF InDetail
  <2>2. row[i] \in [table : Tables, cdc : BOOLEAN, batch : 1..Cardinality(Items), status : Statuses, phase : Phases]
    BY <1>1 DEF Item
  <2> QED BY <1>1, <2>1, <2>2
<1>3. Cardinality(CardTiles(it, q, hb, gs)) > 1 => it.status = "PENDING" /\ it.phase # "DRAFT"
  BY OneTile
<1>4. StatusLabel(it, q, hb, gs) # "phase" => ProgressText(it, q, hb, gs) = StatusLabel(it, q, hb, gs)
  <2>1. CASE it.phase = "NEW"
    BY <1>2, <2>1 DEF StatusLabel, ProgressText, WaitsWorker
  <2>2. CASE it.phase # "NEW"
    <3>1. CASE WaitsWorker(it, hb)
      <4>1. ProgressText(it, q, hb, gs) = "waits_worker" /\ StatusLabel(it, q, hb, gs) = "waits_worker"
        BY <1>2, <2>2, <3>1 DEF StatusLabel, ProgressText
      <4> QED BY <4>1
    <3>2. CASE ~WaitsWorker(it, hb)
      <4>1. StatusLabel(it, q, hb, gs) = "phase"
        BY <2>2, <3>2 DEF StatusLabel
      <4> QED BY <4>1
    <3> QED BY <3>1, <3>2
  <2> QED BY <2>1, <2>2
<1>5. "waits_group" \in CardTiles(it, q, hb, gs) => "rows_wait_for_the_group" \in CardRemarks(gs)
  BY <1>2 DEF CardTiles, CardRemarks
<1>6. it.phase = "NEW" /\ CanStartConnector(gs) => "waits_group" \in CardTiles(it, q, hb, gs)
  <2> SUFFICES ASSUME it.phase = "NEW", gs # "RUNNING" PROVE "waits_group" \in CardTiles(it, q, hb, gs)
    BY DEF CanStartConnector
  <2>1. CardTiles(it, q, hb, gs) = {t \in {"not_started"} : it.status = "PENDING" \/ it.phase = "DRAFT"} \cup {"waits_group"}
    BY DEF CardTiles, Loading
  <2> QED BY <2>1
<1> QED BY <1>3, <1>4, <1>5, <1>6

(* packModel.ts and PackPanel.tsx: the counters of the cards, the badges,   *)
(* the current order, the tiles and the labels, each worked out on its own  *)
(* from the answer, tell one story of every queue that can come about, and  *)
(* of any places in it that are still to be cleared.                        *)
THEOREM CountersMatchBadgesHolds == PackSpec => []CountersMatchBadges
<1>1. PackTypeOK => CountersMatchBadges
  <2> SUFFICES ASSUME PackTypeOK PROVE CountersMatchBadges
    OBVIOUS
  <2>1. \A Q \in SUBSET Present, v \in {"done", "failed", "running"} :
          PackItemCounts(QueueGroup("bulk"), Q)[v] + PackItemCounts(QueueGroup("cdc"), Q)[v]
            = Cardinality(IF v = "running" THEN Shown(v) \ Q ELSE Shown(v))
    BY CountersAgree
  <2>2. Shown("running") \subseteq Present /\ ActiveWork \subseteq Present
    BY DEF Shown, ActiveWork
  <2> QED BY <2>1, <2>2, InWork, CurrentRuns, RowsAgree DEF CountersMatchBadges
<1> QED BY <1>1, PackTypeCorrect, PTL

----------------------------------------------------------------------------
(* The connector of a CDC pack. *)

LEMMA GroupTypeInit == GroupInit => GroupTypeOK
<1> SUFFICES ASSUME GroupInit PROVE GroupTypeOK
  OBVIOUS
<1>1. active \in BOOLEAN /\ checked \in BOOLEAN
  BY Zenon DEF GroupInit
<1>2. status \in GroupStatuses /\ shown \in {GroupButtons(s) : s \in GroupStatuses}
  BY DEF GroupInit, GroupStatuses
<1>3. thread \in [kind : {"none", "topics", "start", "stop"}, step : 0..2]
  BY DEF GroupInit, NoThread
<1> QED
  BY <1>1, <1>2, <1>3, GroupAssumption DEF GroupInit, GroupTypeOK, Nothing

(* A budget that is spent stays within its bounds.                          *)
LEMMA SpendType ==
  ASSUME GroupTypeOK
  PROVE  /\ Spend("requests", MaxRequest) => budget' \in [requests : 0..MaxRequest, breaks : 0..MaxBreak, crashes : 0..MaxCrash]
         /\ Spend("breaks", MaxBreak) => budget' \in [requests : 0..MaxRequest, breaks : 0..MaxBreak, crashes : 0..MaxCrash]
         /\ Spend("crashes", MaxCrash) => budget' \in [requests : 0..MaxRequest, breaks : 0..MaxBreak, crashes : 0..MaxCrash]
  BY GroupAssumption DEF GroupTypeOK, Spend

LEMMA GroupTypeStep == GroupTypeOK /\ [GroupNext]_groupVars => GroupTypeOK'
<1> SUFFICES ASSUME GroupTypeOK, [GroupNext]_groupVars
             PROVE  GroupTypeOK'
  OBVIOUS
<1> USE GroupAssumption DEF GroupTypeOK, GroupStatuses, Lifecycle, Nothing, NoThread
<1>1. ASSUME NEW who \in {"operator", "orchestrator"}, StartAsked(who) PROVE GroupTypeOK'
  BY <1>1, SpendType DEF StartAsked
<1>2. ASSUME StartStored PROVE GroupTypeOK'
  BY <1>2 DEF StartStored
<1>3. ASSUME StartMoved PROVE GroupTypeOK'
  BY <1>3 DEF StartMoved, TransitionGroup
<1>4. ASSUME StopAsked PROVE GroupTypeOK'
  BY <1>4, SpendType DEF StopAsked, TransitionGroup
<1>5. ASSUME DeleteCleansUp PROVE GroupTypeOK'
  BY <1>5 DEF DeleteCleansUp
<1>6. ASSUME PageLoads PROVE GroupTypeOK'
  BY <1>6 DEF PageLoads
<1>7. ASSUME DeleteAsked PROVE GroupTypeOK'
  <2>1. active' \in BOOLEAN
    BY <1>7, Zenon DEF DeleteAsked
  <2> QED
    BY <1>7, <2>1, SpendType DEF DeleteAsked
<1>8. ASSUME TickReads PROVE GroupTypeOK'
  BY <1>8 DEF TickReads
<1>9. ASSUME TickHandles PROVE GroupTypeOK'
  BY <1>9 DEF TickHandles, Handler
<1>10. ASSUME NEW ok \in BOOLEAN, TopicsCreated(ok) PROVE GroupTypeOK'
  BY <1>10 DEF TopicsCreated, TransitionGroup
<1>11. ASSUME NEW ok \in BOOLEAN, ConnectorCreated(ok) PROVE GroupTypeOK'
  <2>1. thread' \in [kind : {"none", "topics", "start", "stop"}, step : 0..2]
    BY <1>11 DEF ConnectorCreated
  <2>2. connectors' \in [0..MaxRun -> {"absent", "running", "failed"}]
    BY <1>11 DEF ConnectorCreated
  <2>3. status' \in GroupStatuses
    BY <1>11 DEF ConnectorCreated, TransitionGroup
  <2> QED
    BY <1>11, <2>1, <2>2, <2>3 DEF ConnectorCreated
<1>12. ASSUME NEW ok \in BOOLEAN, ConnectorStarted(ok) PROVE GroupTypeOK'
  BY <1>12 DEF ConnectorStarted, TransitionGroup
<1>13. ASSUME NEW ok \in BOOLEAN, ConnectorDeleted(ok) PROVE GroupTypeOK'
  BY <1>13 DEF ConnectorDeleted, TransitionGroup
<1>14. ASSUME StopDone PROVE GroupTypeOK'
  BY <1>14 DEF StopDone, TransitionGroup
<1>15. ASSUME PollReads PROVE GroupTypeOK'
  BY <1>15 DEF PollReads, Normalized
<1>16. ASSUME PollWrites PROVE GroupTypeOK'
  BY <1>16 DEF PollWrites, TransitionGroup
<1>17. ASSUME HealthReads \/ HealthWrites PROVE GroupTypeOK'
  BY <1>17 DEF HealthReads, HealthWrites, TransitionGroup
<1>18. ASSUME ConnectorBreaks PROVE GroupTypeOK'
  BY <1>18, SpendType DEF ConnectorBreaks
<1>19. ASSUME Restart PROVE GroupTypeOK'
  <2>1. checked' \in BOOLEAN
    BY <1>19, Zenon DEF Restart
  <2> QED
    BY <1>19, <2>1, SpendType DEF Restart
<1>20. CASE UNCHANGED groupVars
  BY <1>20 DEF groupVars
<1> QED
  BY <1>1, <1>2, <1>3, <1>4, <1>5, <1>6, <1>7, <1>8, <1>9, <1>10, <1>11, <1>12, <1>13, <1>14, <1>15,
     <1>16, <1>17, <1>18, <1>19, <1>20 DEF GroupNext, ThreadSteps

(* connector_groups.py: the pack, its threads and whoever reads Kafka       *)
(* Connect keep what the code gives them, through any number of starts,     *)
(* requests, breakdowns and restarts of the coordinator.                    *)
THEOREM GroupTypeCorrect == GroupSpec => []GroupTypeOK
<1> QED BY GroupTypeInit, GroupTypeStep, PTL DEF GroupSpec

(* The two parts together: what one of them does leaves the other as it is. *)
THEOREM PackAndGroupTypeCorrect == Spec => []PackAndGroupTypeOK
<1>1. Init => PackIInv /\ GroupTypeOK
  BY BeginsWell, GroupTypeInit DEF Init
<1>2. [QueueStep \/ GroupStep]_allVars => [PackNext]_packVars /\ [GroupNext]_groupVars
  BY DEF QueueStep, GroupStep, OfQueue, OfGroup, allVars
<1>3. PackIInv /\ GroupTypeOK /\ [QueueStep \/ GroupStep]_allVars => PackIInv' /\ GroupTypeOK'
  BY <1>2, PackStep, GroupTypeStep
<1>4. PackIInv /\ GroupTypeOK => PackAndGroupTypeOK
  BY DEF PackIInv, PackTInv, PackAndGroupTypeOK
<1> QED BY <1>1, <1>3, <1>4, PTL DEF Spec
=============================================================================
