----------------------------- MODULE PanelProofs -----------------------------
(***************************************************************************)
(* Theorems about the other panels of the console.  PackRow: the triggers  *)
(* of a table of a pack and its trigger jobs.  TableWizard: the request    *)
(* that adds tables.  ConsoleSettings: the mask of a secret.  Then         *)
(* SourceBrowser, CdcPackCard, SnapshotBanner, CatalogPage and             *)
(* MigrationDetailView, each with its inductive invariant, and what holds  *)
(* of all the panels together: the properties of the run of the panels     *)
(* that speak of every panel, and its type invariant.                      *)
(***************************************************************************)
EXTENDS MCPanels, DashboardProofs, DataCompareProofs, WellFoundedInduction

USE RowAssumption

TriggerJob == [id : JobIds, st : {"PENDING", "RUNNING", "DONE", "FAILED"}]
JobThread == [id : JobIds, step : {"begun", "enabled", "partly"}]
KnownJob == [id : 0..MaxRowJob, st : {"PENDING", "RUNNING", "DONE", "FAILED", "none", "?"}]

RowShape ==
  /\ rowPhase \in {"DRAFT", "NEW", "LOADING", "COMPLETED"} /\ enabled \subseteq Triggers /\ by \in [Triggers -> Causes]
  /\ triggerJobs \subseteq TriggerJob /\ jobThreads \subseteq JobThread
  /\ ran \in [JobIds -> {"unused", "made", "once", "again"}]
  /\ shownJobs \in KnownJob /\ jobAsks \subseteq KnownJob

(* The identifiers are given out in order and never twice, so that whoever  *)
(* still knows a job that was deleted never means another one.              *)
UsedIds == {i \in JobIds : ran[i] # "unused"}
IdsInOrder == \E n \in 0..MaxRowJob : UsedIds = 1..n
OneRecord == \A j, k \in triggerJobs : j.id = k.id => j = k
AllMade ==
  /\ \A j \in triggerJobs : j.id \in UsedIds
  /\ \A th \in jobThreads : th.id \in UsedIds
  /\ \A a \in jobAsks \cup {shownJobs} : a.id \in UsedIds \cup {0}

(* A job has its record only while the table is loaded; until it is run for *)
(* the first time it is pending.                                            *)
JobsAfterLoad == rowPhase # "COMPLETED" => triggerJobs = {}
PendingIsMade == \A j \in triggerJobs : j.st = "PENDING" => ran[j.id] = "made"
NoneTwice == \A i \in JobIds : ran[i] # "again"

(* What a job, its thread and the row call enabled is enabled, or disabled  *)
(* on the page, as long as the job has its record.                          *)
IsRecorded(i) == \E j \in triggerJobs : j.id = i
OffByPage == \A t \in Triggers \ enabled : by[t] = "page"
DoneIsOn == \A j \in triggerJobs : j.st = "DONE" => OffByPage
EnabledIsOn == \A th \in jobThreads : th.step = "enabled" /\ IsRecorded(th.id) => OffByPage
KnownIsOn == \A a \in jobAsks \cup {shownJobs} : a.st = "DONE" /\ IsRecorded(a.id) => OffByPage
OffWhileLoading == rowPhase = "LOADING" => \A t \in enabled : by[t] \in {"undisabled", "page", "orphan"}

RowInv ==
  /\ RowShape /\ IdsInOrder /\ OneRecord /\ AllMade /\ JobsAfterLoad /\ PendingIsMade /\ NoneTwice
  /\ DoneIsOn /\ EnabledIsOn /\ KnownIsOn /\ OffWhileLoading

-----------------------------------------------------------------------------
LEMMA RowInvInit == RowInit => RowInv
<1> SUFFICES ASSUME RowInit PROVE RowInv
  OBVIOUS
<1>1. RowShape
  <2>1. enabled \subseteq Triggers /\ by \in [Triggers -> Causes]
    BY DEF RowInit, Causes
  <2>2. NoTriggerJob \in KnownJob
    BY DEF NoTriggerJob, KnownJob
  <2> QED
    BY <2>1, <2>2 DEF RowInit, RowShape
<1>2. UsedIds = {} /\ UsedIds = 1..0
  BY DEF RowInit, UsedIds
<1>3. IdsInOrder
  BY <1>2 DEF IdsInOrder
<1>4. AllMade
  BY DEF RowInit, AllMade, NoTriggerJob
<1>5. OneRecord /\ JobsAfterLoad /\ PendingIsMade /\ NoneTwice
  BY DEF RowInit, OneRecord, JobsAfterLoad, PendingIsMade, NoneTwice
<1>6. DoneIsOn /\ EnabledIsOn /\ KnownIsOn /\ OffWhileLoading
  BY DEF RowInit, DoneIsOn, EnabledIsOn, KnownIsOn, OffWhileLoading, NoTriggerJob
<1> QED
  BY <1>1, <1>3, <1>4, <1>5, <1>6 DEF RowInv

(* What the row learns is what it knew, nothing, or a job there is.         *)
LEMMA PanelKeeps ==
  ASSUME RowInv, UNCHANGED rowServer,
         jobAsks' \cup {shownJobs'} \subseteq jobAsks \cup {shownJobs, NoTriggerJob, NotYet} \cup triggerJobs
  PROVE  RowInv'
<1> USE DEF RowInv, rowServer
<1>1. NoTriggerJob \in KnownJob /\ NotYet \in KnownJob /\ triggerJobs \subseteq KnownJob
  BY DEF RowShape, KnownJob, TriggerJob, JobIds, NoTriggerJob, NotYet
<1>2. RowShape'
  BY <1>1 DEF RowShape
<1>3. IdsInOrder' /\ UsedIds' = UsedIds
  BY DEF IdsInOrder, UsedIds
<1>4. AllMade'
  BY <1>3 DEF AllMade, NoTriggerJob, NotYet
<1>5. OneRecord' /\ JobsAfterLoad' /\ PendingIsMade' /\ NoneTwice'
  BY DEF OneRecord, JobsAfterLoad, PendingIsMade, NoneTwice
<1>6. DoneIsOn' /\ EnabledIsOn' /\ OffWhileLoading'
  BY DEF OffByPage, DoneIsOn, EnabledIsOn, OffWhileLoading, IsRecorded
<1>7. KnownIsOn'
  BY DEF OffByPage, KnownIsOn, DoneIsOn, IsRecorded, NoTriggerJob, NotYet
<1> QED
  BY <1>2, <1>3, <1>4, <1>5, <1>6, <1>7

(* A new job has an identifier nobody knows.                                *)
LEMMA EnsureFacts ==
  ASSUME RowInv, EnsurePendingJob, rowPhase' = rowPhase, enabled' = enabled, by' = by,
         jobThreads' = jobThreads, jobAsks' = jobAsks, shownJobs' = shownJobs
  PROVE  RowInv'
<1> USE DEF RowInv
<1>1. CASE UNCHANGED <<triggerJobs, ran>>
  BY <1>1, PanelKeeps DEF rowServer
<1>2. CASE ~(UNCHANGED <<triggerJobs, ran>>)
  <2>1. PICK n \in 0..MaxRowJob : UsedIds = 1..n
    BY DEF IdsInOrder
  <2>2. Used = n
    <3>1. Cardinality(1..n) = n
      BY FS_Interval
    <3> QED
      BY <2>1, <3>1 DEF Used, UsedIds
  <2> DEFINE new == [id |-> n + 1, st |-> "PENDING"]
  <2>3. /\ rowPhase = "COMPLETED" /\ n < MaxRowJob
        /\ triggerJobs' = triggerJobs \cup {new} /\ ran' = [ran EXCEPT ![n + 1] = "made"]
    BY <1>2, <2>2 DEF EnsurePendingJob, NewJob
  <2>4. n + 1 \in JobIds /\ n + 1 \notin UsedIds /\ n + 1 # 0
    BY <2>1, <2>3 DEF JobIds
  <2>5. UsedIds' = UsedIds \cup {n + 1}
    BY <2>3, <2>4 DEF UsedIds, RowShape
  <2>6. UsedIds' = 1..(n + 1)
    BY <2>1, <2>5
  <2>7. new \in TriggerJob /\ new.id = n + 1 /\ new.st = "PENDING"
    BY <2>4 DEF TriggerJob
  <2> HIDE DEF new
  <2>8. RowShape'
    BY <2>3, <2>7 DEF RowShape
  <2>9. IdsInOrder' /\ AllMade'
    BY <2>3, <2>5, <2>6, <2>7 DEF IdsInOrder, AllMade
  <2>10. OneRecord'
    BY <2>3, <2>4, <2>7 DEF OneRecord, AllMade
  <2>11. JobsAfterLoad' /\ NoneTwice'
    BY <2>3, <2>4 DEF JobsAfterLoad, NoneTwice, RowShape
  <2>12. PendingIsMade'
    <3>1. \A j \in triggerJobs : j.id \in JobIds /\ j.id # n + 1
      BY <2>4 DEF AllMade, RowShape, TriggerJob
    <3> QED
      BY <2>3, <2>4, <2>7, <3>1 DEF PendingIsMade, RowShape
  <2>13. DoneIsOn' /\ OffWhileLoading'
    BY <2>3, <2>7 DEF OffByPage, DoneIsOn, OffWhileLoading
  <2>14. \A i \in UsedIds \cup {0} : IsRecorded(i)' => IsRecorded(i)
    BY <2>3, <2>4, <2>7 DEF IsRecorded
  <2>15. EnabledIsOn' /\ KnownIsOn'
    BY <2>14 DEF OffByPage, EnabledIsOn, KnownIsOn, AllMade
  <2> QED
    BY <2>8, <2>9, <2>10, <2>11, <2>12, <2>13, <2>15
<1> QED
  BY <1>1, <1>2

(* A job that is run was pending, and is run for the first time.            *)
LEMMA RunKeeps ==
  ASSUME RowInv, NEW id, RunJob(id), rowPhase' = rowPhase, enabled' = enabled, by' = by,
         jobAsks' = jobAsks, shownJobs' = shownJobs
  PROVE  RowInv'
<1> USE DEF RowInv
<1> DEFINE was == [id |-> id, st |-> "PENDING"]
           is == [id |-> id, st |-> "RUNNING"]
           th == [id |-> id, step |-> "begun"]
<1>1. CASE was \notin triggerJobs
  BY <1>1, PanelKeeps DEF RunJob, rowServer
<1>2. CASE was \in triggerJobs
  <2>1. was.id = id /\ was.st = "PENDING" /\ is.id = id /\ is.st = "RUNNING" /\ th.id = id /\ th.step = "begun"
    OBVIOUS
  <2>2. id \in JobIds /\ id \in UsedIds /\ ran[id] = "made"
    BY <1>2 DEF RowShape, TriggerJob, AllMade, PendingIsMade
  <2>3. is \in TriggerJob /\ th \in JobThread
    BY <2>2 DEF TriggerJob, JobThread
  <2>4. /\ triggerJobs' = (triggerJobs \ {was}) \cup {is} /\ jobThreads' = jobThreads \cup {th}
        /\ ran' = [ran EXCEPT ![id] = "once"]
    BY <1>2, <2>2 DEF RunJob
  <2> HIDE DEF was, is, th
  <2>5. RowShape'
    BY <2>3, <2>4 DEF RowShape
  <2>6. UsedIds' = UsedIds
    BY <2>2, <2>4 DEF UsedIds, RowShape
  <2>7. IdsInOrder' /\ AllMade'
    BY <2>1, <2>2, <2>4, <2>6 DEF IdsInOrder, AllMade
  <2>8. OneRecord'
    BY <1>2, <2>1, <2>4 DEF OneRecord
  <2>9. JobsAfterLoad' /\ NoneTwice'
    BY <1>2, <2>2, <2>4 DEF JobsAfterLoad, NoneTwice, RowShape
  <2>10. PendingIsMade'
    <3>1. \A j \in triggerJobs : j.id \in JobIds /\ (j.id = id => j = was)
      BY <1>2, <2>1 DEF OneRecord, RowShape, TriggerJob
    <3> QED
      BY <2>1, <2>2, <2>4, <3>1 DEF PendingIsMade, RowShape
  <2>11. \A i : IsRecorded(i)' <=> IsRecorded(i)
    BY <1>2, <2>1, <2>4 DEF IsRecorded
  <2>12. DoneIsOn' /\ OffWhileLoading'
    BY <2>1, <2>4 DEF OffByPage, DoneIsOn, OffWhileLoading
  <2>13. EnabledIsOn' /\ KnownIsOn'
    BY <2>1, <2>4, <2>11 DEF OffByPage, EnabledIsOn, KnownIsOn
  <2> QED
    BY <2>5, <2>7, <2>8, <2>9, <2>10, <2>12, <2>13
<1> QED
  BY <1>1, <1>2

(* A full restart deletes the jobs; the threads and the triggers go on.     *)
LEMMA RestartKeeps ==
  ASSUME RowInv, NEW start, Restarted(start), UNCHANGED <<enabled, by, jobThreads, ran, jobAsks, shownJobs>>
  PROVE  RowInv'
<1> USE DEF RowInv
<1>1. triggerJobs' = {} /\ rowPhase' \in {"NEW", "DRAFT"}
  BY DEF Restarted
<1>2. RowShape'
  BY <1>1 DEF RowShape
<1>3. IdsInOrder' /\ AllMade'
  BY <1>1 DEF IdsInOrder, AllMade, UsedIds
<1>4. OneRecord' /\ JobsAfterLoad' /\ PendingIsMade' /\ NoneTwice'
  BY <1>1 DEF OneRecord, JobsAfterLoad, PendingIsMade, NoneTwice
<1>5. DoneIsOn' /\ EnabledIsOn' /\ KnownIsOn' /\ OffWhileLoading'
  BY <1>1 DEF OffByPage, DoneIsOn, EnabledIsOn, KnownIsOn, OffWhileLoading, IsRecorded
<1> QED
  BY <1>2, <1>3, <1>4, <1>5

(* The end of a thread is recorded where the job still has its record, as   *)
(* done only after the triggers were enabled.                               *)
LEMMA RecordedKeeps ==
  ASSUME RowInv, NEW th \in jobThreads, NEW st \in {"DONE", "FAILED"}, Recorded(th, st),
         st = "DONE" => th.step = "enabled"
  PROVE  RowInv'
<1> USE DEF RowInv
<1> DEFINE rest == {j \in triggerJobs : j.id # th.id}
           end == {[j EXCEPT !.st = st] : j \in {k \in triggerJobs : k.id = th.id}}
<1>1. triggerJobs' = rest \cup end /\ jobThreads' = jobThreads \ {th}
  BY DEF Recorded
<1>2. UNCHANGED <<rowPhase, enabled, by, ran, shownJobs, jobAsks>>
  BY DEF Recorded, rowPanel
<1>3. \A j \in end : j \in TriggerJob /\ j.id = th.id /\ j.st = st /\ j = [id |-> th.id, st |-> st]
  BY DEF RowShape, TriggerJob
<1>4. \A j \in rest : j \in triggerJobs /\ j.id # th.id
  OBVIOUS
<1>5. \A j \in triggerJobs : j.id = th.id => [j EXCEPT !.st = st] \in end
  OBVIOUS
<1>6. end # {} => \E k \in triggerJobs : k.id = th.id
  OBVIOUS
<1>7. \A j \in triggerJobs : j.id # th.id => j \in rest
  OBVIOUS
<1> HIDE DEF rest, end
<1>8. RowShape'
  BY <1>1, <1>2, <1>3, <1>4 DEF RowShape
<1>9. UsedIds' = UsedIds /\ th.id \in UsedIds
  BY <1>2 DEF UsedIds, AllMade
<1>10. IdsInOrder' /\ AllMade'
  BY <1>1, <1>2, <1>3, <1>4, <1>9 DEF IdsInOrder, AllMade
<1>11. OneRecord'
  BY <1>1, <1>3, <1>4 DEF OneRecord
<1>12. JobsAfterLoad' /\ NoneTwice'
  BY <1>1, <1>2, <1>4, <1>6 DEF JobsAfterLoad, NoneTwice
<1>13. PendingIsMade'
  BY <1>1, <1>2, <1>3, <1>4 DEF PendingIsMade
<1>14. \A i : IsRecorded(i)' => IsRecorded(i)
  BY <1>1, <1>3, <1>4, <1>6 DEF IsRecorded
<1>15. DoneIsOn' /\ OffWhileLoading'
  BY <1>1, <1>2, <1>3, <1>4, <1>6 DEF OffByPage, DoneIsOn, OffWhileLoading, EnabledIsOn, IsRecorded
<1>16. EnabledIsOn' /\ KnownIsOn'
  BY <1>1, <1>2, <1>14 DEF OffByPage, EnabledIsOn, KnownIsOn
<1> QED
  BY <1>8, <1>10, <1>11, <1>12, <1>13, <1>15, <1>16

LEMMA RowInvStep == RowInv /\ [RowNext]_rowVars => RowInv'
<1> SUFFICES ASSUME RowInv, [RowNext]_rowVars PROVE RowInv'
  OBVIOUS
<1> USE DEF RowInv
<1>1. CASE Prepare
  <2>1. triggerJobs = {} /\ UNCHANGED <<triggerJobs, jobThreads, ran, shownJobs, jobAsks>> /\ rowPhase' = "LOADING"
    BY <1>1 DEF Prepare, JobsAfterLoad, rowPanel
  <2>2. PICK left \in SUBSET enabled :
          enabled' = left /\ by' = [t \in Triggers |-> IF t \in left THEN "undisabled" ELSE "load"]
    BY <1>1 DEF Prepare
  <2>3. by' \in [Triggers -> Causes] /\ \A t \in left : t \in Triggers /\ by'[t] = "undisabled"
    BY <2>2 DEF RowShape, Causes
  <2>4. RowShape'
    BY <2>1, <2>2, <2>3 DEF RowShape
  <2>5. IdsInOrder' /\ AllMade' /\ OneRecord' /\ JobsAfterLoad' /\ PendingIsMade' /\ NoneTwice'
    BY <2>1 DEF IdsInOrder, AllMade, UsedIds, OneRecord, JobsAfterLoad, PendingIsMade, NoneTwice
  <2>6. DoneIsOn' /\ EnabledIsOn' /\ KnownIsOn'
    BY <2>1 DEF OffByPage, DoneIsOn, EnabledIsOn, KnownIsOn, IsRecorded
  <2>7. OffWhileLoading'
    BY <2>2, <2>3 DEF OffWhileLoading
  <2> QED
    BY <2>4, <2>5, <2>6, <2>7
<1>2. CASE Loaded
  <2>1. UNCHANGED <<enabled, by, triggerJobs, jobThreads, ran, shownJobs, jobAsks>> /\ rowPhase' = "COMPLETED"
    BY <1>2 DEF Loaded, rowPanel
  <2>2. RowShape' /\ IdsInOrder' /\ AllMade'
    BY <2>1 DEF RowShape, IdsInOrder, AllMade, UsedIds
  <2>3. OneRecord' /\ JobsAfterLoad' /\ PendingIsMade' /\ NoneTwice'
    BY <2>1 DEF OneRecord, JobsAfterLoad, PendingIsMade, NoneTwice
  <2>4. DoneIsOn' /\ EnabledIsOn' /\ KnownIsOn' /\ OffWhileLoading'
    BY <2>1 DEF OffByPage, DoneIsOn, EnabledIsOn, KnownIsOn, OffWhileLoading, IsRecorded
  <2> QED
    BY <2>2, <2>3, <2>4
<1>3. CASE EnsureAfterLoad
  BY <1>3, EnsureFacts DEF EnsureAfterLoad, rowPanel
<1>4. CASE JobThreadsDie
  <2>1. UNCHANGED <<rowPhase, enabled, by, triggerJobs, ran, shownJobs, jobAsks>> /\ jobThreads' = {}
    BY <1>4 DEF JobThreadsDie, rowPanel
  <2>2. RowShape' /\ IdsInOrder' /\ AllMade'
    BY <2>1 DEF RowShape, IdsInOrder, AllMade, UsedIds
  <2>3. OneRecord' /\ JobsAfterLoad' /\ PendingIsMade' /\ NoneTwice'
    BY <2>1 DEF OneRecord, JobsAfterLoad, PendingIsMade, NoneTwice
  <2>4. DoneIsOn' /\ EnabledIsOn' /\ KnownIsOn' /\ OffWhileLoading'
    BY <2>1 DEF OffByPage, DoneIsOn, EnabledIsOn, KnownIsOn, OffWhileLoading, IsRecorded
  <2> QED
    BY <2>2, <2>3, <2>4
<1>5. ASSUME NEW th \in jobThreads, JobThreadEnables(th) PROVE RowInv'
  <2> DEFINE who == IF \E j \in triggerJobs : j.id = th.id THEN "job" ELSE "orphan"
             ended == [id |-> th.id, step |-> IF enabled' = Triggers THEN "enabled" ELSE "partly"]
  <2>1. PICK on \in SUBSET (Triggers \ enabled) :
          enabled' = enabled \cup on /\ by' = [t \in Triggers |-> IF t \in on THEN who ELSE by[t]]
    BY <1>5 DEF JobThreadEnables
  <2>2. /\ jobThreads' = (jobThreads \ {th}) \cup {ended}
        /\ UNCHANGED <<rowPhase, triggerJobs, ran, shownJobs, jobAsks>>
    BY <1>5 DEF JobThreadEnables, rowPanel
  <2>3. ended \in JobThread /\ ended.id = th.id /\ (ended.step = "enabled" => enabled' = Triggers)
    BY DEF RowShape, JobThread
  <2>4. who \in {"job", "orphan"} /\ (who = "job" => triggerJobs # {})
    OBVIOUS
  <2> HIDE DEF who, ended
  <2>5. by' \in [Triggers -> Causes] /\ enabled' \subseteq Triggers
    BY <2>1, <2>4 DEF RowShape, Causes
  <2>6. RowShape'
    BY <2>2, <2>3, <2>5 DEF RowShape
  <2>7. IdsInOrder' /\ AllMade' /\ OneRecord' /\ JobsAfterLoad' /\ PendingIsMade' /\ NoneTwice'
    BY <2>2, <2>3 DEF IdsInOrder, AllMade, UsedIds, OneRecord, JobsAfterLoad, PendingIsMade, NoneTwice
  <2>8. OffByPage => OffByPage'
    BY <2>1 DEF OffByPage
  <2>9. enabled' = Triggers => OffByPage'
    BY DEF OffByPage
  <2>10. DoneIsOn' /\ EnabledIsOn' /\ KnownIsOn'
    BY <2>2, <2>3, <2>8, <2>9 DEF OffByPage, DoneIsOn, EnabledIsOn, KnownIsOn, IsRecorded
  <2>11. OffWhileLoading'
    BY <2>1, <2>2, <2>4 DEF OffWhileLoading, JobsAfterLoad, RowShape
  <2> QED
    BY <2>6, <2>7, <2>10, <2>11
<1>6. ASSUME NEW th \in jobThreads, JobThreadDone(th) PROVE RowInv'
  BY <1>6, RecordedKeeps DEF JobThreadDone
<1>7. ASSUME NEW th \in jobThreads, JobThreadFails(th) PROVE RowInv'
  BY <1>7, RecordedKeeps DEF JobThreadFails
<1>8. CASE PollPackRow \/ ServePackRow \/ \E p \in packAsks : LandPackRow(p)
  <2>1. UNCHANGED rowServer
    BY <1>8 DEF PollPackRow, ServePackRow, LandPackRow
  <2>2. jobAsks' \subseteq jobAsks \cup {NotYet} /\ shownJobs' \in {shownJobs, NoTriggerJob}
    BY <1>8 DEF PollPackRow, ServePackRow, LandPackRow, AskTriggerJobs
  <2> QED
    BY <2>1, <2>2, PanelKeeps
<1>9. CASE PollTriggerJobs
  <2>1. UNCHANGED rowServer /\ jobAsks' \subseteq jobAsks \cup {NotYet} /\ shownJobs' = shownJobs
    BY <1>9 DEF PollTriggerJobs, AskTriggerJobs
  <2> QED
    BY <2>1, PanelKeeps
<1>10. ASSUME NEW a \in jobAsks, ServeTriggerJobs(a) PROVE RowInv'
  <2>1. LatestJobs \subseteq triggerJobs \cup {NoTriggerJob}
    BY DEF LatestJobs
  <2>2. UNCHANGED rowServer /\ jobAsks' \subseteq jobAsks \cup LatestJobs /\ shownJobs' = shownJobs
    BY <1>10 DEF ServeTriggerJobs
  <2> QED
    BY <2>1, <2>2, PanelKeeps
<1>11. ASSUME NEW a \in jobAsks, LandTriggerJobs(a) PROVE RowInv'
  <2>1. UNCHANGED rowServer /\ jobAsks' \subseteq jobAsks /\ shownJobs' \in jobAsks
    BY <1>11 DEF LandTriggerJobs
  <2> QED
    BY <2>1, PanelKeeps
<1>12. CASE TriggerClicked \/ FullRestartClicked \/ OtherPage
  <2>1. UNCHANGED <<rowServer, rowPanel>>
    BY <1>12 DEF TriggerClicked, FullRestartClicked, OtherPage, SendOrder
  <2> QED
    BY <2>1, PanelKeeps DEF rowPanel
<1>13. ASSUME NEW o \in rowOrders, ServeOrder(o) PROVE RowInv'
  <2>1. UNCHANGED <<enabled, by, shownJobs, jobAsks>>
    BY <1>13 DEF ServeOrder, rowPanel
  <2>2. CASE o.kind = "create"
    BY <1>13, <2>1, <2>2, EnsureFacts DEF ServeOrder
  <2>3. CASE o.kind = "run"
    BY <1>13, <2>1, <2>3, RunKeeps DEF ServeOrder
  <2>4. CASE o.kind \notin {"create", "run"}
    BY <1>13, <2>1, <2>4, RestartKeeps DEF ServeOrder
  <2> QED
    BY <2>2, <2>3, <2>4
<1>14. ASSUME NEW o \in rowOrders, RowOrderAnswered(o) PROVE RowInv'
  <2>1. UNCHANGED rowServer /\ jobAsks' \subseteq jobAsks \cup {NotYet} /\ shownJobs' = shownJobs
    BY <1>14 DEF RowOrderAnswered, AskTriggerJobs
  <2> QED
    BY <2>1, PanelKeeps
<1>15. CASE UNCHANGED rowVars
  BY <1>15, PanelKeeps DEF rowVars, rowPanel
<1>16. ASSUME NEW t \in Triggers, PageSwitches(t) PROVE RowInv'
  <2>1. /\ enabled' = enabled \cup {t} \/ enabled' = enabled \ {t}
        /\ by' = [by EXCEPT ![t] = "page"]
        /\ UNCHANGED <<rowPhase, triggerJobs, jobThreads, ran, shownJobs, jobAsks>>
    BY <1>16 DEF PageSwitches, rowPanel
  <2>2. by' \in [Triggers -> Causes] /\ by'[t] = "page" /\ \A u \in Triggers : u # t => by'[u] = by[u]
    BY <2>1 DEF RowShape, Causes
  <2>3. RowShape'
    BY <2>1, <2>2 DEF RowShape
  <2>4. IdsInOrder' /\ AllMade' /\ OneRecord' /\ JobsAfterLoad' /\ PendingIsMade' /\ NoneTwice'
    BY <2>1 DEF IdsInOrder, AllMade, UsedIds, OneRecord, JobsAfterLoad, PendingIsMade, NoneTwice
  <2>5. OffByPage => OffByPage'
    BY <2>1, <2>2 DEF OffByPage
  <2>6. DoneIsOn' /\ EnabledIsOn' /\ KnownIsOn'
    BY <2>1, <2>5 DEF OffByPage, DoneIsOn, EnabledIsOn, KnownIsOn, IsRecorded
  <2>7. OffWhileLoading'
    BY <2>1, <2>2 DEF OffWhileLoading, RowShape
  <2> QED
    BY <2>3, <2>4, <2>6, <2>7
<1> QED
  BY <1>1, <1>2, <1>3, <1>4, <1>5, <1>6, <1>7, <1>8, <1>9, <1>10, <1>11, <1>12, <1>13, <1>14, <1>15, <1>16 DEF RowNext

(* migrations.py, target_trigger_jobs.py, PackPanel.tsx: a trigger that is  *)
(* enabled while the table is loaded could not be disabled, or was enabled  *)
(* on the page or by a thread that has outlived its job; no job is run      *)
(* twice; and of the triggers of a job that the row calls done, and that is *)
(* still there, none is disabled but on the page.                           *)
THEOREM TriggersOnlyByJobHolds == RowSpec => []TriggersOnlyByJob
<1>1. RowInv => TriggersOnlyByJob
  BY DEF RowInv, OffWhileLoading, NoneTwice, KnownIsOn, OffByPage, IsRecorded, TriggersOnlyByJob
<1> QED
  BY <1>1, RowInvInit, RowInvStep, PTL DEF RowSpec
-----------------------------------------------------------------------------
(* The wizard.  What it sends keeps what it was checked for: the keys and   *)
(* the logging as the dialog knew them, the boxes it locks, and the list it *)
(* announced.                                                               *)
Infos(R) == [R -> WizInfos \cup {Failed}]
AllInfos == UNION {Infos(R) : R \in SUBSET WizTables}
AllKeys == UNION {[R -> SUBSET WizColumns] : R \in SUBSET WizTables}
Requests == [st : {"sent", "accepted", "refused", "failed"}, rows : SUBSET WizTables,
             strategy : {"BULK_DIRECT", "BULK_STAGE", "CDC_DIRECT", "CDC_STAGE"},
             prune : BOOLEAN, truncate : BOOLEAN, keys : AllKeys, id : WizPacks \cup {"none"},
             infos : AllInfos, seen : SUBSET WizTables, projected : SUBSET WizTables]

WizShape ==
  /\ WizTypeOK /\ truncate \in BOOLEAN /\ infos \in AllInfos /\ keys \in AllKeys
  /\ payload = NoPayload \/ payload \in Requests

Checked(p) ==
  /\ p.strategy \in {"BULK_STAGE", "CDC_STAGE"} => p.truncate
  /\ Cdc(p) => \A t \in p.rows : /\ p.infos[t].supp = "yes"
                                 /\ p.infos[t].key = "none" <=> p.keys[t] # {}
  /\ p.projected = IF p.prune THEN p.rows ELSE p.seen \cup p.rows
SentIsChecked == payload \in Requests => Checked(payload)

(* The schema migration keeps a pack of its own.                            *)
OwnIsOwn ==
  /\ seen.id = "own" => smGroup = "own"
  /\ payload \in Requests /\ payload.id = "own" => smGroup = "own"

WizInv == WizShape /\ SentIsChecked /\ OwnIsOwn

LEMMA WizInvInit == WizInit => WizInv
<1> SUFFICES ASSUME WizInit PROVE WizInv
  OBVIOUS
<1>1. Unread \in Infos({}) /\ Unread \in [{} -> SUBSET WizColumns] /\ DOMAIN Unread = {}
  BY DEF Unread, Infos
<1>2. Unread \in AllInfos /\ Unread \in AllKeys
  BY <1>1 DEF AllInfos, AllKeys
<1>3. payload = NoPayload /\ payload.st = "none"
  BY DEF WizInit, NoPayload
<1>4. payload \notin Requests
  BY <1>3 DEF Requests
<1>5. /\ packTables \in [WizPacks -> SUBSET WizTables] /\ activeCdc \in [WizPacks -> SUBSET WizTables]
      /\ "own" \in WizPacks /\ "other" \in WizPacks
  BY DEF WizInit, WizPacks
<1>6. held \subseteq WizTables /\ packTables["other"] \subseteq WizTables
  BY <1>5 DEF WizInit
<1>7. seen \in [st : {"loading", "error", "read"}, id : WizPacks \cup {"none"}, tables : SUBSET WizTables] /\ seen.id # "own"
  BY <1>5, <1>6 DEF WizInit
<1>8. WizTypeOK
  BY <1>1, <1>3, <1>5, <1>6, <1>7 DEF WizInit, WizTypeOK, Strategies
<1> QED
  BY <1>2, <1>3, <1>4, <1>7, <1>8 DEF WizInit, WizInv, WizShape, SentIsChecked, OwnIsOwn

(* submit sends only what it checked.                                       *)
LEMMA SubmitChecks == ASSUME WizInv, SubmitWizard PROVE payload' \in Requests /\ Checked(payload)' /\ payload'.id = seen.id
<1> DEFINE infosSent == [t \in rows |-> IF t \in DOMAIN infos THEN infos[t] ELSE Failed]
           truncated == TruncateLocked \/ truncate
           request == [st |-> "sent", rows |-> rows, strategy |-> strategy, prune |-> Prunes, truncate |-> truncated,
                       keys |-> KeysSent, id |-> seen.id, infos |-> infosSent, seen |-> seen.tables,
                       projected |-> Projected]
<1>1. payload' = request /\ FormOk
  BY DEF SubmitWizard
<1>2. /\ mode \in {"historical", "cdc"} /\ strategy \in Strategies(mode) /\ truncate \in BOOLEAN
      /\ rows \subseteq WizTables /\ seen.tables \subseteq WizTables /\ seen.id \in WizPacks \cup {"none"}
      /\ \E R \in SUBSET WizTables : infos \in Infos(R)
      /\ \E R \in SUBSET WizTables : keys \in [R -> SUBSET WizColumns]
  BY DEF WizInv, WizShape, WizTypeOK, AllInfos, AllKeys
<1>3. infosSent \in AllInfos
  BY <1>2 DEF Infos, AllInfos
<1>4. Prunes \in BOOLEAN /\ truncated \in BOOLEAN
  BY <1>2 DEF Prunes, TruncateLocked, Stage
<1>5. Projected = (IF Prunes THEN rows ELSE seen.tables \cup rows) /\ Projected \in SUBSET WizTables
  BY <1>2 DEF Projected
<1>6. strategy \in {"BULK_STAGE", "CDC_STAGE"} => truncated
  BY DEF TruncateLocked, Stage
<1>7. strategy \in {"CDC_DIRECT", "CDC_STAGE"} => mode = "cdc"
  BY <1>2 DEF Strategies
<1>8. \A t \in rows : mode = "cdc" /\ infos[t].key = "none" => t \in DOMAIN keys /\ keys[t] # {}
  BY <1>1 DEF FormOk
<1>9. \A t \in rows : KeysSent[t] = IF mode = "cdc" /\ infos[t].key = "none" THEN keys[t] ELSE {}
  BY DEF KeysSent
<1>10. \A t \in rows : KeysSent[t] \in SUBSET WizColumns
  BY <1>2, <1>8, <1>9
<1>11. KeysSent \in [rows -> SUBSET WizColumns]
  BY <1>10 DEF KeysSent
<1>12. KeysSent \in AllKeys
  BY <1>2, <1>11 DEF AllKeys
<1>13. mode = "cdc" => \A t \in rows : /\ infosSent[t].supp = "yes"
                                       /\ infosSent[t].key = "none" <=> KeysSent[t] # {}
  BY <1>1, <1>8, <1>9 DEF FormOk
<1>14. strategy \in {"BULK_DIRECT", "BULK_STAGE", "CDC_DIRECT", "CDC_STAGE"}
  BY <1>2 DEF Strategies
<1> HIDE DEF infosSent, truncated
<1>15. request \in Requests
  BY <1>2, <1>3, <1>4, <1>5, <1>12, <1>14 DEF Requests
<1>16. Checked(request)
  BY <1>5, <1>6, <1>7, <1>13 DEF Checked, Cdc
<1> QED
  BY <1>1, <1>15, <1>16 DEF Checked, Cdc

(* The tables of a request are added to a pack.                             *)
LEMMA AddedKeeps ==
  ASSUME WizTypeOK, payload \in Requests, RowsAdded(payload)
  PROVE  /\ held' \subseteq WizTables /\ smGroup' \in WizPacks \cup {"none"} /\ (smGroup = "own" => smGroup' = "own")
         /\ packTables' \in [WizPacks -> SUBSET WizTables] /\ activeCdc' \in [WizPacks -> SUBSET WizTables]
<1>1. /\ payload.rows \subseteq WizTables /\ payload.id \in WizPacks \cup {"none"}
      /\ packTables \in [WizPacks -> SUBSET WizTables] /\ activeCdc \in [WizPacks -> SUBSET WizTables]
      /\ smGroup \in WizPacks \cup {"none"} /\ held \subseteq WizTables
  BY DEF Requests, WizTypeOK
<1>2. JoinedPack(payload) \in WizPacks /\ (smGroup = "own" => JoinedPack(payload) = "own")
  BY <1>1 DEF JoinedPack, WizPacks
<1>3. held' \subseteq WizTables
  BY <1>1 DEF RowsAdded
<1>4. CASE Cdc(payload)
  <2> DEFINE g == JoinedPack(payload)
             kept == (IF payload.prune THEN {} ELSE packTables[g]) \cup payload.rows
             atWork == activeCdc[g] \cup payload.rows
  <2>1. /\ smGroup' = g /\ packTables' = [packTables EXCEPT ![g] = kept] /\ activeCdc' = [activeCdc EXCEPT ![g] = atWork]
    BY <1>4 DEF RowsAdded
  <2>2. kept \subseteq WizTables /\ atWork \subseteq WizTables
    BY <1>1, <1>2
  <2> QED
    BY <1>1, <1>2, <1>3, <2>1, <2>2
<1>5. CASE ~Cdc(payload)
  BY <1>1, <1>3, <1>5 DEF RowsAdded
<1> QED
  BY <1>4, <1>5

LEMMA WizInvStep == WizInv /\ [WizNext]_wizVars => WizInv'
<1> SUFFICES ASSUME WizInv, [WizNext]_wizVars PROVE WizInv'
  OBVIOUS
<1>0. /\ WizShape /\ WizTypeOK /\ SentIsChecked /\ OwnIsOwn
  BY DEF WizInv, WizShape
<1>n. NoPayload.st = "none" /\ NoPayload \notin Requests
  BY DEF NoPayload, Requests
(* A step that leaves the request alone.                                    *)
<1>p. ASSUME payload' = payload, WizTypeOK', truncate' \in BOOLEAN, infos' \in AllInfos, keys' \in AllKeys,
             seen'.id = "own" => smGroup' = "own", smGroup = "own" => smGroup' = "own"
      PROVE  WizInv'
  BY <1>0, <1>p DEF WizInv, WizShape, SentIsChecked, OwnIsOwn, Checked, Cdc
<1>1. ASSUME NEW rs \in SUBSET WizTables, RowsChange(rs) PROVE WizInv'
  BY <1>0, <1>1, <1>p DEF RowsChange, WizShape, WizTypeOK, OwnIsOwn, wizServer, wizForm
<1>2. ASSUME NEW fs \in SUBSET WizTables, LandInfos(fs) PROVE WizInv'
  <2>1. /\ rows \subseteq WizTables /\ source \in [WizTables -> WizInfos]
        /\ \E R \in SUBSET WizTables : keys \in [R -> SUBSET WizColumns]
    BY <1>0 DEF WizTypeOK, WizShape, AllKeys
  <2>2. infos' = [t \in rows |-> IF t \in fs THEN Failed ELSE source[t]]
    BY <1>2 DEF LandInfos
  <2>3. infos' \in Infos(rows) /\ DOMAIN infos' = rows
    BY <2>1, <2>2 DEF Infos
  <2>4. \A i \in WizInfos \cup {Failed} : i.uk \subseteq WizColumns
    BY DEF WizColumns, Failed
  <2> DEFINE R == {u \in rows : infos'[u].key # "pk"}
  <2>5. keys' = [t \in R |-> IF t \in DOMAIN keys THEN keys[t] ELSE infos'[t].uk]
    BY <1>2 DEF LandInfos
  <2>6. \A t \in R : infos'[t] \in WizInfos \cup {Failed}
    BY <2>3 DEF Infos
  <2>7. R \subseteq WizTables
    BY <2>1
  <2> HIDE DEF R
  <2>8. keys' \in [R -> SUBSET WizColumns]
    BY <2>1, <2>4, <2>5, <2>6
  <2>9. infos' \in AllInfos /\ keys' \in AllKeys
    BY <2>1, <2>3, <2>7, <2>8 DEF AllInfos, AllKeys
  <2>10. WizTypeOK'
    BY <1>0, <1>2, <2>1, <2>3, <2>7, <2>8 DEF LandInfos, WizTypeOK, wizServer, wizForm
  <2>11. truncate' \in BOOLEAN /\ UNCHANGED <<payload, seen, smGroup>>
    BY <1>0, <1>2 DEF LandInfos, WizShape, wizForm, wizServer
  <2> QED
    BY <1>0, <1>p, <2>9, <2>10, <2>11 DEF OwnIsOwn
<1>3. ASSUME NEW t \in WizTables, NEW col \in WizColumns, ToggleKey(t, col) PROVE WizInv'
  <2>1. PICK R \in SUBSET WizTables : keys \in [R -> SUBSET WizColumns]
    BY <1>0 DEF WizShape, AllKeys
  <2>2. keys' = [keys EXCEPT ![t] = IF col \in keys[t] THEN keys[t] \ {col} ELSE keys[t] \cup {col}] /\ t \in R
    BY <1>3, <2>1 DEF ToggleKey
  <2>3. keys' \in [R -> SUBSET WizColumns]
    BY <2>1, <2>2
  <2>4. keys' \in AllKeys
    BY <2>1, <2>3 DEF AllKeys
  <2>5. WizTypeOK'
    BY <1>0, <1>3, <2>3 DEF ToggleKey, WizTypeOK, wizServer, wizForm
  <2> QED
    BY <1>0, <1>3, <1>p, <2>4, <2>5 DEF ToggleKey, WizShape, OwnIsOwn, wizServer, wizForm
<1>4. ASSUME NEW s, ChooseStrategy(s) PROVE WizInv'
  BY <1>0, <1>4, <1>p DEF ChooseStrategy, WizShape, WizTypeOK, OwnIsOwn, wizServer
<1>5. ASSUME NEW c, ChooseAction(c) PROVE WizInv'
  BY <1>0, <1>5, <1>p DEF ChooseAction, WizShape, WizTypeOK, OwnIsOwn, wizServer
<1>6. CASE ToggleOptions
  BY <1>0, <1>6, <1>p DEF ToggleOptions, WizShape, WizTypeOK, OwnIsOwn, wizServer
<1>7. ASSUME NEW st \in {"read", "loading", "error"}, PollPack(st) PROVE WizInv'
  <2>1. CASE st = "read"
    <3>1. seen' = [st |-> "read", id |-> smGroup, tables |-> IF smGroup = "none" THEN {} ELSE packTables[smGroup]]
      BY <1>7, <2>1 DEF PollPack
    <3>2. smGroup # "none" => packTables[smGroup] \subseteq WizTables
      BY <1>0 DEF WizTypeOK
    <3>3. seen' \in [st : {"loading", "error", "read"}, id : WizPacks \cup {"none"}, tables : SUBSET WizTables]
      BY <1>0, <3>1, <3>2 DEF WizTypeOK
    <3> QED
      BY <1>0, <1>7, <1>p, <3>1, <3>3 DEF PollPack, WizShape, WizTypeOK, OwnIsOwn, wizServer, wizForm
  <2>2. CASE st # "read"
    <3>1. seen' = [seen EXCEPT !.st = st] /\ seen.id = "none"
      BY <1>7, <2>2 DEF PollPack
    <3>2. /\ seen' \in [st : {"loading", "error", "read"}, id : WizPacks \cup {"none"}, tables : SUBSET WizTables]
          /\ seen'.id = "none"
      BY <1>0, <3>1 DEF WizTypeOK
    <3> QED
      BY <1>0, <1>7, <1>p, <3>2 DEF PollPack, WizShape, WizTypeOK, OwnIsOwn, wizServer, wizForm
  <2> QED
    BY <2>1, <2>2
<1>8. CASE SubmitWizard
  <2>1. payload' \in Requests /\ Checked(payload)' /\ payload'.id = seen.id
    BY <1>8, SubmitChecks
  <2>2. payload'.st \in {"sent", "accepted", "refused", "failed"}
    BY <2>1 DEF Requests
  <2>3. WizTypeOK'
    BY <1>0, <1>8, <2>2 DEF SubmitWizard, WizTypeOK, wizServer, wizForm
  <2>4. truncate' \in BOOLEAN /\ infos' \in AllInfos /\ keys' \in AllKeys /\ UNCHANGED <<seen, smGroup>>
    BY <1>0, <1>8 DEF SubmitWizard, WizShape, wizForm, wizServer
  <2> QED
    BY <1>0, <2>1, <2>3, <2>4 DEF WizInv, WizShape, SentIsChecked, OwnIsOwn
<1>9. CASE ServeWizard
  <2>1. payload \in Requests
    BY <1>0, <1>9, <1>n DEF ServeWizard, WizShape
  <2>2. PICK st \in {"accepted", "refused", "failed"} : payload' = [payload EXCEPT !.st = st]
    BY <1>9 DEF ServeWizard
  <2>3. /\ payload' \in Requests /\ payload'.st = st /\ payload'.id = payload.id
        /\ payload'.rows = payload.rows /\ payload'.strategy = payload.strategy /\ payload'.prune = payload.prune
        /\ payload'.truncate = payload.truncate /\ payload'.keys = payload.keys /\ payload'.infos = payload.infos
        /\ payload'.seen = payload.seen /\ payload'.projected = payload.projected
    BY <2>1, <2>2 DEF Requests
  <2>4. Checked(payload)'
    BY <1>0, <2>1, <2>3 DEF SentIsChecked, Checked, Cdc
  <2>5. /\ held' \subseteq WizTables /\ smGroup' \in WizPacks \cup {"none"} /\ (smGroup = "own" => smGroup' = "own")
        /\ packTables' \in [WizPacks -> SUBSET WizTables] /\ activeCdc' \in [WizPacks -> SUBSET WizTables]
    <3>1. CASE RowsAdded(payload)
      BY <1>0, <2>1, <3>1, AddedKeeps
    <3>2. CASE UNCHANGED <<smGroup, packTables, activeCdc, held>>
      BY <1>0, <3>2 DEF WizTypeOK
    <3> QED
      BY <1>9, <3>1, <3>2 DEF ServeWizard
  <2>6. WizTypeOK'
    BY <1>0, <1>9, <2>2, <2>3, <2>5 DEF ServeWizard, WizTypeOK, wizForm
  <2>7. truncate' \in BOOLEAN /\ infos' \in AllInfos /\ keys' \in AllKeys /\ seen' = seen
    BY <1>0, <1>9 DEF ServeWizard, WizShape, wizForm
  <2> QED
    BY <1>0, <2>1, <2>3, <2>4, <2>5, <2>6, <2>7 DEF WizInv, WizShape, SentIsChecked, OwnIsOwn
<1>10. CASE WizardAnswered
  <2>1. payload' = NoPayload /\ rows' \subseteq WizTables
    BY <1>0, <1>10 DEF WizardAnswered, WizTypeOK
  <2>2. WizTypeOK'
    BY <1>0, <1>10, <1>n, <2>1 DEF WizardAnswered, WizTypeOK, wizServer, wizForm
  <2>3. truncate' \in BOOLEAN /\ infos' \in AllInfos /\ keys' \in AllKeys /\ UNCHANGED <<seen, smGroup>>
    BY <1>0, <1>10 DEF WizardAnswered, WizShape, wizForm, wizServer
  <2> QED
    BY <1>0, <1>n, <2>1, <2>2, <2>3 DEF WizInv, WizShape, SentIsChecked, OwnIsOwn
<1>11. CASE Elsewhere
  <2>1. /\ source \in [WizTables -> WizInfos] /\ smGroup \in WizPacks \cup {"none"} /\ held \subseteq WizTables
        /\ packTables \in [WizPacks -> SUBSET WizTables] /\ activeCdc \in [WizPacks -> SUBSET WizTables]
    BY <1>0 DEF WizTypeOK
  <2>2. /\ source' \in [WizTables -> WizInfos] /\ smGroup' \in WizPacks \cup {"none"} /\ held' \subseteq WizTables
        /\ packTables' \in [WizPacks -> SUBSET WizTables] /\ activeCdc' \in [WizPacks -> SUBSET WizTables]
        /\ smGroup = "own" => smGroup' = "own"
    <3>1. CASE \E t \in WizTables, i \in WizInfos : source' = [source EXCEPT ![t] = i] /\ UNCHANGED <<smGroup, packTables, activeCdc, held>>
      BY <2>1, <3>1
    <3>2. ASSUME NEW t \in held, held' = held \ {t},
                 activeCdc' = [g \in WizPacks |-> IF g = smGroup THEN activeCdc[g] \ {t} ELSE activeCdc[g]],
                 UNCHANGED <<source, smGroup, packTables>>
          PROVE  /\ source' \in [WizTables -> WizInfos] /\ smGroup' \in WizPacks \cup {"none"} /\ held' \subseteq WizTables
                 /\ packTables' \in [WizPacks -> SUBSET WizTables] /\ activeCdc' \in [WizPacks -> SUBSET WizTables]
                 /\ smGroup = "own" => smGroup' = "own"
      <4>1. \A g \in WizPacks : (IF g = smGroup THEN activeCdc[g] \ {t} ELSE activeCdc[g]) \in SUBSET WizTables
        BY <2>1
      <4> QED
        BY <2>1, <3>2, <4>1
    <3>3. ASSUME NEW t \in WizTables \ held, NEW g \in WizPacks,
                 \/ smGroup \in {"none", g} /\ g = "own" /\ smGroup' = g /\ held' = held \cup {t}
                 \/ g = "other" /\ UNCHANGED <<smGroup, held>>,
                 packTables' = [packTables EXCEPT ![g] = @ \cup {t}], activeCdc' = [activeCdc EXCEPT ![g] = @ \cup {t}],
                 UNCHANGED source
          PROVE  /\ source' \in [WizTables -> WizInfos] /\ smGroup' \in WizPacks \cup {"none"} /\ held' \subseteq WizTables
                 /\ packTables' \in [WizPacks -> SUBSET WizTables] /\ activeCdc' \in [WizPacks -> SUBSET WizTables]
                 /\ smGroup = "own" => smGroup' = "own"
      <4>1. packTables[g] \cup {t} \in SUBSET WizTables /\ activeCdc[g] \cup {t} \in SUBSET WizTables
        BY <2>1
      <4>2. packTables' \in [WizPacks -> SUBSET WizTables] /\ activeCdc' \in [WizPacks -> SUBSET WizTables]
        BY <2>1, <3>3, <4>1
      <4>3. smGroup' \in WizPacks \cup {"none"} /\ held' \subseteq WizTables /\ (smGroup = "own" => smGroup' = "own")
        BY <2>1, <3>3
      <4> QED
        BY <2>1, <3>3, <4>2, <4>3
    <3>4. CASE \E g \in WizPacks : \E t \in packTables[g] \ activeCdc[g] :
                 packTables' = [packTables EXCEPT ![g] = @ \ {t}] /\ UNCHANGED <<source, smGroup, activeCdc, held>>
      BY <2>1, <3>4
    <3> QED
      BY <1>11, <3>1, <3>2, <3>3, <3>4 DEF Elsewhere
  <2> QED
    BY <1>0, <1>11, <1>p, <2>2 DEF Elsewhere, WizShape, WizTypeOK, OwnIsOwn, wizForm
<1>12. CASE UNCHANGED wizVars
  BY <1>0, <1>12, <1>p DEF wizVars, wizServer, wizForm, WizShape, WizTypeOK, OwnIsOwn
<1> QED
  BY <1>1, <1>2, <1>3, <1>4, <1>5, <1>6, <1>7, <1>8, <1>9, <1>10, <1>11, <1>12 DEF WizNext

(* Every reachable state of the dialog, of the request it sends and of the  *)
(* pack behind it has the types the code gives them.                        *)
THEOREM WizTypeCorrect == WizSpec => []WizTypeOK
<1>1. WizInv => WizTypeOK
  BY DEF WizInv, WizShape
<1> QED
  BY <1>1, WizInvInit, WizInvStep, PTL DEF WizSpec

(* Only the server ends a request that was sent.                            *)
LEMMA OnlyServed ==
  ASSUME [WizNext]_wizVars, payload.st = "sent", payload'.st \in {"accepted", "refused"}
  PROVE  ServeWizard
<1>1. payload' # payload
  OBVIOUS
<1>2. ~SubmitWizard /\ ~WizardAnswered
  BY DEF SubmitWizard, CanSubmit, Busy, WizardAnswered
<1> QED
  BY <1>1, <1>2 DEF WizNext, RowsChange, LandInfos, ToggleKey, ChooseStrategy, ChooseAction, ToggleOptions,
                    PollPack, Elsewhere, wizVars

(* TablePackModal.tsx, schema_migrations.py: a form the dialog lets through *)
(* is refused only for a table that others altered or took since, for one   *)
(* of the plan, for a column that its table had lost when it was read anew, *)
(* or for the pack of the schema migration that was chosen before.          *)
THEOREM RefusedOnlyIfOvertakenHolds == WizSpec => RefusedOnlyIfOvertaken
<1>1. ASSUME WizInv, [WizNext]_wizVars, payload.st = "sent", payload'.st = "refused"
      PROVE  Overtaken \/ KeptTooLong
  <2>0. payload \in Requests
    BY <1>1 DEF WizInv, WizShape, NoPayload
  <2>1. Checked(payload) /\ smGroup \in WizPacks \cup {"none"} /\ payload.id \in WizPacks \cup {"none"}
    BY <1>1, <2>0 DEF WizInv, WizShape, WizTypeOK, SentIsChecked, Requests
  <2>2. ServeWizard
    BY <1>1, OnlyServed
  <2>3. ~AddAccepted(payload)
    <3>1. \A st : [payload EXCEPT !.st = st].st = st
      BY <2>0 DEF Requests
    <3> QED
      BY <1>1, <2>2, <3>1 DEF ServeWizard
  <2>4. CASE TakenSince
    BY <2>4 DEF Overtaken
  <2>5. CASE Cdc(payload) /\ PackMismatch(payload)
    <3>1. payload.id # "own"
      BY <1>1, <2>0, <2>1, <2>5 DEF WizInv, OwnIsOwn, PackMismatch
    <3> QED
      BY <2>1, <2>5, <3>1 DEF PackMismatch, KeptTooLong, WizPacks
  <2>6. CASE Cdc(payload) /\ ~(\A t \in payload.rows : source[t].supp = "yes" /\ KeyAccepted(t, payload))
    <3>1. PICK t \in payload.rows : ~(source[t].supp = "yes" /\ KeyAccepted(t, payload))
      BY <2>6
    <3>2. CASE source[t] # payload.infos[t]
      BY <2>6, <3>2 DEF Overtaken
    <3>3. CASE source[t] = payload.infos[t]
      <4>1. payload.infos[t].supp = "yes" /\ (payload.infos[t].key = "none" <=> payload.keys[t] # {})
        BY <2>1, <2>6 DEF Checked
      <4>2. ~(payload.keys[t] \subseteq payload.infos[t].cols)
        BY <3>1, <3>3, <4>1 DEF KeyAccepted
      <4> QED
        BY <2>6, <4>2 DEF KeptTooLong
    <3> QED
      BY <3>2, <3>3
  <2> QED
    BY <2>1, <2>3, <2>4, <2>5, <2>6 DEF AddAccepted, Checked, TakenSince
<1>2. WizInv /\ [WizNext]_wizVars => [payload.st = "sent" /\ payload'.st = "refused" => Overtaken \/ KeptTooLong]_wizVars
  BY <1>1
<1> QED
  BY <1>2, WizInvInit, WizInvStep, PTL DEF WizSpec, RefusedOnlyIfOvertaken

(* TablePackModal.tsx, schema_migrations.py: the list of tables the dialog  *)
(* announces is the pack afterwards, unless the pack was changed since it   *)
(* was polled, and even if it is the pack of another schema migration.      *)
THEOREM IncludeListAsShownHolds == WizSpec => IncludeListAsShown
<1>1. ASSUME WizInv, [WizNext]_wizVars, payload.st = "sent", payload'.st = "accepted", Cdc(payload),
             payload.seen = packTables[JoinedPack(payload)]
      PROVE  packTables'[smGroup'] = payload.projected
  <2>0. payload \in Requests
    BY <1>1 DEF WizInv, WizShape, NoPayload
  <2>1. payload.projected = IF payload.prune THEN payload.rows ELSE payload.seen \cup payload.rows
    BY <1>1, <2>0 DEF WizInv, SentIsChecked, Checked
  <2>2. ServeWizard
    BY <1>1, OnlyServed
  <2>3. RowsAdded(payload)
    <3>1. \A st : [payload EXCEPT !.st = st].st = st
      BY <2>0 DEF Requests
    <3> QED
      BY <1>1, <2>2, <3>1 DEF ServeWizard
  <2>4. JoinedPack(payload) \in WizPacks /\ packTables \in [WizPacks -> SUBSET WizTables]
    BY <1>1, <2>0 DEF WizInv, WizShape, WizTypeOK, Requests, JoinedPack, WizPacks
  <2>5. smGroup' = JoinedPack(payload) /\ packTables'[smGroup'] = (IF payload.prune THEN {} ELSE packTables[smGroup']) \cup payload.rows
    BY <1>1, <2>3, <2>4 DEF RowsAdded
  <2> QED
    BY <1>1, <2>1, <2>5
<1>2. WizInv /\ [WizNext]_wizVars =>
        [payload.st = "sent" /\ payload'.st = "accepted" /\ Cdc(payload) /\ payload.seen = packTables[JoinedPack(payload)]
           => packTables'[smGroup'] = payload.projected]_wizVars
  BY <1>1
<1> QED
  BY <1>2, WizInvInit, WizInvStep, PTL DEF WizSpec, IncludeListAsShown
-----------------------------------------------------------------------------
ServiceConfig == [secret : {NoSecret, "old", "typed", "other", Mask}, filled : BOOLEAN]
SentConfig == [service : Services, body : ServiceConfig, ok : BOOLEAN, st : {"sent", "ok", "refused"}]
ConfigAnswer == {NotServed} \cup [st : {"refused"}] \cup [st : {"ok"}, all : [Services -> ServiceConfig]]

SettingsShape ==
  /\ stored \in [Services -> ServiceConfig] /\ memory \in [Services -> ServiceConfig] /\ forms \in [Services -> ServiceConfig] /\ tab \in Services
  /\ configAsks \subseteq [ok : BOOLEAN, answer : ConfigAnswer] /\ tokenOk \in BOOLEAN
  /\ saving \in {NothingSent} \cup SentConfig /\ testing \in {NothingSent} \cup SentConfig

\* The State DB has a secret of s, or it was erased, or the State DB failed in a save of it.
SecretKept(s) == stored[s].secret # NoSecret \/ s \in Excused

(* A form, an answer or a request has the mask of a service only if its     *)
(* secret is kept, so that the server puts the secret in the mask's place.  *)
(* So does the coordinator's memory remember a secret only of such a one.   *)
FormsKept == \A s \in Services : forms[s].secret = Mask => SecretKept(s)
AnswersKept ==
  \A a \in configAsks : a.answer.st = "ok" =>
    \A s \in Services : a.answer.all[s].secret = Mask => SecretKept(s)
SentKept(o) == o.st = "sent" /\ o.body.secret = Mask => SecretKept(o.service)
TestedKept == testing.st = "ok" /\ testing.body.secret = Mask => testing.service \in Excused
MemoryKept == \A s \in Services : memory[s].secret # NoSecret => SecretKept(s)

SettingsInv ==
  /\ SettingsShape /\ FormsKept /\ AnswersKept /\ SentKept(saving) /\ SentKept(testing)
  /\ TestedKept /\ MemoryKept /\ MaskIsNoSecret

-----------------------------------------------------------------------------
(* What the server makes of a form.                                         *)
LEMMA ResolvedFacts ==
  ASSUME NEW s \in Services, NEW body \in ServiceConfig, NEW read \in BOOLEAN,
         {stored, memory} \subseteq [Services -> ServiceConfig], body.secret = Mask => SecretKept(s),
         Mask \in {stored[s].secret, memory[s].secret} => s \in Excused
  PROVE  /\ Resolved(s, body, read) \in ServiceConfig
         /\ Resolved(s, body, read).secret = Mask => s \in Excused \/ ~ read
         /\ Resolved(s, body, read).secret = NoSecret => body.secret = NoSecret
<1> DEFINE has == LoadedConfigs(read)[s]
<1>1. has \in ServiceConfig /\ Mask # NoSecret /\ (has.secret = Mask => s \in Excused) /\ (read => has = stored[s])
  BY DEF Mask, NoSecret, LoadedConfigs
<1>2. CASE body.secret = Mask /\ has.secret # NoSecret
  <2>1. Resolved(s, body, read) = [body EXCEPT !.secret = has.secret]
    BY <1>2 DEF Resolved
  <2> HIDE DEF has
  <2>2. Resolved(s, body, read) \in ServiceConfig /\ Resolved(s, body, read).secret = has.secret
    BY <1>1, <2>1 DEF ServiceConfig
  <2> QED
    BY <1>1, <1>2, <2>2
<1>3. CASE ~(body.secret = Mask /\ has.secret # NoSecret)
  <2>1. Resolved(s, body, read) = body
    BY <1>3 DEF Resolved
  <2>2. body.secret = Mask => s \in Excused \/ ~ read
    BY <1>1, <1>3 DEF SecretKept
  <2> QED
    BY <1>1, <2>1, <2>2
<1> QED
  BY <1>2, <1>3

(* A save keeps every secret that nobody erases and no failure loses.       *)
LEMMA StoreFacts ==
  ASSUME SettingsInv, NEW s \in Services, NEW body \in ServiceConfig, body.secret = Mask => SecretKept(s),
         Store(s, body)
  PROVE  /\ {stored', memory'} \subseteq [Services -> ServiceConfig] /\ Excused \subseteq Excused'
         /\ \A t \in Services : SecretKept(t) => SecretKept(t)'
         /\ MemoryKept'
         /\ \A t \in Services : Mask \in {stored'[t].secret, memory'[t].secret} => t \in Excused'
<1>1. PICK read \in BOOLEAN, written \in BOOLEAN :
        /\ memory' = [memory EXCEPT ![s] = Resolved(s, body, read)]
        /\ stored' = IF written THEN [stored EXCEPT ![s] = Resolved(s, body, read)] ELSE stored
        /\ erased' = erased \cup {x \in {s} : body.secret = NoSecret}
        /\ blind' = blind \cup {x \in {s} : ~ (read /\ written)}
  BY DEF Store
<1>2. {stored, memory} \subseteq [Services -> ServiceConfig]
  BY DEF SettingsInv, SettingsShape
<1> DEFINE new == Resolved(s, body, read)
<1>3. /\ new \in ServiceConfig
      /\ new.secret = Mask => s \in Excused \/ ~ read
      /\ new.secret = NoSecret => body.secret = NoSecret
  BY <1>2, ResolvedFacts DEF SettingsInv, MaskIsNoSecret
<1>4. /\ memory' = [memory EXCEPT ![s] = new]
      /\ stored' = IF written THEN [stored EXCEPT ![s] = new] ELSE stored
  BY <1>1
<1> HIDE DEF new
<1>5. {stored', memory'} \subseteq [Services -> ServiceConfig]
  BY <1>2, <1>3, <1>4
<1>6. /\ \A t \in Services : memory'[t] = IF t = s THEN new ELSE memory[t]
      /\ \A t \in Services : stored'[t] = IF t = s /\ written THEN new ELSE stored[t]
  BY <1>2, <1>4
<1>7. Excused \subseteq Excused' /\ (body.secret = NoSecret \/ ~ (read /\ written) => s \in Excused')
  BY <1>1 DEF Excused
<1>8. \A t \in Services : SecretKept(t) => SecretKept(t)'
  BY <1>3, <1>6, <1>7 DEF SecretKept
<1>9. MemoryKept'
  <2> SUFFICES ASSUME NEW t \in Services, memory'[t].secret # NoSecret PROVE SecretKept(t)'
    BY DEF MemoryKept
  <2>1. CASE t = s /\ written
    BY <1>6, <2>1 DEF SecretKept
  <2>2. CASE t = s /\ ~ written
    BY <1>7, <2>2 DEF SecretKept
  <2>3. CASE t # s
    BY <1>6, <1>8, <2>3 DEF SettingsInv, MemoryKept
  <2> QED
    BY <2>1, <2>2, <2>3
<1>10. \A t \in Services : Mask \in {stored'[t].secret, memory'[t].secret} => t \in Excused'
  BY <1>3, <1>6, <1>7 DEF SettingsInv, MaskIsNoSecret
<1> QED
  BY <1>5, <1>7, <1>8, <1>9, <1>10

(* The mask is sent of a secret the server has.                             *)
LEMMA MaskedFacts ==
  ASSUME NEW c \in ServiceConfig
  PROVE  Masked(c) \in ServiceConfig /\ (Masked(c).secret = Mask => c.secret # NoSecret)
<1>1. CASE c.secret = NoSecret
  BY <1>1 DEF Masked, Mask, NoSecret
<1>2. CASE c.secret # NoSecret
  BY <1>2 DEF Masked, ServiceConfig
<1> QED
  BY <1>1, <1>2

-----------------------------------------------------------------------------
LEMMA SettingsInvInit == SettingsInit => SettingsInv
<1> SUFFICES ASSUME SettingsInit PROVE SettingsInv
  OBVIOUS
<1>1. Blank \in ServiceConfig /\ Blank.secret = NoSecret /\ [secret |-> "old", filled |-> TRUE] \in ServiceConfig
  BY DEF Blank, ServiceConfig
<1>2. SettingsShape
  BY <1>1 DEF SettingsInit, SettingsShape
<1>3. FormsKept /\ AnswersKept
  BY DEF SettingsInit, FormsKept, AnswersKept, Blank, Mask, NoSecret
<1>4. SentKept(saving) /\ SentKept(testing) /\ TestedKept
  BY DEF SettingsInit, SentKept, TestedKept, NothingSent
<1>5. MaskIsNoSecret /\ MemoryKept
  BY DEF SettingsInit, MaskIsNoSecret, MemoryKept, Blank, Mask, NoSecret, NoTest
<1> QED
  BY <1>2, <1>3, <1>4, <1>5 DEF SettingsInv

(* A save on the server, whoever sent the form.                             *)
LEMMA StoreKeeps ==
  ASSUME SettingsInv, NEW s \in Services, NEW body \in ServiceConfig,
         body.secret = Mask => SecretKept(s), Store(s, body), SettingsShape',
         forms' = forms, configAsks' = configAsks, testing' = testing, testResult' = testResult,
         saving' = saving \/ saving'.st = "ok"
  PROVE  SettingsInv'
<1>1. /\ Excused \subseteq Excused' /\ MemoryKept'
      /\ \A t \in Services : SecretKept(t) => SecretKept(t)'
      /\ \A t \in Services : Mask \in {stored'[t].secret, memory'[t].secret} => t \in Excused'
  BY StoreFacts
<1>2. FormsKept' /\ AnswersKept'
  BY <1>1 DEF SettingsInv, FormsKept, AnswersKept
<1>3. SentKept(testing)' /\ TestedKept'
  <2>1. testing.st = "sent" => testing.service \in Services
    BY DEF SettingsInv, SettingsShape, SentConfig, NothingSent
  <2> QED
    BY <1>1, <2>1 DEF SettingsInv, SentKept, TestedKept
<1>4. SentKept(saving)'
  <2>1. saving.st = "sent" => saving.service \in Services
    BY DEF SettingsInv, SettingsShape, SentConfig, NothingSent
  <2> QED
    BY <1>1, <2>1 DEF SettingsInv, SentKept
<1>5. MaskIsNoSecret'
  BY <1>1 DEF SettingsInv, MaskIsNoSecret
<1> QED
  BY <1>1, <1>2, <1>3, <1>4, <1>5 DEF SettingsInv

LEMMA SettingsInvStep == SettingsInv /\ [SettingsNext]_settingsVars => SettingsInv'
<1> SUFFICES ASSUME SettingsInv, [SettingsNext]_settingsVars PROVE SettingsInv'
  OBVIOUS
<1>0. SettingsShape
  BY DEF SettingsInv
<1>f. ASSUME UNCHANGED keptVars PROVE Excused' = Excused /\ MemoryKept' /\ \A s : SecretKept(s)' <=> SecretKept(s)
  BY <1>f DEF SecretKept, Excused, MemoryKept, SettingsInv, keptVars
<1>g. tab \in Services => FormSent \in SentConfig /\ SentKept(FormSent) /\ FormSent.st = "sent"
  <2> SUFFICES ASSUME tab \in Services PROVE FormSent \in SentConfig /\ SentKept(FormSent) /\ FormSent.st = "sent"
    OBVIOUS
  <2>1. forms[tab] \in ServiceConfig
    BY <1>0 DEF SettingsShape
  <2> QED
    BY <1>0, <2>1 DEF FormSent, SentConfig, SettingsShape, SentKept, SettingsInv, FormsKept
<1>1. ASSUME NEW a \in configAsks, ServeConfigs(a) PROVE SettingsInv'
  <2>0. UNCHANGED keptVars
    BY <1>1 DEF ServeConfigs
  <2>1. PICK read \in BOOLEAN : configAsks' = (configAsks \ {a}) \cup
            {[a EXCEPT !.answer = IF a.ok THEN [st |-> "ok", all |-> [s \in Services |-> Masked(LoadedConfigs(read)[s])]]
                                          ELSE [st |-> "refused"]]}
    BY <1>1 DEF ServeConfigs
  <2> DEFINE ans == IF a.ok THEN [st |-> "ok", all |-> [s \in Services |-> Masked(LoadedConfigs(read)[s])]]
                            ELSE [st |-> "refused"]
             b == [a EXCEPT !.answer = ans]
  <2>2. \A s \in Services : /\ Masked(LoadedConfigs(read)[s]) \in ServiceConfig
                            /\ Masked(LoadedConfigs(read)[s]).secret = Mask => SecretKept(s)
    BY <1>0, MaskedFacts DEF SettingsShape, LoadedConfigs, SettingsInv, MemoryKept, SecretKept
  <2>3. ans \in ConfigAnswer
    BY <2>2 DEF ConfigAnswer
  <2>4. b \in [ok : BOOLEAN, answer : ConfigAnswer] /\ b.answer = ans
    <3>1. a \in [ok : BOOLEAN, answer : ConfigAnswer]
      BY <1>0 DEF SettingsShape
    <3> HIDE DEF ans
    <3> QED
      BY <2>3, <3>1
  <2>5. ans.st = "ok" => \A s \in Services : ans.all[s].secret = Mask => SecretKept(s)
    BY <2>2
  <2>6. configAsks' = (configAsks \ {a}) \cup {b}
    BY <2>1
  <2> HIDE DEF ans, b
  <2>7. SettingsShape'
    BY <1>0, <1>1, <2>4, <2>6 DEF ServeConfigs, SettingsShape, keptVars
  <2>8. AnswersKept'
    BY <2>0, <2>4, <2>5, <2>6, <1>f DEF SettingsInv, AnswersKept
  <2>9. FormsKept' /\ SentKept(saving)' /\ SentKept(testing)' /\ TestedKept' /\ MaskIsNoSecret'
    BY <1>1, <2>0, <1>f DEF ServeConfigs, SettingsInv, FormsKept, SentKept, TestedKept, MaskIsNoSecret, keptVars
  <2> QED
    BY <2>0, <2>7, <2>8, <2>9, <1>f DEF SettingsInv
<1>2. CASE ServeSave
  <2>1. saving \in SentConfig /\ [saving EXCEPT !.st = "ok"] \in SentConfig /\ [saving EXCEPT !.st = "refused"] \in SentConfig
    BY <1>0, <1>2 DEF ServeSave, SettingsShape, SentConfig, NothingSent
  <2>2. saving.service \in Services /\ saving.body \in ServiceConfig
    BY <2>1 DEF SentConfig
  <2>3. CASE saving.ok
    <3>1. Store(saving.service, saving.body) /\ saving' = [saving EXCEPT !.st = "ok"]
      BY <1>2, <2>3 DEF ServeSave
    <3>2. saving.body.secret = Mask => SecretKept(saving.service)
      BY <1>2 DEF ServeSave, SettingsInv, SentKept
    <3>3. {stored', memory'} \subseteq [Services -> ServiceConfig]
      BY <2>2, <3>1, <3>2, StoreFacts
    <3>4. SettingsShape'
      BY <1>0, <1>2, <2>1, <3>1, <3>3 DEF ServeSave, SettingsShape
    <3>5. saving'.st = "ok"
      BY <2>1, <3>1 DEF SentConfig
    <3> QED
      BY <1>2, <2>2, <3>1, <3>2, <3>4, <3>5, StoreKeeps DEF ServeSave
  <2>4. CASE ~saving.ok
    <3>1. saving' = [saving EXCEPT !.st = "refused"] /\ UNCHANGED keptVars
      BY <1>2, <2>4 DEF ServeSave
    <3>2. saving'.st = "refused"
      BY <2>1, <3>1 DEF SentConfig
    <3>3. SettingsShape'
      BY <1>0, <1>2, <2>1, <3>1 DEF ServeSave, SettingsShape, keptVars
    <3>4. SentKept(saving)'
      BY <3>2 DEF SentKept
    <3> QED
      BY <1>2, <3>1, <3>3, <3>4, <1>f
         DEF ServeSave, SettingsInv, FormsKept, AnswersKept, SentKept, TestedKept, MaskIsNoSecret, keptVars
  <2> QED
    BY <2>3, <2>4
<1>3. CASE ServeTest
  <2>1. testing \in SentConfig
    BY <1>0, <1>3 DEF ServeTest, SettingsShape, NothingSent
  <2>2. testing.service \in Services /\ testing.body \in ServiceConfig
    BY <2>1 DEF SentConfig
  <2>3. UNCHANGED <<stored, memory, erased, forms, configAsks, tab, tokenOk, saving, testResult>> /\ blind \subseteq blind'
    <3>1. CASE testing.ok
      <4>1. TryOut(testing.service, testing.body)
        BY <1>3, <3>1 DEF ServeTest
      <4>2. PICK read \in BOOLEAN :
              /\ testing' = [service |-> testing.service, body |-> Resolved(testing.service, testing.body, read),
                             ok |-> TRUE, st |-> "ok"]
              /\ blind' = blind \cup {x \in {testing.service} : ~ read}
        BY <4>1 DEF TryOut
      <4> QED
        BY <1>3, <4>2 DEF ServeTest
    <3>2. CASE ~ testing.ok
      BY <1>3, <3>2 DEF ServeTest
    <3> QED
      BY <3>1, <3>2
  <2>4. Excused \subseteq Excused' /\ \A s : SecretKept(s) => SecretKept(s)'
    BY <2>3 DEF Excused, SecretKept
  <2>5. testing' \in SentConfig /\ testing'.st # "sent" /\ TestedKept'
    <3>1. CASE testing' = [testing EXCEPT !.st = "refused"]
      <4>1. testing' \in SentConfig /\ testing'.st = "refused"
        BY <2>1, <3>1 DEF SentConfig
      <4> QED
        BY <4>1 DEF TestedKept
    <3>2. ASSUME NEW read \in BOOLEAN, blind' = blind \cup {x \in {testing.service} : ~ read},
                 testing' = [service |-> testing.service, body |-> Resolved(testing.service, testing.body, read),
                             ok |-> TRUE, st |-> "ok"]
          PROVE  testing' \in SentConfig /\ testing'.st # "sent" /\ TestedKept'
      <4> DEFINE body == Resolved(testing.service, testing.body, read)
      <4>1. body \in ServiceConfig /\ (body.secret = Mask => testing.service \in Excused \/ ~ read)
        <5>1. testing.body.secret = Mask => SecretKept(testing.service)
          BY <1>3 DEF ServeTest, SettingsInv, SentKept
        <5> QED
          BY <1>0, <2>2, <5>1, ResolvedFacts DEF SettingsInv, SettingsShape, MaskIsNoSecret
      <4>2. testing' = [service |-> testing.service, body |-> body, ok |-> TRUE, st |-> "ok"]
        BY <3>2
      <4> HIDE DEF body
      <4>3. testing' \in SentConfig /\ testing'.st = "ok" /\ testing'.body = body /\ testing'.service = testing.service
        BY <2>2, <4>1, <4>2 DEF SentConfig
      <4>4. body.secret = Mask => testing.service \in Excused'
        BY <2>4, <3>2, <4>1 DEF Excused
      <4> QED
        BY <4>3, <4>4 DEF TestedKept
    <3>3. CASE testing.ok
      <4>1. TryOut(testing.service, testing.body)
        BY <1>3, <3>3 DEF ServeTest
      <4>2. PICK read \in BOOLEAN :
              /\ testing' = [service |-> testing.service, body |-> Resolved(testing.service, testing.body, read),
                             ok |-> TRUE, st |-> "ok"]
              /\ blind' = blind \cup {x \in {testing.service} : ~ read}
        BY <4>1 DEF TryOut
      <4> QED
        BY <3>2, <4>2
    <3>4. CASE ~ testing.ok
      BY <1>3, <3>1, <3>4 DEF ServeTest
    <3> QED
      BY <3>3, <3>4
  <2>6. SettingsShape'
    BY <1>0, <2>3, <2>5 DEF SettingsShape
  <2>7. FormsKept' /\ AnswersKept' /\ MemoryKept' /\ MaskIsNoSecret'
    BY <2>3, <2>4 DEF SettingsInv, FormsKept, AnswersKept, MemoryKept, MaskIsNoSecret
  <2>8. SentKept(saving)' /\ SentKept(testing)'
    BY <2>3, <2>4, <2>5 DEF SettingsInv, SentKept
  <2> QED
    BY <2>5, <2>6, <2>7, <2>8 DEF SettingsInv
<1>4. CASE SavesElsewhere
  <2>1. PICK s \in Services, sec \in {NoSecret, "other", Mask} :
          /\ sec = Mask => \E read \in BOOLEAN : LoadedConfigs(read)[s].secret # NoSecret
          /\ Store(s, [secret |-> sec, filled |-> sec # NoSecret])
    BY <1>4 DEF SavesElsewhere
  <2> DEFINE body == [secret |-> sec, filled |-> sec # NoSecret]
  <2>2. body \in ServiceConfig /\ (body.secret = Mask => SecretKept(s)) /\ Store(s, body)
    BY <2>1 DEF ServiceConfig, LoadedConfigs, SettingsInv, MemoryKept, SecretKept
  <2> HIDE DEF body
  <2>3. {stored', memory'} \subseteq [Services -> ServiceConfig]
    BY <2>2, StoreFacts
  <2>4. SettingsShape'
    BY <1>0, <1>4, <2>3 DEF SavesElsewhere, SettingsShape, settingsPage
  <2> QED
    BY <1>4, <2>2, <2>4, StoreKeeps DEF SavesElsewhere, settingsPage
<1>p. ASSUME UNCHANGED keptVars, SettingsShape', FormsKept', AnswersKept',
             saving' \in {saving, NothingSent, FormSent}, testing' \in {testing, NothingSent, FormSent},
             testResult' \in {testResult, NoTest}
      PROVE  SettingsInv'
  <2>1. NothingSent.st = "none" /\ FormSent.st = "sent" /\ SentKept(FormSent) /\ Mask # NoSecret
    BY <1>0, <1>g DEF NothingSent, SettingsShape, Mask, NoSecret
  <2>2. \A o : SentKept(o) => (SentKept(o)')
    BY <1>p, <1>f DEF SentKept
  <2>3. SentKept(saving)' /\ SentKept(testing)'
    BY <1>p, <2>1, <1>f DEF SettingsInv, SentKept
  <2>4. TestedKept'
    BY <1>p, <2>1, <1>f DEF SettingsInv, TestedKept
  <2>5. MaskIsNoSecret'
    BY <1>p, <2>1, <1>f DEF SettingsInv, MaskIsNoSecret, NoTest, keptVars
  <2> QED
    BY <1>p, <2>3, <2>4, <2>5, <1>f DEF SettingsInv
<1>q. ASSUME NEW ok \in BOOLEAN, AskConfigs(ok), UNCHANGED keptVars
      PROVE  configAsks' \subseteq [ok : BOOLEAN, answer : ConfigAnswer] /\ AnswersKept'
  <2>1. [ok |-> ok, answer |-> NotServed] \in [ok : BOOLEAN, answer : ConfigAnswer] /\ NotServed.st # "ok"
    BY DEF ConfigAnswer, NotServed
  <2>2. configAsks' \subseteq configAsks \cup {[ok |-> ok, answer |-> NotServed]}
    BY <1>q DEF AskConfigs
  <2> QED
    BY <1>0, <1>q, <1>f, <2>1, <2>2 DEF SettingsInv, SettingsShape, AnswersKept
<1>5. CASE OpenSettings
  <2>1. configAsks' \subseteq [ok : BOOLEAN, answer : ConfigAnswer] /\ AnswersKept'
    BY <1>0, <1>5, <1>q DEF OpenSettings, SettingsShape, settingsServer, keptVars
  <2>2. Blank \in ServiceConfig /\ Blank.secret # Mask
    BY DEF Blank, ServiceConfig, Mask, NoSecret
  <2>3. SettingsShape'
    BY <1>0, <1>5, <2>1, <2>2 DEF OpenSettings, SettingsShape, settingsServer, keptVars
  <2>4. FormsKept'
    BY <1>5, <2>2 DEF OpenSettings, FormsKept
  <2> QED
    BY <1>5, <2>1, <2>3, <2>4, <1>p DEF OpenSettings, settingsServer
<1>6. CASE CloseSettings
  <2>1. SettingsShape' /\ AnswersKept'
    BY <1>0, <1>6 DEF CloseSettings, SettingsShape, AnswersKept, settingsServer, keptVars
  <2>2. FormsKept'
    BY <1>6, <1>f DEF CloseSettings, SettingsInv, FormsKept, settingsServer
  <2> QED
    BY <1>6, <2>1, <2>2, <1>p DEF CloseSettings, settingsServer
<1>7. CASE TypeToken
  <2>1. PICK ok \in BOOLEAN : tokenOk' = ok /\ AskConfigs(ok)
    BY <1>7 DEF TypeToken
  <2>2. configAsks' \subseteq [ok : BOOLEAN, answer : ConfigAnswer] /\ AnswersKept'
    BY <1>7, <2>1, <1>q DEF TypeToken, settingsServer
  <2>3. SettingsShape'
    BY <1>0, <1>7, <2>1, <2>2 DEF TypeToken, SettingsShape, settingsServer, keptVars
  <2>4. FormsKept'
    BY <1>7, <1>f DEF TypeToken, SettingsInv, FormsKept, settingsServer
  <2> QED
    BY <1>7, <2>2, <2>3, <2>4, <1>p DEF TypeToken, settingsServer
<1>8. ASSUME NEW a \in configAsks, LandConfigs(a) PROVE SettingsInv'
  <2>1. a.answer \in ConfigAnswer /\ (a.answer.st = "ok" => a.answer.all \in [Services -> ServiceConfig])
    BY <1>0 DEF SettingsShape, ConfigAnswer, NotServed
  <2>2. SettingsShape'
    BY <1>0, <1>8, <2>1 DEF LandConfigs, SettingsShape, settingsServer, keptVars
  <2>3. AnswersKept'
    BY <1>8, <1>f DEF LandConfigs, SettingsInv, AnswersKept, settingsServer
  <2>4. FormsKept'
    BY <1>8, <1>f DEF LandConfigs, SettingsInv, FormsKept, AnswersKept, settingsServer
  <2> QED
    BY <1>8, <2>2, <2>3, <2>4, <1>p DEF LandConfigs, settingsServer
<1>9. ASSUME NEW s \in Services, ChooseTab(s) PROVE SettingsInv'
  <2>1. SettingsShape'
    BY <1>0, <1>9 DEF ChooseTab, SettingsShape, settingsServer, keptVars
  <2>2. FormsKept' /\ AnswersKept'
    BY <1>9, <1>f DEF ChooseTab, SettingsInv, FormsKept, AnswersKept, settingsServer
  <2> QED
    BY <1>9, <2>1, <2>2, <1>p DEF ChooseTab, settingsServer
<1>10. CASE SetOracle
  <2>1. forms[tab] \in ServiceConfig
    BY <1>0 DEF SettingsShape
  <2>2. PICK c \in ServiceConfig : forms' = [forms EXCEPT ![tab] = c] /\ (c.secret = Mask => forms[tab].secret = Mask)
    <3>1. ASSUME NEW sec \in {NoSecret, "typed"}, forms' = [forms EXCEPT ![tab].secret = sec]
          PROVE  \E c \in ServiceConfig : forms' = [forms EXCEPT ![tab] = c] /\ (c.secret = Mask => forms[tab].secret = Mask)
      <4>1. [forms[tab] EXCEPT !.secret = sec] \in ServiceConfig /\ [forms[tab] EXCEPT !.secret = sec].secret = sec
        BY <2>1 DEF ServiceConfig
      <4>2. sec # Mask
        BY DEF NoSecret, Mask
      <4>3. forms' = [forms EXCEPT ![tab] = [forms[tab] EXCEPT !.secret = sec]]
        BY <3>1
      <4> QED
        BY <4>1, <4>2, <4>3
    <3>2. ASSUME forms' = [forms EXCEPT ![tab].filled = TRUE]
          PROVE  \E c \in ServiceConfig : forms' = [forms EXCEPT ![tab] = c] /\ (c.secret = Mask => forms[tab].secret = Mask)
      <4>1. [forms[tab] EXCEPT !.filled = TRUE] \in ServiceConfig /\ [forms[tab] EXCEPT !.filled = TRUE].secret = forms[tab].secret
        BY <2>1 DEF ServiceConfig
      <4>2. forms' = [forms EXCEPT ![tab] = [forms[tab] EXCEPT !.filled = TRUE]]
        BY <3>2
      <4> QED
        BY <4>1, <4>2
    <3> QED
      BY <1>10, <3>1, <3>2 DEF SetOracle
  <2>3. SettingsShape'
    BY <1>0, <1>10, <2>2 DEF SetOracle, SettingsShape, settingsServer, keptVars
  <2>4. FormsKept'
    BY <1>0, <1>10, <2>2, <1>f DEF SetOracle, SettingsInv, SettingsShape, FormsKept, settingsServer
  <2>5. AnswersKept'
    BY <1>10, <1>f DEF SetOracle, SettingsInv, AnswersKept, settingsServer
  <2> QED
    BY <1>10, <2>3, <2>4, <2>5, <1>p DEF SetOracle, settingsServer
<1>11. ASSUME UNCHANGED <<keptVars, tokenOk, tab, forms, configAsks>>,
              saving' \in {saving, NothingSent, FormSent}, testing' \in {testing, NothingSent, FormSent},
              testResult' \in {testResult, NoTest}
       PROVE  SettingsInv'
  <2>1. SettingsShape'
    BY <1>0, <1>11, <1>g DEF SettingsShape, keptVars
  <2>2. FormsKept' /\ AnswersKept'
    BY <1>11, <1>f DEF SettingsInv, FormsKept, AnswersKept
  <2> QED
    BY <1>11, <2>1, <2>2, <1>p
<1>12. CASE SaveActive \/ SaveAnswered \/ SavedExpires \/ TestConnection
  BY <1>11, <1>12 DEF SaveActive, SaveAnswered, SavedExpires, TestConnection, settingsServer
<1>13. CASE TestAnswered
  <2>1. /\ UNCHANGED <<keptVars, tokenOk, tab, forms, configAsks, saving>> /\ testing' = NothingSent
        /\ testing.st \in {"ok", "refused"}
        /\ testResult' = [service |-> testing.service, secret |-> IF testing.st = "ok" THEN testing.body.secret ELSE NoSecret]
    BY <1>13 DEF TestAnswered, settingsServer
  <2>2. SettingsShape'
    BY <1>0, <2>1 DEF SettingsShape, keptVars
  <2>3. FormsKept' /\ AnswersKept' /\ SentKept(saving)'
    BY <2>1, <1>f DEF SettingsInv, FormsKept, AnswersKept, SentKept
  <2>4. SentKept(testing)' /\ TestedKept'
    BY <2>1 DEF SentKept, TestedKept, NothingSent
  <2>5. MaskIsNoSecret'
    BY <2>1, <1>f DEF SettingsInv, MaskIsNoSecret, TestedKept, Mask, NoSecret, keptVars
  <2> QED
    BY <2>1, <2>2, <2>3, <2>4, <2>5, <1>f DEF SettingsInv
<1>14. CASE UNCHANGED settingsVars
  BY <1>11, <1>14 DEF settingsVars, settingsServer, settingsPage
<1>15. CASE RestartForgets
  <2>1. UNCHANGED <<stored, erased, blind, tokenOk, tab, forms, testResult>> /\ memory' = [s \in Services |-> Blank]
    BY <1>15 DEF RestartForgets
  <2>2. Excused' = Excused /\ \A s : SecretKept(s)' <=> SecretKept(s)
    BY <2>1 DEF Excused, SecretKept
  <2>3. \A s \in Services : memory'[s] \in ServiceConfig /\ memory'[s].secret = NoSecret /\ NoSecret # Mask
    BY <2>1 DEF Blank, ServiceConfig, NoSecret, Mask
  <2>4. \A o \in {NothingSent} \cup SentConfig :
          /\ CutOff(o) \in {NothingSent} \cup SentConfig /\ CutOff(o).st # "sent"
          /\ CutOff(o).st = "ok" => CutOff(o) = o
    BY DEF CutOff, SentConfig, NothingSent
  <2>5. /\ saving' \in {NothingSent} \cup SentConfig /\ saving'.st # "sent"
        /\ testing' \in {NothingSent} \cup SentConfig /\ testing'.st # "sent" /\ (testing'.st = "ok" => testing' = testing)
    BY <1>0, <1>15, <2>4 DEF RestartForgets, SettingsShape
  <2>6. \A b \in configAsks' : b \in configAsks \/ (b \in [ok : BOOLEAN, answer : ConfigAnswer] /\ b.answer.st = "refused")
    <3> SUFFICES ASSUME NEW a \in configAsks
                 PROVE  LET b == [a EXCEPT !.answer = [st |-> "refused"]]
                        IN b \in [ok : BOOLEAN, answer : ConfigAnswer] /\ b.answer.st = "refused"
      BY <1>15 DEF RestartForgets
    <3>1. a \in [ok : BOOLEAN, answer : ConfigAnswer] /\ [st |-> "refused"] \in ConfigAnswer
      BY <1>0 DEF SettingsShape, ConfigAnswer
    <3> QED
      BY <3>1
  <2>7. SettingsShape'
    BY <1>0, <2>1, <2>3, <2>5, <2>6 DEF SettingsShape
  <2>8. FormsKept' /\ AnswersKept' /\ MemoryKept'
    BY <2>1, <2>2, <2>3, <2>6 DEF SettingsInv, FormsKept, AnswersKept, MemoryKept
  <2>9. SentKept(saving)' /\ SentKept(testing)' /\ TestedKept' /\ MaskIsNoSecret'
    BY <2>1, <2>2, <2>3, <2>5 DEF SettingsInv, SentKept, TestedKept, MaskIsNoSecret
  <2> QED
    BY <2>7, <2>8, <2>9 DEF SettingsInv
<1> QED
  BY <1>1, <1>2, <1>3, <1>4, <1>5, <1>6, <1>7, <1>8, <1>9, <1>10, <1>12, <1>13, <1>14, <1>15 DEF SettingsNext

(* config.py, SettingsModal.tsx: in whatever order the forms are loaded,    *)
(* changed, saved and tested, by however many operators, whatever the       *)
(* coordinator forgets, the mask is stored, remembered or tried as a secret *)
(* only after a form with an empty secret was saved, or a form was saved or *)
(* tested while the State DB failed.                                        *)
THEOREM MaskIsNoSecretHolds == SettingsSpec => []MaskIsNoSecret
<1>1. SettingsInv => MaskIsNoSecret
  BY DEF SettingsInv
<1> QED
  BY <1>1, SettingsInvInit, SettingsInvStep, PTL DEF SettingsSpec

-----------------------------------------------------------------------------
(***************************************************************************)
(* The browser of source tables (SourceBrowser).                           *)
(***************************************************************************)
BrowserInv ==
  /\ BrowserTypeOK
  /\ listing \in {"loading", "done"} => sourceSchema \in BrowserSchemas
  /\ listing = "done" => listed.tables = Catalogue[sourceSchema]
  /\ SentBelongsToSchema

LEMMA BrowserStepInv == BrowserInv /\ [BrowserNext]_browserVars => BrowserInv'
<1> SUFFICES ASSUME BrowserInv, [BrowserNext]_browserVars PROVE BrowserInv'
  OBVIOUS
<1> USE DEF BrowserInv, BrowserTypeOK, SentBelongsToSchema
<1>1. \A s \in BrowserSchemas : Catalogue[s] \subseteq AllTables
  BY DEF AllTables
<1>2. ASSUME NEW s \in BrowserSchemas, ChooseSource(s) \/ ChooseTarget(s) PROVE BrowserInv'
  BY <1>2 DEF ChooseSource, ChooseTarget
<1>3. CASE ReloadTables
  BY <1>3 DEF ReloadTables
<1>4. CASE LandTables
  BY <1>1, <1>4 DEF LandTables
<1>5. CASE TablesFail
  BY <1>5 DEF TablesFail
<1>6. CASE ToggleVisible
  BY <1>6 DEF ToggleVisible, Filtered, Tables
<1>7. CASE SendTables
  <2> DEFINE drawn == listing = "done"
  <2>1. sending' = [st |-> "sent", schema |-> sourceSchema, tables |-> picked \cap listed.tables, drawn |-> drawn]
    BY <1>7 DEF SendTables, SelectedSource, Tables
  <2>2. drawn \in BOOLEAN /\ (drawn => listed.tables = Catalogue[sourceSchema])
    OBVIOUS
  <2> HIDE DEF drawn
  <2>3. SentBelongsToSchema'
    BY <2>1, <2>2
  <2>4. sends' \in 0..MaxSend
    BY <1>7, BrowserAssumption DEF SendTables
  <2> QED
    BY <1>7, <2>3, <2>4 DEF SendTables
<1>8. ASSUME NEW q \in SUBSET AllTables, SearchTables(q) PROVE BrowserInv'
  BY <1>8 DEF SearchTables
<1>9. ASSUME NEW t \in AllTables, ToggleTable(t) PROVE BrowserInv'
  BY <1>9 DEF ToggleTable
<1>10. ASSUME NEW ok \in BOOLEAN, SendAnswered(ok) PROVE BrowserInv'
  BY <1>10 DEF SendAnswered, NoRequest
<1>11. CASE UNCHANGED browserVars
  BY <1>11 DEF browserVars
<1> QED
  BY <1>2, <1>3, <1>4, <1>5, <1>6, <1>7, <1>8, <1>9, <1>10, <1>11 DEF BrowserNext

(* BrowserInv is an inductive invariant of the browser of source tables.   *)
THEOREM BrowserAlways == BrowserSpec => []BrowserInv
<1>1. BrowserInit => BrowserInv
  BY BrowserAssumption DEF BrowserInit, BrowserInv, BrowserTypeOK, SentBelongsToSchema, NoRequest
<1> QED
  BY <1>1, BrowserStepInv, PTL DEF BrowserSpec

(* SourceTablesBrowser.tsx: the fields and the count keep their ranges.    *)
THEOREM BrowserTypeCorrect == BrowserSpec => []BrowserTypeOK
<1>1. BrowserInv => BrowserTypeOK
  BY DEF BrowserInv
<1> QED
  BY <1>1, BrowserAlways, PTL

(* However the schemas, the searches and the answers follow one another, a *)
(* request sent from a drawn list names tables of its own schema.          *)
THEOREM SentBelongsToSchemaHolds == BrowserSpec => []SentBelongsToSchema
<1>1. BrowserInv => SentBelongsToSchema
  BY DEF BrowserInv
<1> QED
  BY <1>1, BrowserAlways, PTL

-----------------------------------------------------------------------------
(***************************************************************************)
(* The card of a CDC pack (CdcPackCard).  What is drawn as the card of a   *)
(* pack, and every answer on its way, holds tables of that pack only.      *)
(***************************************************************************)

OfPack(g, tables) == g \in Packs \cup {NoPack} /\ (g \in Packs => tables \subseteq PackTables[g])
PackSets == {f \in [Packs -> SUBSET AnyTable] : \A g \in Packs : f[g] \subseteq PackTables[g]}
CardAskOK(a) ==
  /\ {"group", "answer"} \subseteq DOMAIN a /\ a.group \in Packs
  /\ a.answer # Pending /\ a.answer.st = "ok" => a.answer.tables \subseteq PackTables[a.group]
CompareAskOK(a) ==
  /\ {"group", "answer"} \subseteq DOMAIN a /\ a.group \in Packs
  /\ a.answer # Pending => a.answer.group \in Packs \cup {NoPack}
OrderOK(o) ==
  /\ {"kind", "group", "table"} \subseteq DOMAIN o /\ o.group \in Packs
  /\ o.kind = "remove" => o.table \in PackTables[o.group]

CardShape ==
  /\ existing \subseteq Packs /\ listedPacks \subseteq Packs /\ expanded \in Packs \cup {NoPack}
  /\ members \in PackSets /\ working \in PackSets /\ captured \in PackSets
  /\ OfPack(card.group, card.tables) /\ compared.group \in Packs \cup {NoPack}
CardAsksOK ==
  IsFiniteSet(cardAsks) /\ Cardinality(cardAsks) <= MaxCardAsk /\ \A a \in cardAsks : CardAskOK(a)
CompareAsksOK ==
  IsFiniteSet(compareAsks) /\ Cardinality(compareAsks) <= MaxCompare /\ \A a \in compareAsks : CompareAskOK(a)
OrdersOK == \A o \in orders : OrderOK(o)

CardInv == CardShape /\ CardAsksOK /\ CompareAsksOK /\ OrdersOK

LEMMA AskCardKeeps ==
  ASSUME CardAsksOK, NEW g \in Packs, NEW how, AskCard(g, how)
  PROVE  CardAsksOK'
<1> DEFINE a == [group |-> g, how |-> how, answer |-> Pending]
<1>1. CardAskOK(a)
  BY DEF CardAskOK
<1>2. cardAsks' = IF Cardinality(cardAsks) < MaxCardAsk THEN cardAsks \cup {a} ELSE cardAsks
  BY DEF AskCard
<1> HIDE DEF a
<1>3. /\ Cardinality(cardAsks) \in Nat /\ IsFiniteSet(cardAsks \cup {a})
      /\ Cardinality(cardAsks \cup {a}) \in Nat /\ Cardinality(cardAsks \cup {a}) <= Cardinality(cardAsks) + 1
  BY AddedSize DEF CardAsksOK
<1> QED
  BY <1>1, <1>2, <1>3, CardAssumption DEF CardAsksOK, CardAskOK

LEMMA CompareKeeps ==
  ASSUME CompareAsksOK, NEW g \in Packs, Compare(g)
  PROVE  CompareAsksOK' /\ compared'.group \in Packs \cup {NoPack}
<1> DEFINE a == [group |-> g, answer |-> Pending]
<1>1. CompareAskOK(a)
  BY DEF CompareAskOK
<1>2. compareAsks' = IF Cardinality(compareAsks) < MaxCompare THEN compareAsks \cup {a} ELSE compareAsks
  BY DEF Compare
<1> HIDE DEF a
<1>3. /\ Cardinality(compareAsks) \in Nat /\ IsFiniteSet(compareAsks \cup {a})
      /\ Cardinality(compareAsks \cup {a}) \in Nat /\ Cardinality(compareAsks \cup {a}) <= Cardinality(compareAsks) + 1
  BY AddedSize DEF CompareAsksOK
<1>4. CompareAsksOK'
  BY <1>1, <1>2, <1>3, CardAssumption DEF CompareAsksOK, CompareAskOK
<1>5. compared'.group \in Packs \cup {NoPack}
  BY DEF Compare, NotCompared
<1> QED
  BY <1>4, <1>5

LEMMA CardRequestsStep ==
  ASSUME CardInv, \/ \E g \in Packs : ToggleExpand(g)
                  \/ \E a \in cardAsks : ServeCard(a) \/ LandCard(a)
                  \/ \E a \in compareAsks : ServeCompare(a) \/ LandCompare(a)
                  \/ LoadPacks \/ SeePackEvent
  PROVE  CardInv'
<1> USE DEF packServer
<1>1. ASSUME NEW g \in Packs, ToggleExpand(g) PROVE CardInv'
  <2>1. CASE expanded = g
    BY <1>1, <2>1 DEF ToggleExpand, CardInv, CardShape, OfPack, NoCard, NotCompared, CardAsksOK, CardAskOK,
       CompareAsksOK, CompareAskOK, OrdersOK, OrderOK
  <2>2. CASE expanded # g
    <3>1. CardAsksOK'
      BY <1>1, <2>2, AskCardKeeps DEF ToggleExpand, CardInv
    <3> QED
      BY <1>1, <2>2, <3>1 DEF ToggleExpand, CardInv, CardShape, OfPack, CompareAsksOK, CompareAskOK, OrdersOK, OrderOK
  <2> QED
    BY <2>1, <2>2
<1>2. ASSUME NEW a \in cardAsks, ServeCard(a) PROVE CardInv'
  <2> DEFINE answer == IF a.group \in existing
                         THEN [st |-> "ok", tables |-> members[a.group], working |-> working[a.group]]
                         ELSE [st |-> "gone"]
             b == [a EXCEPT !.answer = answer]
  <2>1. cardAsks' = (cardAsks \ {a}) \cup {b}
    BY <1>2 DEF ServeCard
  <2>2. CardAskOK(a) /\ members \in PackSets
    BY DEF CardInv, CardShape, CardAsksOK
  <2>3. answer.st = "ok" => answer.tables \subseteq PackTables[a.group]
    BY <2>2 DEF CardAskOK, PackSets
  <2> HIDE DEF answer
  <2>4. CardAskOK(b)
    BY <2>2, <2>3 DEF CardAskOK
  <2> HIDE DEF b
  <2>5. CardAsksOK'
    BY <2>1, <2>4, ReplacedSize, CardAssumption DEF CardInv, CardAsksOK, CardAskOK
  <2> QED
    BY <1>2, <2>5 DEF ServeCard, CardInv, CardShape, OfPack, CompareAsksOK, CompareAskOK, OrdersOK, OrderOK
<1>3. ASSUME NEW a \in cardAsks, LandCard(a) PROVE CardInv'
  <2>1. CardAskOK(a)
    BY DEF CardInv, CardAsksOK
  <2>2. CardAsksOK'
    BY <1>3, ReplacedSize, CardAssumption DEF LandCard, CardInv, CardAsksOK, CardAskOK
  <2>3. OfPack(card'.group, card'.tables)
    BY <1>3, <2>1 DEF LandCard, CardInv, CardShape, OfPack, CardAskOK, NoCard
  <2>4. CompareAsksOK' /\ compared'.group \in Packs \cup {NoPack}
    <3>1. CASE Compare(a.group)
      BY <2>1, <3>1, CompareKeeps DEF CardInv, CardAskOK
    <3>2. CASE UNCHANGED <<compared, compareAsks>>
      BY <3>2 DEF CardInv, CardShape, CompareAsksOK, CompareAskOK
    <3> QED
      BY <1>3, <3>1, <3>2 DEF LandCard
  <2> QED
    BY <1>3, <2>2, <2>3, <2>4 DEF LandCard, CardInv, CardShape, OfPack, OrdersOK, OrderOK
<1>4. ASSUME NEW a \in compareAsks, ServeCompare(a) PROVE CardInv'
  <2> DEFINE answer == IF a.group \in existing
                         THEN [group |-> a.group, missing |-> members[a.group] \ captured[a.group],
                               extra |-> captured[a.group] \ members[a.group]]
                         ELSE NotCompared
             b == [a EXCEPT !.answer = answer]
  <2>1. compareAsks' = (compareAsks \ {a}) \cup {b}
    BY <1>4 DEF ServeCompare
  <2>2. CompareAskOK(a)
    BY DEF CardInv, CompareAsksOK
  <2>3. answer.group \in Packs \cup {NoPack}
    BY <2>2 DEF CompareAskOK, NotCompared
  <2> HIDE DEF answer
  <2>4. CompareAskOK(b)
    BY <2>2, <2>3 DEF CompareAskOK
  <2> HIDE DEF b
  <2>5. CompareAsksOK'
    BY <2>1, <2>4, ReplacedSize, CardAssumption DEF CardInv, CompareAsksOK, CompareAskOK
  <2> QED
    BY <1>4, <2>5 DEF ServeCompare, CardInv, CardShape, OfPack, CardAsksOK, CardAskOK, OrdersOK, OrderOK
<1>5. ASSUME NEW a \in compareAsks, LandCompare(a) PROVE CardInv'
  <2>1. CompareAskOK(a)
    BY DEF CardInv, CompareAsksOK
  <2>2. CompareAsksOK'
    BY <1>5, ReplacedSize, CardAssumption DEF LandCompare, CardInv, CompareAsksOK, CompareAskOK
  <2> QED
    BY <1>5, <2>1, <2>2 DEF LandCompare, CardInv, CardShape, OfPack, CompareAskOK, CardAsksOK, CardAskOK, OrdersOK, OrderOK
<1>6. CASE LoadPacks
  BY <1>6 DEF LoadPacks, CardInv, CardShape, OfPack, CardAsksOK, CardAskOK, CompareAsksOK, CompareAskOK, OrdersOK, OrderOK
<1>7. CASE SeePackEvent
  <2>1. CardAsksOK' /\ CompareAsksOK' /\ compared'.group \in Packs \cup {NoPack}
    <3>1. CASE expanded # NoPack
      BY <1>7, <3>1, AskCardKeeps, CompareKeeps DEF SeePackEvent, CardInv, CardShape
    <3>2. CASE expanded = NoPack
      BY <1>7, <3>2 DEF SeePackEvent, CardInv, CardShape, CardAsksOK, CardAskOK, CompareAsksOK, CompareAskOK
    <3> QED
      BY <3>1, <3>2
  <2> QED
    BY <1>7, <2>1 DEF SeePackEvent, CardInv, CardShape, OfPack, OrdersOK, OrderOK
<1> QED
  BY <1>1, <1>2, <1>3, <1>4, <1>5, <1>6, <1>7

\* What an order does to the page is asked for again, or closed.
LEMMA OrdersStep ==
  ASSUME CardInv, \/ \E g \in Packs : SyncClicked(g) \/ DeleteClicked(g)
                  \/ \E g \in Packs, tb \in AnyTable : RemoveTableClicked(g, tb)
                  \/ \E o \in orders : ServeRemove(o) \/ ServeSync(o) \/ ServeDelete(o) \/ OrderAnswered(o)
                  \/ \E o \in orders, yes \in BOOLEAN : ForceAnswered(o, yes)
                  \/ PackChanges
  PROVE  CardInv'
<1> USE DEF packServer

<1>1. ASSUME NEW g \in Packs, NEW o, OrderOK(o), Order(o) PROVE CardInv'
  <2> DEFINE b == [o EXCEPT !.n = ordered]
  <2>1. OrderOK(b)
    BY <1>1 DEF OrderOK
  <2>2. orders' = orders \cup {b}
    BY <1>1 DEF Order
  <2> HIDE DEF b
  <2>3. OrdersOK'
    BY <2>1, <2>2 DEF CardInv, OrdersOK, OrderOK
  <2> QED
    BY <1>1, <2>3 DEF Order, CardInv, CardShape, OfPack, CardAsksOK, CardAskOK, CompareAsksOK, CompareAskOK
<1>2. ASSUME NEW g \in Packs, SyncClicked(g) \/ DeleteClicked(g) PROVE CardInv'
  <2> DEFINE s == [kind |-> "sync", group |-> g, table |-> "none", opened |-> expanded, st |-> "sent", n |-> 0]
             d == [kind |-> "delete", group |-> g, table |-> "none", opened |-> expanded, st |-> "sent", n |-> 0]
  <2>1. OrderOK(s) /\ OrderOK(d)
    BY DEF OrderOK
  <2>2. Order(s) \/ Order(d)
    BY <1>2 DEF SyncClicked, DeleteClicked
  <2> HIDE DEF s, d
  <2> QED
    BY <1>1, <2>1, <2>2
<1>3. ASSUME NEW g \in Packs, NEW tb \in AnyTable, RemoveTableClicked(g, tb) PROVE CardInv'
  <2> DEFINE r == [kind |-> "remove", group |-> g, table |-> tb, opened |-> expanded, st |-> "sent", n |-> 0]
  <2>1. tb \in PackTables[g]
    BY <1>3 DEF RemoveTableClicked, Drawn, Removable, CardInv, CardShape, OfPack
  <2>2. OrderOK(r) /\ Order(r)
    BY <1>3, <2>1 DEF OrderOK, RemoveTableClicked
  <2> HIDE DEF r
  <2> QED
    BY <1>1, <2>2
<1>4. ASSUME NEW o \in orders, NEW st, Answer(o, st) PROVE OrdersOK'
  <2> DEFINE b == [o EXCEPT !.st = st]
  <2>1. OrderOK(o)
    BY DEF CardInv, OrdersOK
  <2>2. OrderOK(b)
    BY <2>1 DEF OrderOK
  <2>3. orders' = (orders \ {o}) \cup {b}
    BY <1>4 DEF Answer
  <2> HIDE DEF b
  <2> QED
    BY <2>2, <2>3 DEF CardInv, OrdersOK, OrderOK
<1>5. ASSUME NEW o \in orders, ServeRemove(o) \/ ServeSync(o) \/ ServeDelete(o)
      PROVE  /\ OrdersOK' /\ existing' \subseteq Packs
             /\ members' \in PackSets /\ working' \in PackSets /\ captured' \in PackSets
  <2>1. OrdersOK'
    BY <1>4, <1>5 DEF ServeRemove, ServeSync, ServeDelete
  <2>2. o.group \in Packs /\ members \in PackSets /\ working \in PackSets /\ captured \in PackSets
    BY DEF CardInv, CardShape, OrdersOK, OrderOK
  <2>3. CASE ServeRemove(o)
    <3>1. members' \in {members, [members EXCEPT ![o.group] = @ \ {o.table}]} /\ UNCHANGED <<working, existing>>
      BY <2>3 DEF ServeRemove
    <3>2. members' \in PackSets
      BY <2>2, <3>1 DEF PackSets
    <3>3. captured' \in {captured, [captured EXCEPT ![o.group] = members'[o.group]]}
      BY <2>3 DEF ServeRemove
    <3>4. captured' \in PackSets
      BY <2>2, <3>2, <3>3 DEF PackSets
    <3> QED
      BY <2>1, <2>2, <3>1, <3>2, <3>4 DEF CardInv, CardShape
  <2>4. CASE ServeSync(o)
    <3>1. captured' \in {captured, [captured EXCEPT ![o.group] = members[o.group]]}
      BY <2>4 DEF ServeSync
    <3>2. captured' \in PackSets
      BY <2>2, <3>1 DEF PackSets
    <3> QED
      BY <2>1, <2>2, <2>4, <3>2 DEF ServeSync, CardInv, CardShape
  <2>5. CASE ServeDelete(o)
    <3>1. ASSUME NEW f \in PackSets PROVE [f EXCEPT ![o.group] = {}] \in PackSets
      BY <2>2, <3>1 DEF PackSets
    <3> QED
      BY <2>1, <2>2, <2>5, <3>1 DEF ServeDelete, CardInv, CardShape
  <2> QED
    BY <1>5, <2>3, <2>4, <2>5
<1>6. ASSUME NEW o \in orders, ServeRemove(o) \/ ServeSync(o) \/ ServeDelete(o) PROVE CardInv'
  <2>1. UNCHANGED <<listedPacks, expanded, card, cardAsks, compared, compareAsks>>
    BY <1>6 DEF ServeRemove, ServeSync, ServeDelete
  <2> QED
    BY <1>5, <1>6, <2>1 DEF CardInv, CardShape, OfPack, CardAsksOK, CardAskOK, CompareAsksOK, CompareAskOK
<1>7. ASSUME NEW o \in orders, OrderAnswered(o) PROVE CardInv'
  <2>1. o.group \in Packs
    BY DEF CardInv, OrdersOK, OrderOK
  <2>2. CardAsksOK'
    <3>1. CASE UNCHANGED cardAsks
      BY <3>1 DEF CardInv, CardAsksOK, CardAskOK
    <3>2. CASE \E how : AskCard(o.group, how)
      BY <2>1, <3>2, AskCardKeeps DEF CardInv
    <3> QED
      BY <1>7, <3>1, <3>2 DEF OrderAnswered
  <2>3. CompareAsksOK' /\ compared'.group \in Packs \cup {NoPack}
    <3>1. CASE UNCHANGED <<compared, compareAsks>>
      BY <3>1 DEF CardInv, CardShape, CompareAsksOK, CompareAskOK
    <3>2. CASE Compare(o.group)
      BY <2>1, <3>2, CompareKeeps DEF CardInv
    <3> QED
      BY <1>7, <3>1, <3>2 DEF OrderAnswered
  <2> QED
    BY <1>7, <2>2, <2>3 DEF OrderAnswered, CardInv, CardShape, OfPack, NoCard, OrdersOK, OrderOK
<1>8. ASSUME NEW o \in orders, NEW yes \in BOOLEAN, ForceAnswered(o, yes) PROVE CardInv'
  <2> DEFINE f == [o EXCEPT !.kind = "force"]
             b == [f EXCEPT !.st = "sent"]
  <2>1. OrderOK(o)
    BY DEF CardInv, OrdersOK
  <2>2. OrderOK(f)
    BY <2>1 DEF OrderOK
  <2>3. orders' \subseteq (orders \ {o}) \cup {b}
    BY <1>8 DEF ForceAnswered
  <2> HIDE DEF f
  <2>4. OrderOK(b)
    BY <2>2 DEF OrderOK
  <2> HIDE DEF b
  <2>5. OrdersOK'
    BY <2>3, <2>4 DEF CardInv, OrdersOK, OrderOK
  <2> QED
    BY <1>8, <2>5 DEF ForceAnswered, CardInv, CardShape, OfPack, CardAsksOK, CardAskOK, CompareAsksOK, CompareAskOK
<1>9. CASE PackChanges
  <2>1. PICK g \in existing, tb \in AnyTable :
           \/ /\ tb \in PackTables[g] \ working[g]
              /\ members' = [members EXCEPT ![g] = @ \cup {tb}] /\ working' = [working EXCEPT ![g] = @ \cup {tb}]
           \/ tb \in working[g] /\ working' = [working EXCEPT ![g] = @ \ {tb}] /\ UNCHANGED members
    BY <1>9 DEF PackChanges
  <2>2. g \in Packs /\ members \in PackSets /\ working \in PackSets
    BY DEF CardInv, CardShape
  <2>3. members' \in PackSets /\ working' \in PackSets
    BY <2>1, <2>2 DEF PackSets
  <2> QED
    BY <1>9, <2>3 DEF PackChanges, CardInv, CardShape, OfPack, CardAsksOK, CardAskOK, CompareAsksOK, CompareAskOK,
       OrdersOK, OrderOK
<1> QED
  BY <1>2, <1>3, <1>6, <1>7, <1>8, <1>9

LEMMA CardStepInv == CardInv /\ [CardNext]_cardVars => CardInv'
<1> SUFFICES ASSUME CardInv, [CardNext]_cardVars PROVE CardInv'
  OBVIOUS
<1>1. CASE UNCHANGED cardVars
  BY <1>1 DEF cardVars, packServer, CardInv, CardShape, OfPack, CardAsksOK, CardAskOK, CompareAsksOK, CompareAskOK,
     OrdersOK, OrderOK
<1> QED
  BY <1>1, CardRequestsStep, OrdersStep DEF CardNext

(* CardInv is an inductive invariant of the page of the CDC packs.         *)
THEOREM CardAlways == CardSpec => []CardInv
<1>1. CardInit => CardInv
  <2> SUFFICES ASSUME CardInit PROVE CardInv
    OBVIOUS
  <2>1. \A g \in Packs : PackTables[g] \subseteq AnyTable
    BY DEF AnyTable
  <2>2. PackTables \in PackSets
    <3>1. PackTables = [g \in Packs |-> PackTables[g]]
      BY CardAssumption DEF Packs
    <3> QED
      BY <2>1, <3>1 DEF PackSets
  <2>3. CardShape
    BY <2>2 DEF CardInit, CardShape, PackSets, OfPack, NoCard, NotCompared
  <2> QED
    BY <2>3, CardAssumption, FS_EmptySet DEF CardInit, CardInv, CardAsksOK, CompareAsksOK, OrdersOK
<1> QED
  BY <1>1, CardStepInv, PTL DEF CardSpec

(* ConnectorGroupsPanel: the card, the comparison and the requests for     *)
(* them are of packs there are, and no more requests than allowed.         *)
THEOREM CardTypeCorrect == CardSpec => []CardTypeOK
<1>1. CardInv => CardTypeOK
  BY DEF CardInv, CardShape, PackSets, OfPack, CardAsksOK, CompareAsksOK, CardTypeOK
<1> QED
  BY <1>1, CardAlways, PTL

(* A removal names a table of the pack it is sent to, however late the     *)
(* answers are and whatever is opened meanwhile.                           *)
THEOREM RemovesOwnTableHolds == CardSpec => []RemovesOwnTable
<1>1. CardInv => RemovesOwnTable
  BY DEF CardInv, OrdersOK, OrderOK, RemovesOwnTable
<1> QED
  BY <1>1, CardAlways, PTL

-----------------------------------------------------------------------------
(***************************************************************************)
(* The banner that loads a snapshot (SnapshotBanner).  What this page was  *)
(* told it has loaded is committed, and every answer that has been served  *)
(* is at least as new: being told replaces the request.                    *)
(***************************************************************************)
SnapshotLoad == [pair : SchemaPairs, id : Nat, own : BOOLEAN, st : {"sent", "begun", "ok", "failed", "answered"}]
SnapshotQuery == [of : SchemaPairs, id : Nat, st : {"asked", "served"}]

BannerShape ==
  /\ latest \in [SchemaPairs -> Nat] /\ mine \in [SchemaPairs -> Nat] /\ pair \in SchemaPairs
  /\ IsFiniteSet(loads) /\ loads \subseteq SnapshotLoad
  /\ shownSnapshot \in [of : SchemaPairs, id : Nat] /\ (query = NoSnapshotQuery \/ query \in SnapshotQuery)
ToldIsCommitted ==
  /\ \A p \in SchemaPairs : mine[p] <= latest[p]
  /\ \A l \in loads : l.st = "ok" => l.id <= latest[l.pair]
AnswerIsNew ==
  query # NoSnapshotQuery => /\ query.st = "served" => query.id >= mine[query.of]
                             /\ query.of = pair \/ crossed
BannerInv == BannerShape /\ ToldIsCommitted /\ AnswerIsNew /\ SnapshotIsShown

\* Every set of numbers that is finite and not empty has a greatest one.
LEMMA FiniteHasMax ==
  ASSUME NEW S \in SUBSET Nat, S # {}, IsFiniteSet(S)
  PROVE  Max(S) \in S /\ \A y \in S : Max(S) >= y
<1> DEFINE HasMax(T) == \E x \in T : \A y \in T : x >= y
           Bad == {n \in Nat : \E T \in SUBSET Nat : T # {} /\ IsFiniteSet(T) /\ Cardinality(T) = n /\ ~HasMax(T)}
<1>1. Bad = {}
  <2> SUFFICES ASSUME Bad # {} PROVE FALSE
    OBVIOUS
  <2>1. PICK n \in Bad : \A k \in Bad : ~(<<k, n>> \in OpToRel(<, Nat))
    <3>1. Bad \subseteq Nat
      OBVIOUS
    <3> HIDE DEF Bad
    <3> QED
      BY <3>1, NatLessThanWellFounded, WFMin
  <2>2. \A k \in Bad : ~(k < n)
    BY <2>1 DEF OpToRel
  <2>3. PICK T \in SUBSET Nat : T # {} /\ IsFiniteSet(T) /\ Cardinality(T) = n /\ ~HasMax(T)
    OBVIOUS
  <2>4. PICK a \in T : TRUE
    BY <2>3
  <2>5. IsFiniteSet(T \ {a}) /\ Cardinality(T \ {a}) = n - 1 /\ n - 1 \in Nat
    <3>1. n \in Nat /\ n # 0
      BY <2>3, FS_EmptySet
    <3>2. IsFiniteSet(T \ {a}) /\ Cardinality(T \ {a}) = n - 1
      BY <2>3, <2>4, FS_RemoveElement
    <3> QED
      BY <3>1, <3>2
  <2>6. CASE T \ {a} = {}
    BY <2>3, <2>4, <2>6
  <2>7. CASE T \ {a} # {}
    <3>1. PICK b \in T \ {a} : \A y \in T \ {a} : b >= y
      <4>1. n - 1 < n /\ n - 1 \notin Bad
        <5>1. n \in Nat /\ n - 1 < n
          OBVIOUS
        <5> HIDE DEF Bad
        <5> QED
          BY <2>2, <5>1
      <4> QED
        BY <2>3, <2>5, <2>7, <4>1
    <3> QED
      BY <2>3, <2>4, <3>1
  <2> QED
    BY <2>6, <2>7
<1>2. HasMax(S)
  <2>1. Cardinality(S) \in Nat
    BY FS_CardinalityType
  <2> QED
    BY <1>1, <2>1
<1> QED
  BY <1>2 DEF Max

\* The number of a new snapshot.
LEMMA NextIdIsNat ==
  ASSUME BannerInv
  PROVE  1 + Max(Begun) \in Nat
<1> DEFINE taken == {k \in loads : k.id > 0}
           ids == {l.id : l \in taken}
           firsts == {latest[p] : p \in SchemaPairs}
<1>1. IsFiniteSet(taken) /\ \A k \in taken : k.id \in Nat
  BY FS_Subset DEF BannerInv, BannerShape, SnapshotLoad
<1> HIDE DEF taken
<1>2. IsFiniteSet(ids)
  <2> DEFINE f == [l \in taken |-> l.id]
  <2>1. f \in Surjection(taken, ids)
    BY DEF Surjection
  <2> HIDE DEF f, ids
  <2> QED
    BY <1>1, <2>1, FS_Surjection
<1>3. IsFiniteSet(firsts) /\ firsts # {} /\ firsts \subseteq Nat
  <2> DEFINE f == [p \in SchemaPairs |-> latest[p]]
  <2>1. f \in Surjection(SchemaPairs, firsts)
    BY DEF Surjection
  <2>2. firsts # {} /\ firsts \subseteq Nat
    BY DEF BannerInv, BannerShape
  <2> HIDE DEF f, firsts
  <2> QED
    BY <2>1, <2>2, FS_Surjection, BannerAssumption
<1>4. ids \subseteq Nat
  BY <1>1
<1>5. Begun = ids \cup firsts
  BY DEF Begun, taken
<1> HIDE DEF ids, firsts
<1>6. Begun \in SUBSET Nat /\ Begun # {} /\ IsFiniteSet(Begun)
  BY <1>2, <1>3, <1>4, <1>5, FS_Union
<1>7. Max(Begun) \in Nat
  BY <1>6, FiniteHasMax
<1> QED
  BY <1>7

\* A load goes on.
LEMMA LoadsFacts ==
  ASSUME BannerShape, NEW l \in loads, NEW k \in SnapshotLoad, LoadBecomes(l, k)
  PROVE  IsFiniteSet(loads') /\ loads' \subseteq SnapshotLoad
<1>1. IsFiniteSet(loads \ {l})
  BY FS_RemoveElement DEF BannerShape
<1>2. IsFiniteSet((loads \ {l}) \cup {k})
  BY <1>1, FS_AddElement
<1> QED
  BY <1>2 DEF LoadBecomes, BannerShape

LEMMA BumpFacts ==
  ASSUME NEW f \in [SchemaPairs -> Nat], NEW p \in SchemaPairs, NEW n \in Nat
  PROVE  /\ Bump(f, p, n) \in [SchemaPairs -> Nat] /\ Bump(f, p, n)[p] >= n
         /\ \A q \in SchemaPairs : Bump(f, p, n)[q] >= f[q]
         /\ \A q \in SchemaPairs : q # p => Bump(f, p, n)[q] = f[q]
         /\ \A m \in Nat : n <= m /\ f[p] <= m => Bump(f, p, n)[p] <= m
  BY DEF Bump

\* The server goes on with a load.
LEMMA BannerServerStep ==
  ASSUME BannerInv, NEW l \in loads, ServerBegins(l) \/ ServerCommits(l) \/ ServerFails(l)
  PROVE  BannerInv'
<1>1. l \in SnapshotLoad
  BY DEF BannerInv, BannerShape
<1>2. UNCHANGED <<pair, shownSnapshot, query, mine, crossed, queryErr>>
  BY DEF ServerBegins, ServerCommits, ServerFails
<1>3. CASE ServerBegins(l)
  <2> DEFINE b == [l EXCEPT !.id = 1 + Max(Begun)]
             k == [b EXCEPT !.st = "begun"]
  <2>1. b \in SnapshotLoad
    BY <1>1, NextIdIsNat DEF SnapshotLoad
  <2>2. LoadBecomes(l, k) /\ UNCHANGED latest
    BY <1>3 DEF ServerBegins
  <2> HIDE DEF b
  <2>3. k \in SnapshotLoad /\ k.st = "begun"
    BY <2>1 DEF SnapshotLoad
  <2> HIDE DEF k
  <2>4. BannerShape'
    BY <1>2, <2>2, <2>3, LoadsFacts DEF BannerInv, BannerShape
  <2>5. ToldIsCommitted'
    BY <1>2, <2>2, <2>3 DEF BannerInv, ToldIsCommitted, LoadBecomes
  <2> QED
    BY <1>2, <2>4, <2>5 DEF BannerInv, AnswerIsNew, SnapshotIsShown
<1>4. CASE ServerCommits(l)
  <2> DEFINE k == [l EXCEPT !.st = "ok"]
  <2>1. k \in SnapshotLoad /\ k.id = l.id /\ k.pair = l.pair
    BY <1>1 DEF SnapshotLoad
  <2>2. LoadBecomes(l, k) /\ latest' = Bump(latest, l.pair, l.id)
    BY <1>4 DEF ServerCommits
  <2> HIDE DEF k
  <2>3. l.pair \in SchemaPairs /\ l.id \in Nat /\ latest \in [SchemaPairs -> Nat]
    BY <1>1 DEF SnapshotLoad, BannerInv, BannerShape
  <2>4. /\ latest' \in [SchemaPairs -> Nat] /\ latest'[l.pair] >= l.id
        /\ \A q \in SchemaPairs : latest'[q] >= latest[q]
    BY <2>2, <2>3, BumpFacts
  <2>5. BannerShape'
    BY <1>2, <2>1, <2>2, <2>4, LoadsFacts DEF BannerInv, BannerShape
  <2>6. ToldIsCommitted'
    <3>1. ASSUME NEW x \in loads', x.st = "ok" PROVE x.id <= latest'[x.pair]
      <4>1. x.pair \in SchemaPairs /\ x.id \in Nat
        BY <3>1, <2>5 DEF BannerShape, SnapshotLoad
      <4>2. CASE x = k
        BY <2>1, <2>4, <4>1, <4>2
      <4>3. CASE x \in loads
        <5>1. x.id <= latest[x.pair]
          BY <3>1, <4>3 DEF BannerInv, ToldIsCommitted
        <5> QED
          BY <2>3, <2>4, <4>1, <5>1
      <4> QED
        BY <2>2, <3>1, <4>2, <4>3 DEF LoadBecomes
    <3>2. ASSUME NEW p \in SchemaPairs PROVE mine'[p] <= latest'[p]
      <4>1. mine[p] <= latest[p] /\ mine[p] \in Nat
        BY DEF BannerInv, ToldIsCommitted, BannerShape
      <4> QED
        BY <1>2, <2>3, <2>4, <4>1
    <3> QED
      BY <3>1, <3>2 DEF ToldIsCommitted
  <2> QED
    BY <1>2, <2>5, <2>6 DEF BannerInv, AnswerIsNew, SnapshotIsShown
<1>5. CASE ServerFails(l)
  <2> DEFINE k == [l EXCEPT !.st = "failed"]
  <2>1. k \in SnapshotLoad /\ k.st = "failed"
    BY <1>1 DEF SnapshotLoad
  <2>2. LoadBecomes(l, k) /\ UNCHANGED latest
    BY <1>5 DEF ServerFails
  <2> HIDE DEF k
  <2>3. BannerShape'
    BY <1>2, <2>1, <2>2, LoadsFacts DEF BannerInv, BannerShape
  <2>4. ToldIsCommitted'
    BY <1>2, <2>1, <2>2 DEF BannerInv, ToldIsCommitted, LoadBecomes
  <2> QED
    BY <1>2, <2>3, <2>4 DEF BannerInv, AnswerIsNew, SnapshotIsShown
<1> QED
  BY <1>3, <1>4, <1>5

\* The answer of a load of this page: what it was told, it asks for.
LEMMA LoadAnsweredStep ==
  ASSUME BannerInv, NEW l \in loads, LoadAnswered(l)
  PROVE  BannerInv'
<1> DEFINE k == [l EXCEPT !.st = "answered"]
<1>1. l \in SnapshotLoad /\ l.pair \in SchemaPairs /\ l.id \in Nat
  BY DEF BannerInv, BannerShape, SnapshotLoad
<1>2. k \in SnapshotLoad /\ k.st = "answered"
  BY <1>1 DEF SnapshotLoad
<1>3. LoadBecomes(l, k) /\ UNCHANGED <<latest, pair, shownSnapshot, queryErr>>
  BY DEF LoadAnswered
<1> HIDE DEF k
<1>4. IsFiniteSet(loads') /\ loads' \subseteq SnapshotLoad
  BY <1>2, <1>3, LoadsFacts DEF BannerInv
<1>5. \A x \in loads' : x.st = "ok" => x.id <= latest'[x.pair]
  BY <1>2, <1>3 DEF BannerInv, ToldIsCommitted, LoadBecomes
<1>6. CASE l.st = "ok"
  <2>1. query' = [of |-> l.pair, id |-> 0, st |-> "asked"] /\ mine' = Bump(mine, l.pair, l.id)
    BY <1>6 DEF LoadAnswered, ReloadSnapshot
  <2>2. query' \in SnapshotQuery /\ query'.st = "asked" /\ query'.of = l.pair /\ query' # NoSnapshotQuery
    BY <1>1, <2>1 DEF SnapshotQuery, NoSnapshotQuery
  <2>3. l.pair = pair \/ crossed'
    BY <1>6 DEF LoadAnswered
  <2>4. mine' \in [SchemaPairs -> Nat] /\ \A p \in SchemaPairs : mine'[p] <= latest[p]
    <3>1. mine \in [SchemaPairs -> Nat] /\ latest \in [SchemaPairs -> Nat] /\ l.id <= latest[l.pair]
          /\ \A p \in SchemaPairs : mine[p] <= latest[p]
      BY <1>6 DEF BannerInv, BannerShape, ToldIsCommitted
    <3>2. mine'[l.pair] <= latest[l.pair]
      BY <1>1, <2>1, <3>1, BumpFacts
    <3>3. mine' \in [SchemaPairs -> Nat]
      BY <1>1, <2>1, <3>1, BumpFacts
    <3>4. ASSUME NEW p \in SchemaPairs, p # l.pair PROVE mine'[p] = mine[p]
      BY <1>1, <2>1, <3>1, <3>4, BumpFacts
    <3> QED
      BY <3>1, <3>2, <3>3, <3>4
  <2>5. BannerShape'
    BY <1>3, <1>4, <2>2, <2>4 DEF BannerInv, BannerShape
  <2>6. ToldIsCommitted'
    BY <1>3, <1>5, <2>4 DEF ToldIsCommitted
  <2> QED
    BY <1>3, <2>2, <2>3, <2>5, <2>6 DEF BannerInv, AnswerIsNew, SnapshotIsShown
<1>7. CASE l.st = "failed"
  <2>1. UNCHANGED <<query, mine, crossed>>
    BY <1>7 DEF LoadAnswered
  <2> QED
    BY <1>3, <1>4, <1>5, <2>1 DEF BannerInv, BannerShape, ToldIsCommitted, AnswerIsNew, SnapshotIsShown
<1> QED
  BY <1>6, <1>7 DEF LoadAnswered

\* The request for the latest snapshot, and the pair that is chosen.
LEMMA SnapshotQueryStep ==
  ASSUME BannerInv, SeeComplete \/ ServeSnapshot \/ LandSnapshot \/ SnapshotFails \/ \E p \in SchemaPairs : ChoosePair(p)
  PROVE  BannerInv'
<1> USE DEF BannerInv
<1>1. UNCHANGED <<latest, loads, mine>>
  BY DEF SeeComplete, ServeSnapshot, LandSnapshot, SnapshotFails, ChoosePair
<1>2. ToldIsCommitted'
  BY <1>1 DEF ToldIsCommitted
<1>3. ASSUME NEW p \in SchemaPairs, ReloadSnapshot(p)
      PROVE  query' \in SnapshotQuery /\ query'.st = "asked" /\ query'.of = p /\ query' # NoSnapshotQuery
  BY <1>3 DEF ReloadSnapshot, SnapshotQuery, NoSnapshotQuery
<1>4. CASE SeeComplete
  <2>1. ReloadSnapshot(pair) /\ UNCHANGED <<pair, shownSnapshot, crossed, queryErr>>
    BY <1>4 DEF SeeComplete
  <2>2. pair \in SchemaPairs
    BY DEF BannerShape
  <2> QED
    BY <1>1, <1>2, <1>3, <2>1, <2>2 DEF BannerShape, AnswerIsNew, SnapshotIsShown
<1>5. ASSUME NEW p \in SchemaPairs, ChoosePair(p) PROVE BannerInv'
  <2>1. ReloadSnapshot(p) /\ pair' = p /\ UNCHANGED shownSnapshot
    BY <1>5 DEF ChoosePair
  <2> QED
    BY <1>1, <1>2, <1>3, <2>1 DEF BannerShape, AnswerIsNew, SnapshotIsShown
<1>6. CASE ServeSnapshot
  <2> DEFINE a == [query EXCEPT !.id = latest[query.of]]
             b == [a EXCEPT !.st = "served"]
  <2>1. query \in SnapshotQuery /\ query # NoSnapshotQuery
    BY <1>6 DEF ServeSnapshot, BannerShape, NoSnapshotQuery
  <2>2. query.of \in SchemaPairs /\ latest[query.of] \in Nat
    BY <2>1 DEF SnapshotQuery, BannerShape
  <2>3. a \in SnapshotQuery /\ a.of = query.of /\ a.id = latest[query.of]
    BY <2>1, <2>2 DEF SnapshotQuery
  <2>4. query' = b /\ UNCHANGED <<pair, shownSnapshot, crossed, queryErr>>
    BY <1>6 DEF ServeSnapshot
  <2> HIDE DEF a
  <2>5. b \in SnapshotQuery /\ b.of = query.of /\ b.id = latest[query.of] /\ b # NoSnapshotQuery
    BY <2>3 DEF SnapshotQuery, NoSnapshotQuery
  <2> HIDE DEF b
  <2>6. latest[query.of] >= mine[query.of]
    <3>1. mine[query.of] <= latest[query.of] /\ mine[query.of] \in Nat
      BY <2>2 DEF ToldIsCommitted, BannerShape
    <3> QED
      BY <2>2, <3>1
  <2>7. AnswerIsNew'
    BY <1>1, <2>1, <2>4, <2>5, <2>6 DEF AnswerIsNew
  <2> QED
    BY <1>1, <1>2, <2>4, <2>5, <2>7 DEF BannerShape, SnapshotIsShown
<1>7. CASE LandSnapshot
  <2>1. query \in SnapshotQuery /\ query # NoSnapshotQuery /\ query.st = "served"
    BY <1>7 DEF LandSnapshot, BannerShape, NoSnapshotQuery
  <2>2. /\ query' = NoSnapshotQuery /\ shownSnapshot' = [of |-> query.of, id |-> query.id]
        /\ UNCHANGED <<pair, crossed>>
    BY <1>7 DEF LandSnapshot
  <2>3. query.of \in SchemaPairs /\ query.id \in Nat
    BY <2>1 DEF SnapshotQuery
  <2>4. SnapshotIsShown'
    BY <1>1, <2>1, <2>2 DEF AnswerIsNew, SnapshotIsShown
  <2>5. shownSnapshot' \in [of : SchemaPairs, id : Nat]
    BY <2>2, <2>3
  <2> QED
    BY <1>1, <1>2, <2>2, <2>4, <2>5 DEF BannerShape, AnswerIsNew
<1>8. CASE SnapshotFails
  BY <1>1, <1>2, <1>8 DEF SnapshotFails, BannerShape, AnswerIsNew, SnapshotIsShown
<1> QED
  BY <1>4, <1>5, <1>6, <1>7, <1>8

LEMMA BannerStepInv == BannerInv /\ [BannerNext]_bannerVars => BannerInv'
<1> SUFFICES ASSUME BannerInv, [BannerNext]_bannerVars PROVE BannerInv'
  OBVIOUS
<1>1. ASSUME NEW own \in BOOLEAN, NEW p \in SchemaPairs, AskLoad(own, p),
             UNCHANGED <<latest, pair, shownSnapshot, query, mine, crossed, queryErr>>
      PROVE  BannerInv'
  <2> DEFINE l == [pair |-> p, id |-> 0, own |-> own, st |-> "sent"]
  <2>1. l \in SnapshotLoad /\ l.st = "sent"
    BY DEF SnapshotLoad
  <2>2. loads' = loads \cup {l}
    BY <1>1 DEF AskLoad
  <2> HIDE DEF l
  <2>3. IsFiniteSet(loads')
    BY <2>2, FS_AddElement DEF BannerInv, BannerShape
  <2> QED
    BY <1>1, <2>1, <2>2, <2>3 DEF BannerInv, BannerShape, ToldIsCommitted, AnswerIsNew, SnapshotIsShown
<1>2. CASE StartLoad
  <2>1. AskLoad(TRUE, pair) /\ UNCHANGED <<latest, pair, shownSnapshot, query, mine, crossed, queryErr>>
    BY <1>2 DEF StartLoad
  <2>2. pair \in SchemaPairs
    BY DEF BannerInv, BannerShape
  <2> QED
    BY <1>1, <2>1, <2>2
<1>3. ASSUME NEW p \in SchemaPairs, OtherPageLoads(p) PROVE BannerInv'
  BY <1>1, <1>3 DEF OtherPageLoads
<1>4. CASE EventsRollOff \/ UNCHANGED bannerVars
  BY <1>4 DEF EventsRollOff, bannerVars, BannerInv, BannerShape, ToldIsCommitted, AnswerIsNew, SnapshotIsShown
<1> QED
  BY <1>2, <1>3, <1>4, BannerServerStep, LoadAnsweredStep, SnapshotQueryStep DEF BannerNext

LEMMA BannerInvInit == BannerInit => BannerInv
<1> SUFFICES ASSUME BannerInit PROVE BannerInv
  OBVIOUS
<1>1. query \in SnapshotQuery /\ query.st = "asked" /\ query.of = pair /\ query # NoSnapshotQuery
  BY DEF BannerInit, SnapshotQuery, NoSnapshotQuery
<1>2. BannerShape
  BY <1>1, FS_EmptySet DEF BannerInit, BannerShape
<1>3. ToldIsCommitted
  BY DEF BannerInit, ToldIsCommitted
<1> QED
  BY <1>1, <1>2, <1>3 DEF BannerInit, BannerInv, AnswerIsNew, SnapshotIsShown

(* BannerInv is an inductive invariant of the banner.                      *)
THEOREM BannerAlways == BannerSpec => []BannerInv
  BY BannerInvInit, BannerStepInv, PTL DEF BannerSpec

(* LoadSnapshotBanner.tsx: whatever becomes of the events, the banner      *)
(* shows no snapshot older than one this page has loaded, once nothing is  *)
(* asked for and the last request did not fail.                            *)
THEOREM SnapshotIsShownHolds == BannerSpec => []SnapshotIsShown
<1>1. BannerInv => SnapshotIsShown
  BY DEF BannerInv
<1> QED
  BY <1>1, BannerAlways, PTL

-----------------------------------------------------------------------------

(***************************************************************************)
(* The catalog page (CatalogPage).                                         *)
(***************************************************************************)
CatKinds == {"load", "list", "compare", "create", "sync", "sync_cols", "sync_objects"}
CatShots == [of : CatPairs, status : UNION {[D -> CatStatus] : D \in SUBSET DOMAIN CatObjects}]
CallFields == {"kind", "obj", "type", "of", "snap", "tab", "n", "got", "left", "st", "fresh"}
ButtonType(o) == IF CatObjects[o] = "MATERIALIZED VIEW" THEN "MVIEW" ELSE CatObjects[o]

\* What can be said of a call alone, with the number of the last click, of snapshots there are and of the one shown.
CatCallOK(c, last, shots, s) ==
  /\ CallFields \subseteq DOMAIN c /\ c = [f \in DOMAIN c |-> c[f]]
  /\ c.kind \in CatKinds /\ c.of \in CatPairs /\ c.tab \in CatTabs /\ c.n \in 1..last /\ c.fresh \in BOOLEAN
  /\ c.st \in {"sent", "ok", "failed"} /\ c.snap \in 0..shots /\ DOMAIN c.got \subseteq DOMAIN CatObjects
  /\ c.left # {} => c.kind = "list" /\ c.left \subseteq TypesOf(c.tab)
  /\ c.kind = "load" /\ c.st = "ok" => c.snap # 0
  /\ c.kind # "load" => c.snap # 0 /\ s # 0
  /\ c.kind \notin {"load", "list"} => c.obj \in DOMAIN CatObjects /\ c.type = ButtonType(c.obj)

CatShape ==
  /\ actual \in [CatPairs -> [DOMAIN CatObjects -> CatStatus]] /\ snapshots \in Seq(CatShots)
  /\ catPair \in CatPairs /\ snapshotId \in 0..Len(snapshots) /\ activeTab \in CatTabs
  /\ DOMAIN allObjects \subseteq DOMAIN CatObjects /\ (DOMAIN allObjects # {} => snapshotId # 0)
  /\ syncBusy \cup told \subseteq DOMAIN CatObjects
  /\ catLoading \in BOOLEAN /\ typeLoading \in BOOLEAN /\ stray \in BOOLEAN /\ ticket \in Nat
  /\ \A c \in calls : CatCallOK(c, ticket, Len(snapshots), snapshotId)
  /\ typeLoading => \E c \in calls : c.kind = "list"

\* An object whose comparison has been written and whose list will be read again.
Recompared(cs, s, o) == \E d \in cs : d.kind = "compare" /\ d.st = "ok" /\ d.snap = s /\ d.obj = o

\* A list has what a snapshot has of a tab, but for the types that are still to be read; and what it says
\* of an object is what the snapshot says, unless it was compared since.
ExactIn(list, g, left, status, s, cs) ==
  /\ DOMAIN list = {o \in DOMAIN status : TabOf(CatObjects[o]) = g /\ CatObjects[o] \notin left}
  /\ \A o \in DOMAIN list : list[o] = status[o] \/ Recompared(cs, s, o)

\* The set of reads that was asked last, if it is not overtaken, is for the snapshot and the tab of the page.
NewestIsExact(cs, s, g, status) ==
  \A c \in cs : (c.kind = "list" /\ c.fresh /\ \A d \in cs : d.kind = "list" => d.n <= c.n) =>
                  c.snap = s /\ c.tab = g /\ ExactIn(c.got, g, c.left, status, s, cs)

ListIsExact(list, g, odd, cs, s, status) ==
  (~odd /\ s # 0 /\ \A c \in cs : c.kind # "list") => ExactIn(list, g, {}, status, s, cs)

\* A request for the snapshot that is shown, and its schemas, that will write how the object is.
WillTell(cs, s, p, o) ==
  \E c \in cs : /\ c.kind \notin {"load", "list"} /\ c.obj = o /\ c.snap = s /\ c.of = p
                /\ c.st = (IF c.kind = "compare" THEN "sent" ELSE "ok")

ToldIsTrue(objs, cs, s, shot, acts) ==
  s # 0 => \A o \in objs \cap DOMAIN shot.status :
             TypeKnown(ButtonType(o)) => shot.status[o] = ComparedAs(o, acts[shot.of][o]) \/ WillTell(cs, s, shot.of, o)

CatInv ==
  /\ CatShape
  /\ NewestIsExact(calls, snapshotId, activeTab, snapshots[snapshotId].status)
  /\ ListIsExact(allObjects, activeTab, stray, calls, snapshotId, snapshots[snapshotId].status)
  /\ ToldIsTrue(told, calls, snapshotId, snapshots[snapshotId], actual)

-----------------------------------------------------------------------------
(* Calls.                                                                  *)

\* Two calls that differ at most in whether they are overtaken.
Alike(x, d) ==
  /\ CallFields \subseteq DOMAIN x /\ x = [f \in DOMAIN x |-> x[f]] /\ x.fresh \in BOOLEAN
  /\ x.kind = d.kind /\ x.obj = d.obj /\ x.type = d.type /\ x.of = d.of /\ x.snap = d.snap /\ x.tab = d.tab
  /\ x.n = d.n /\ x.got = d.got /\ x.left = d.left /\ x.st = d.st

LEMMA CatCallIs ==
  ASSUME NEW k, NEW o
  PROVE  LET c == CatCall(k, o) IN
         /\ CallFields = DOMAIN c /\ c = [f \in DOMAIN c |-> c[f]]
         /\ c.kind = k /\ c.obj = o /\ c.type = "none" /\ c.of = catPair /\ c.snap = snapshotId /\ c.tab = activeTab
         /\ c.n = ticket + 1 /\ c.got = NothingListed /\ c.left = {} /\ c.st = "sent" /\ c.fresh
BY DEF CatCall, CallFields

LEMMA ListCallIs ==
  ASSUME NEW s, NEW g, NEW fresh \in BOOLEAN
  PROVE  LET c == ListCall(s, g, fresh) IN
         /\ CallFields = DOMAIN c /\ c = [f \in DOMAIN c |-> c[f]]
         /\ c.kind = "list" /\ c.of = catPair /\ c.snap = s /\ c.tab = g
         /\ c.n = ticket + 1 /\ c.got = NothingListed /\ c.left = TypesOf(g) /\ c.st = "sent" /\ c.fresh = fresh
<1> DEFINE c0 == CatCall("list", "none")
           c1 == [c0 EXCEPT !.snap = s]
           c2 == [c1 EXCEPT !.tab = g]
           c3 == [c2 EXCEPT !.left = TypesOf(g)]
           c4 == [c3 EXCEPT !.fresh = fresh]
           IsF(c) == CallFields = DOMAIN c /\ c = [f \in DOMAIN c |-> c[f]]
<1>1. ListCall(s, g, fresh) = c4
  BY DEF ListCall
<1>2. /\ IsF(c0) /\ c0.kind = "list" /\ c0.of = catPair /\ c0.n = ticket + 1 /\ c0.got = NothingListed /\ c0.st = "sent"
  BY CatCallIs
<1> HIDE DEF c0
<1>3. /\ IsF(c1) /\ c1.kind = "list" /\ c1.of = catPair /\ c1.n = ticket + 1 /\ c1.got = NothingListed /\ c1.st = "sent" /\ c1.snap = s
  BY <1>2 DEF CallFields
<1> HIDE DEF c1
<1>4. /\ IsF(c2) /\ c2.kind = "list" /\ c2.of = catPair /\ c2.n = ticket + 1 /\ c2.got = NothingListed /\ c2.st = "sent" /\ c2.snap = s
      /\ c2.tab = g
  BY <1>3 DEF CallFields
<1> HIDE DEF c2
<1>5. /\ IsF(c3) /\ c3.kind = "list" /\ c3.of = catPair /\ c3.n = ticket + 1 /\ c3.got = NothingListed /\ c3.st = "sent" /\ c3.snap = s
      /\ c3.tab = g /\ c3.left = TypesOf(g)
  BY <1>4 DEF CallFields
<1> HIDE DEF c3
<1>6. /\ IsF(c4) /\ c4.kind = "list" /\ c4.of = catPair /\ c4.n = ticket + 1 /\ c4.got = NothingListed /\ c4.st = "sent" /\ c4.snap = s
      /\ c4.tab = g /\ c4.left = TypesOf(g) /\ c4.fresh = fresh
  BY <1>5 DEF CallFields
<1> QED
  BY <1>1, <1>6

LEMMA FreshSet ==
  ASSUME NEW d, Alike(d, d), NEW v \in BOOLEAN
  PROVE  Alike([d EXCEPT !.fresh = v], d) /\ [d EXCEPT !.fresh = v].fresh = v
BY DEF Alike, CallFields

LEMMA WithoutIs ==
  ASSUME NEW c \in calls, \A d \in calls : Alike(d, d)
  PROVE  /\ \A x \in Without(c) : \E d \in calls \ {c} : Alike(x, d) /\ (x.fresh <=> d.fresh /\ d.n > c.n)
         /\ \A d \in calls \ {c} : \E x \in Without(c) : Alike(x, d) /\ (x.fresh <=> d.fresh /\ d.n > c.n)
<1> DEFINE T(d) == [d EXCEPT !.fresh = @ /\ d.n > c.n]
<1>1. ASSUME NEW d \in calls PROVE Alike(T(d), d) /\ (T(d).fresh <=> d.fresh /\ d.n > c.n)
  <2> DEFINE v == d.fresh /\ d.n > c.n
  <2>1. T(d) = [d EXCEPT !.fresh = v]
    OBVIOUS
  <2>2. v \in BOOLEAN
    OBVIOUS
  <2> HIDE DEF v, T
  <2>3. Alike(T(d), d) /\ T(d).fresh = v
    BY <1>1, <2>1, <2>2, FreshSet
  <2> QED
    BY <2>3 DEF v
<1>2. Without(c) = {T(d) : d \in calls \ {c}}
  BY DEF Without
<1> HIDE DEF T
<1> QED
  BY <1>1, <1>2

CallsAfter(c, unread) == {[d EXCEPT !.fresh = @ /\ ~unread] : d \in calls \ {c}}

LEMMA UnreadIs ==
  ASSUME NEW c \in calls, \A d \in calls : Alike(d, d), NEW unread \in BOOLEAN
  PROVE  /\ \A x \in CallsAfter(c, unread) : \E d \in calls \ {c} : Alike(x, d) /\ (x.fresh <=> d.fresh /\ ~unread)
         /\ \A d \in calls \ {c} : \E x \in CallsAfter(c, unread) : Alike(x, d) /\ (x.fresh <=> d.fresh /\ ~unread)
<1> DEFINE T(d) == [d EXCEPT !.fresh = @ /\ ~unread]
<1>1. ASSUME NEW d \in calls PROVE Alike(T(d), d) /\ (T(d).fresh <=> d.fresh /\ ~unread)
  <2> DEFINE v == d.fresh /\ ~unread
  <2>1. T(d) = [d EXCEPT !.fresh = v]
    OBVIOUS
  <2>2. v \in BOOLEAN
    OBVIOUS
  <2> HIDE DEF v, T
  <2>3. Alike(T(d), d) /\ T(d).fresh = v
    BY <1>1, <2>1, <2>2, FreshSet
  <2> QED
    BY <2>3 DEF v
<1>2. CallsAfter(c, unread) = {T(d) : d \in calls \ {c}}
  BY DEF CallsAfter
<1> HIDE DEF T
<1> QED
  BY <1>1, <1>2

-----------------------------------------------------------------------------
(* Lists.                                                                  *)

\* A list stays exact as long as the snapshot changes only what has been compared since.
LEMMA ExactStays ==
  ASSUME NEW list, NEW g, NEW left, NEW status, NEW status2, NEW s, NEW cs, NEW cs2,
         ExactIn(list, g, left, status, s, cs), DOMAIN status2 = DOMAIN status,
         \A o \in DOMAIN status : status2[o] = status[o] \/ Recompared(cs2, s, o),
         \A o : Recompared(cs, s, o) => Recompared(cs2, s, o)
  PROVE  ExactIn(list, g, left, status2, s, cs2)
BY DEF ExactIn

\* What the reads that are asked last say, when calls come, change or go that are not reads, or when reads go
\* that are older than all which are not overtaken.
LEMMA NewestStays ==
  ASSUME NEW cs, NEW cs2, NEW s, NEW g, NEW status, NEW status2,
         NewestIsExact(cs, s, g, status), DOMAIN status2 = DOMAIN status,
         \A c \in cs : c.n \in Nat,
         \A x \in cs2 : x.kind = "list" /\ x.fresh =>
           \E c \in cs : /\ c.kind = "list" /\ c.fresh /\ c.n = x.n /\ c.snap = x.snap /\ c.tab = x.tab
                         /\ c.got = x.got /\ c.left = x.left,
         \A c \in cs, x \in cs2 : c.kind = "list" /\ x.kind = "list" /\ x.fresh =>
           c.n <= x.n \/ \E d \in cs2 : d.kind = "list" /\ d.n = c.n,
         \A x \in cs2 : x.kind = "list" /\ x.fresh =>
           /\ \A o \in DOMAIN status : status2[o] = status[o] \/ Recompared(cs2, s, o)
           /\ \A o : Recompared(cs, s, o) => Recompared(cs2, s, o)
  PROVE  NewestIsExact(cs2, s, g, status2)
<1> SUFFICES ASSUME NEW x \in cs2, x.kind = "list", x.fresh, \A d \in cs2 : d.kind = "list" => d.n <= x.n
             PROVE  x.snap = s /\ x.tab = g /\ ExactIn(x.got, g, x.left, status2, s, cs2)
  BY DEF NewestIsExact
<1>1. PICK c \in cs : /\ c.kind = "list" /\ c.fresh /\ c.n = x.n /\ c.snap = x.snap /\ c.tab = x.tab
                      /\ c.got = x.got /\ c.left = x.left
  OBVIOUS
<1>2. ASSUME NEW d \in cs, d.kind = "list" PROVE d.n <= c.n
  BY <1>1, <1>2
<1>3. x.snap = s /\ x.tab = g /\ ExactIn(x.got, g, x.left, status, s, cs)
  BY <1>1, <1>2 DEF NewestIsExact
<1> QED
  BY <1>3, ExactStays

\* Reads that have just been asked.
LEMMA NothingReadYet ==
  ASSUME NEW g, NEW status, DOMAIN status \subseteq DOMAIN CatObjects, NEW s, NEW cs
  PROVE  ExactIn(NothingListed, g, TypesOf(g), status, s, cs)
<1>1. ASSUME NEW o \in DOMAIN status, TabOf(CatObjects[o]) = g PROVE CatObjects[o] \in TypesOf(g)
  BY <1>1 DEF TypesOf, Range
<1>2. DOMAIN NothingListed = {}
  BY DEF NothingListed
<1> QED
  BY <1>1, <1>2 DEF ExactIn

LEMMA ReadsAsked ==
  ASSUME NEW cs, NEW cs2, NEW x \in cs2, NEW s, NEW g, NEW status, DOMAIN status \subseteq DOMAIN CatObjects,
         \A d \in cs2 : d = x \/ d \in cs, x.kind = "list", \A d \in cs : d.n \in Nat /\ x.n \in Nat /\ d.n < x.n,
         x.got = NothingListed, x.fresh => x.snap = s /\ x.tab = g, x.left = TypesOf(x.tab)
  PROVE  NewestIsExact(cs2, s, g, status)
<1> SUFFICES ASSUME NEW c \in cs2, c.kind = "list", c.fresh, \A d \in cs2 : d.kind = "list" => d.n <= c.n
             PROVE  c.snap = s /\ c.tab = g /\ ExactIn(c.got, g, c.left, status, s, cs2)
  BY DEF NewestIsExact
<1>1. c = x
  OBVIOUS
<1> QED
  BY <1>1, NothingReadYet

\* The types of a snapshot's fields.
LEMMA ShotFacts ==
  ASSUME NEW shots \in Seq(CatShots), NEW i \in 1..Len(shots)
  PROVE  /\ shots[i].of \in CatPairs /\ DOMAIN shots[i].status \subseteq DOMAIN CatObjects
         /\ \A o \in DOMAIN shots[i].status : shots[i].status[o] \in CatStatus
<1>1. shots[i] \in CatShots
  OBVIOUS
<1> QED
  BY <1>1 DEF CatShots

\* What one comparison writes.
Written(shots, i, o, v) == [shots EXCEPT ![i].status[o] = v]

LEMMA ComparisonWrites ==
  ASSUME NEW shots \in Seq(CatShots), NEW i \in 1..Len(shots), NEW o, NEW v \in CatStatus,
         NEW shots2, shots2 = Written(shots, i, o, v)
  PROVE  /\ shots2 \in Seq(CatShots) /\ Len(shots2) = Len(shots)
         /\ \A j \in 1..Len(shots) :
              /\ shots2[j].of = shots[j].of /\ DOMAIN shots2[j].status = DOMAIN shots[j].status
              /\ \A u \in DOMAIN shots[j].status : shots2[j].status[u] = IF j = i /\ u = o THEN v ELSE shots[j].status[u]
<1> DEFINE st == [shots[i].status EXCEPT ![o] = v]
           shot == [shots[i] EXCEPT !.status = st]
<1>1. shots2 = [shots EXCEPT ![i] = shot]
  BY DEF Written
<1>2. PICK D \in SUBSET DOMAIN CatObjects : shots[i].status \in [D -> CatStatus]
  <2>1. shots[i] \in CatShots
    OBVIOUS
  <2> QED
    BY <2>1 DEF CatShots
<1>3. st \in [D -> CatStatus] /\ \A u \in D : st[u] = IF u = o THEN v ELSE shots[i].status[u]
  BY <1>2
<1> HIDE DEF st
<1>4. shots[i] \in CatShots
  OBVIOUS
<1>5. shot \in CatShots /\ shot.of = shots[i].of /\ shot.status = st
  <2> DEFINE X == UNION {[E -> CatStatus] : E \in SUBSET DOMAIN CatObjects}
  <2>1. st \in X
    BY <1>3
  <2>2. CatShots = [of : CatPairs, status : X]
    BY DEF CatShots
  <2> HIDE DEF X
  <2> QED
    BY <1>4, <2>1, <2>2
<1> HIDE DEF shot
<1>6. shots2 \in Seq(CatShots) /\ Len(shots2) = Len(shots)
      /\ \A j \in 1..Len(shots) : shots2[j] = IF j = i THEN shot ELSE shots[j]
  BY <1>1, <1>5
<1> QED
  BY <1>2, <1>3, <1>5, <1>6

-----------------------------------------------------------------------------
(* The steps.                                                              *)

LEMMA CallStays ==
  ASSUME NEW c, NEW m \in Nat, NEW m2 \in Nat, NEW k \in Nat, NEW k2 \in Nat, NEW s, NEW s2,
         CatCallOK(c, m, k, s), m <= m2, k <= k2, s # 0 => s2 # 0
  PROVE  CatCallOK(c, m2, k2, s2)
BY DEF CatCallOK

LEMMA CallsFacts ==
  ASSUME CatShape
  PROVE  /\ \A c \in calls : Alike(c, c) /\ c.n \in Nat /\ c.n <= ticket /\ c.n # 0
         /\ Len(snapshots) \in Nat
         /\ snapshotId # 0 => /\ snapshotId \in 1..Len(snapshots)
                              /\ DOMAIN snapshots[snapshotId].status \subseteq DOMAIN CatObjects
                              /\ snapshots[snapshotId].of \in CatPairs
<1>1. \A c \in calls : Alike(c, c) /\ c.n \in Nat /\ c.n <= ticket /\ c.n # 0
  BY DEF CatShape, CatCallOK, Alike
<1>2. Len(snapshots) \in Nat
  BY DEF CatShape
<1>3. ASSUME snapshotId # 0 PROVE snapshotId \in 1..Len(snapshots)
  BY <1>2, <1>3 DEF CatShape
<1> QED
  BY <1>1, <1>2, <1>3, ShotFacts DEF CatShape

\* Neither a call nor what the page shows changes.
LEMMA TargetStep ==
  ASSUME CatInv, \/ \E p \in CatPairs : ChooseSchemas(p)
                 \/ \E p \in CatPairs, o \in DOMAIN CatObjects, st \in {"MATCH", "DIFF", "MISSING"} : CatTargetChanges(p, o, st)
  PROVE  CatInv'
<1>1. CASE \E p \in CatPairs : ChooseSchemas(p)
  BY <1>1 DEF CatInv, CatShape, ChooseSchemas, catServer, catList
<1>2. ASSUME NEW p \in CatPairs, NEW o \in DOMAIN CatObjects, NEW st \in {"MATCH", "DIFF", "MISSING"}, CatTargetChanges(p, o, st)
      PROVE  CatInv'
  <2>1. CatShape'
    BY <1>2 DEF CatInv, CatShape, CatTargetChanges, catList, CatStatus
  <2>2. ASSUME NEW q, NEW u, u # o, u \in DOMAIN CatObjects, q \in CatPairs PROVE actual'[q][u] = actual[q][u]
    BY <1>2, <2>2 DEF CatInv, CatShape, CatTargetChanges
  <2>3. ToldIsTrue(told, calls, snapshotId, snapshots[snapshotId], actual)'
    BY <1>2, <2>2, CallsFacts DEF CatInv, CatTargetChanges, catList, ToldIsTrue
  <2> QED
    BY <1>2, <2>1, <2>3 DEF CatInv, CatTargetChanges, catList
<1> QED
  BY <1>1, <1>2

\* A call is added that reads no list.
LEMMA CallAdded ==
  ASSUME CatInv, NEW x, calls' = calls \cup {x}, ticket' = ticket + 1, CatCallOK(x, ticket', Len(snapshots), snapshotId), x.kind # "list",
         UNCHANGED <<catServer, catPair, snapshotId, activeTab, catList, told>>,
         catLoading' \in BOOLEAN, syncBusy' \subseteq DOMAIN CatObjects
  PROVE  CatInv'
<1> USE CallsFacts DEF CatInv
<1> DEFINE status == snapshots[snapshotId].status
<1>1. CatShape'
  BY CallStays DEF CatShape, catServer, catList
<1>2. \A o : Recompared(calls, snapshotId, o) => Recompared(calls', snapshotId, o)
  BY DEF Recompared
<1>3. NewestIsExact(calls', snapshotId, activeTab, status)
  <2> HIDE DEF status, CatInv
  <2>1. NewestIsExact(calls, snapshotId, activeTab, status)
    BY DEF CatInv, status
  <2>2. \A c \in calls : c.n \in Nat
    BY DEF CatInv
  <2> QED
    BY <1>2, <2>1, <2>2, NewestStays
<1>4. ListIsExact(allObjects, activeTab, stray, calls', snapshotId, status)
  <2> HIDE DEF status
  <2>1. ListIsExact(allObjects, activeTab, stray, calls, snapshotId, status)
    BY DEF status
  <2> QED
    BY <1>2, <2>1 DEF ListIsExact, ExactIn
<1>5. \A p, o : WillTell(calls, snapshotId, p, o) => WillTell(calls', snapshotId, p, o)
  BY DEF WillTell
<1>6. ToldIsTrue(told, calls', snapshotId, snapshots[snapshotId], actual)
  BY <1>5 DEF ToldIsTrue
<1> QED
  BY <1>1, <1>3, <1>4, <1>6 DEF catServer, catList

LEMMA TabFacts ==
  ASSUME NEW type
  PROVE  /\ TabOf(type) = "tables" <=> type = "TABLE"
         /\ TabOf(type) = "views" <=> type \in {"VIEW", "MATERIALIZED VIEW"}
         /\ TabOf(type) = "code" <=> type \in {"FUNCTION", "PROCEDURE", "PACKAGE"}
<1>1. CASE type = "TABLE"
  BY <1>1 DEF TabOf
<1>2. CASE type \in {"VIEW", "MATERIALIZED VIEW"}
  BY <1>2 DEF TabOf
<1>3. CASE type \in {"FUNCTION", "PROCEDURE", "PACKAGE"}
  BY <1>3 DEF TabOf
<1>4. CASE type \notin {"TABLE", "VIEW", "MATERIALIZED VIEW", "FUNCTION", "PROCEDURE", "PACKAGE"}
  BY <1>4 DEF TabOf
<1> QED
  BY <1>1, <1>2, <1>3, <1>4

LEMMA RowsHeld ==
  ASSUME CatShape, NEW r \in CatRows
  PROVE  r.obj \in DOMAIN allObjects /\ r.obj \in DOMAIN CatObjects /\ r.type = ButtonType(r.obj) /\ snapshotId # 0 /\ ~typeLoading
         /\ TabOf(CatObjects[r.obj]) = activeTab
<1>1. /\ ~typeLoading
      /\ \/ activeTab = "tables" /\ \E f \in TableFilters : r \in TablesTab(f)
         \/ activeTab = "views" /\ r \in ViewsTab
         \/ activeTab = "code" /\ \E f \in CodeFilters : r \in CodeTab(f)
         \/ activeTab = "other" /\ r \in OtherTab
  BY DEF CatRows, CatShape, CatTabs
<1>2. r.obj \in DOMAIN allObjects
  BY <1>1 DEF TablesTab, ViewsTab, CodeTab, OtherTab, Held
<1>3. TabOf(CatObjects[r.obj]) = activeTab
  BY <1>1 DEF TablesTab, ViewsTab, CodeTab, OtherTab, Held
<1>4. r.type = ButtonType(r.obj)
  <2>0. LET type == CatObjects[r.obj] IN
        /\ TabOf(type) = "tables" => type = "TABLE"
        /\ TabOf(type) = "views" => type \in {"VIEW", "MATERIALIZED VIEW"}
        /\ TabOf(type) \in {"code", "other"} => type # "MATERIALIZED VIEW"
    BY TabFacts
  <2>1. CASE activeTab = "tables" /\ \E f \in TableFilters : r \in TablesTab(f)
    <3>1. r.type = "TABLE"
      BY <2>1 DEF TablesTab
    <3> QED
      BY <1>3, <2>0, <2>1, <3>1 DEF ButtonType
  <2>2. CASE activeTab = "views" /\ r \in ViewsTab
    <3>1. r.type = (IF CatObjects[r.obj] = "VIEW" THEN "VIEW" ELSE "MVIEW")
      BY <2>2 DEF ViewsTab
    <3> QED
      BY <1>3, <2>0, <2>2, <3>1 DEF ButtonType
  <2>3. CASE activeTab = "code" /\ \E f \in CodeFilters : r \in CodeTab(f)
    <3>1. r.type = CatObjects[r.obj]
      BY <2>3 DEF CodeTab
    <3> QED
      BY <1>3, <2>0, <2>3, <3>1 DEF ButtonType
  <2>4. CASE activeTab = "other" /\ r \in OtherTab
    <3>1. r.type = CatObjects[r.obj]
      BY <2>4 DEF OtherTab
    <3> QED
      BY <1>3, <2>0, <2>4, <3>1 DEF ButtonType
  <2> QED
    BY <1>1, <2>1, <2>2, <2>3, <2>4
<1> QED
  BY <1>1, <1>2, <1>3, <1>4 DEF CatShape

LEMMA ClickStep ==
  ASSUME CatInv, ClickLoad \/ \E r \in CatRows, a \in {"compare", "create", "sync", "sync_cols", "sync_objects"} : ClickObject(r, a)
  PROVE  CatInv'
<1> USE CallsFacts DEF CatInv
<1>1. CASE ClickLoad
  <2> DEFINE x == CatCall("load", "none")
  <2>1. CatCallOK(x, ticket + 1, Len(snapshots), snapshotId)
    <3>1. /\ CallFields = DOMAIN x /\ x = [f \in DOMAIN x |-> x[f]]
          /\ x.kind = "load" /\ x.of = catPair /\ x.snap = snapshotId /\ x.tab = activeTab
          /\ x.n = ticket + 1 /\ x.got = NothingListed /\ x.left = {} /\ x.st = "sent" /\ x.fresh
      BY CatCallIs
    <3>2. DOMAIN NothingListed = {} /\ CatShape
      BY DEF NothingListed
    <3> HIDE DEF x, CatInv
    <3> QED
      BY <3>1, <3>2 DEF CatCallOK, CatShape, CatKinds
  <2>2. x.kind = "load"
    BY CatCallIs
  <2> HIDE DEF x, CatInv
  <2>3. /\ calls' = calls \cup {x} /\ ticket' = ticket + 1 /\ catLoading' = TRUE
        /\ UNCHANGED <<catServer, catPair, snapshotId, activeTab, catList, syncBusy, told>>
    BY <1>1 DEF ClickLoad, x
  <2>4. syncBusy' \subseteq DOMAIN CatObjects
    BY <2>3 DEF CatInv, CatShape
  <2> QED
    BY <2>1, <2>2, <2>3, <2>4, CallAdded
<1>2. ASSUME NEW r \in CatRows, NEW a \in {"compare", "create", "sync", "sync_cols", "sync_objects"}, ClickObject(r, a)
      PROVE  CatInv'
  <2> DEFINE y == CatCall(a, r.obj)
             x == [y EXCEPT !.type = r.type]
  <2>1. /\ CallFields = DOMAIN y /\ y = [f \in DOMAIN y |-> y[f]]
        /\ y.kind = a /\ y.obj = r.obj /\ y.of = catPair /\ y.snap = snapshotId /\ y.tab = activeTab
        /\ y.n = ticket + 1 /\ y.got = NothingListed /\ y.left = {} /\ y.st = "sent" /\ y.fresh
    BY CatCallIs
  <2>2. /\ calls' = calls \cup {x} /\ ticket' = ticket + 1 /\ syncBusy' = syncBusy \cup {r.obj}
        /\ UNCHANGED <<catServer, catPair, snapshotId, activeTab, catList, catLoading, told>>
    BY <1>2 DEF ClickObject
  <2>3. CatShape /\ DOMAIN NothingListed = {}
    BY DEF NothingListed
  <2> HIDE DEF y, CatInv
  <2>4. CatCallOK(x, ticket + 1, Len(snapshots), snapshotId) /\ x.kind = a
    <3>1. /\ CallFields = DOMAIN x /\ x = [f \in DOMAIN x |-> x[f]] /\ x.type = r.type
          /\ x.kind = a /\ x.obj = r.obj /\ x.of = catPair /\ x.snap = snapshotId /\ x.tab = activeTab
          /\ x.n = ticket + 1 /\ x.got = NothingListed /\ x.left = {} /\ x.st = "sent" /\ x.fresh
      BY <2>1 DEF CallFields
    <3> HIDE DEF x
    <3> QED
      BY <3>1, <2>3, RowsHeld DEF CatCallOK, CatShape, CatKinds
  <2>5. syncBusy' \subseteq DOMAIN CatObjects /\ catLoading' \in BOOLEAN
    BY <2>2, <2>3, RowsHeld DEF CatShape
  <2> HIDE DEF x
  <2> QED
    BY <2>2, <2>4, <2>5, CallAdded
<1> QED
  BY <1>1, <1>2

\* Reads are asked, and what else the page changes then is well typed and truly told.
LEMMA ReadsAskedStep ==
  ASSUME CatInv, NEW x, x \in calls', \A d \in calls' : d = x \/ d \in calls,
         CatCallOK(x, ticket + 1, Len(snapshots), snapshotId'), x.kind = "list", x.n = ticket + 1,
         x.got = NothingListed, x.left = TypesOf(x.tab), x.fresh => x.snap = snapshotId' /\ x.tab = activeTab',
         ticket' = ticket + 1, UNCHANGED <<actual, snapshots, catPair>>,
         snapshotId' \in 1..Len(snapshots), activeTab' \in CatTabs, typeLoading' = TRUE,
         DOMAIN allObjects' \subseteq DOMAIN CatObjects, syncBusy' \cup told' \subseteq DOMAIN CatObjects,
         stray' \in BOOLEAN, catLoading' \in BOOLEAN, ToldIsTrue(told, calls, snapshotId, snapshots[snapshotId], actual)'
  PROVE  CatInv'
<1>1. CatShape /\ Len(snapshots) \in Nat /\ ticket \in Nat
  BY CallsFacts DEF CatInv, CatShape
<1>2. snapshotId' # 0
  BY <1>1
<1>3. CatShape'
  BY <1>1, <1>2, CallStays DEF CatShape
<1>4. NewestIsExact(calls', snapshotId', activeTab', snapshots[snapshotId'].status)
  <2>1. DOMAIN snapshots[snapshotId'].status \subseteq DOMAIN CatObjects
    BY <1>1, ShotFacts DEF CatShape
  <2>2. \A d \in calls : d.n \in Nat /\ x.n \in Nat /\ d.n < x.n
    BY <1>1, CallsFacts
  <2> QED
    BY <2>1, <2>2, ReadsAsked
<1>5. ListIsExact(allObjects, activeTab, stray, calls, snapshotId, snapshots[snapshotId].status)'
  BY DEF ListIsExact
<1> QED
  BY <1>3, <1>4, <1>5 DEF CatInv

LEMMA TabStep ==
  ASSUME CatInv, NEW g \in CatTabs, ChooseObjectTab(g)
  PROVE  CatInv'
<1> DEFINE yes == TRUE
           x == ListCall(snapshotId, g, yes)
<1>0. yes
  OBVIOUS
<1>b. yes \in BOOLEAN
  OBVIOUS
<1>2. /\ calls' = calls \cup {x} /\ snapshotId # 0 /\ activeTab' = g /\ typeLoading' = TRUE /\ ticket' = ticket + 1
      /\ UNCHANGED <<actual, snapshots, catPair, snapshotId, catLoading, allObjects, stray, syncBusy, told>>
  BY DEF ChooseObjectTab, catServer
<1> HIDE DEF yes
<1>1. /\ CallFields = DOMAIN x /\ x = [f \in DOMAIN x |-> x[f]]
      /\ x.kind = "list" /\ x.of = catPair /\ x.snap = snapshotId /\ x.tab = g
      /\ x.n = ticket + 1 /\ x.got = NothingListed /\ x.left = TypesOf(g) /\ x.st = "sent" /\ x.fresh = yes
  BY <1>b, ListCallIs
<1> HIDE DEF x
<1>3. CatShape /\ DOMAIN NothingListed = {} /\ Len(snapshots) \in Nat
  BY CallsFacts DEF NothingListed, CatInv
<1>4. snapshotId \in 1..Len(snapshots) /\ CatCallOK(x, ticket + 1, Len(snapshots), snapshotId)
  BY <1>0, <1>1, <1>2, <1>3 DEF CatCallOK, CatShape, CatKinds
<1>5. ToldIsTrue(told, calls, snapshotId, snapshots[snapshotId], actual)'
  <2>1. \A p, o : WillTell(calls, snapshotId, p, o) => WillTell(calls', snapshotId, p, o)
    BY <1>2 DEF WillTell
  <2> QED
    BY <1>2, <2>1 DEF CatInv, ToldIsTrue
<1> QED
  BY <1>1, <1>2, <1>3, <1>4, <1>5, ReadsAskedStep DEF CatShape

LEMMA LoadLandsStep ==
  ASSUME CatInv, NEW c \in calls, LoadLands(c)
  PROVE  CatInv'
<1>1. CatShape /\ CatCallOK(c, ticket, Len(snapshots), snapshotId) /\ DOMAIN NothingListed = {}
  BY DEF CatInv, CatShape, NothingListed
<1>2. CASE c.st = "ok"
  <2> DEFINE yes == TRUE
             x == ListCall(c.snap, "tables", yes)
  <2>0. yes
    OBVIOUS
  <2>b. yes \in BOOLEAN
    OBVIOUS
  <2>2. /\ calls' = (calls \ {c}) \cup {x} /\ snapshotId' = c.snap /\ activeTab' = "tables" /\ typeLoading' = TRUE
        /\ ticket' = ticket + 1 /\ told' = {} /\ allObjects' = NothingListed /\ catLoading' = FALSE /\ c.kind = "load"
        /\ UNCHANGED <<actual, snapshots, catPair, stray, syncBusy>>
    BY <1>2 DEF LoadLands, Becomes, catServer
  <2> HIDE DEF yes
  <2>1. /\ CallFields = DOMAIN x /\ x = [f \in DOMAIN x |-> x[f]]
        /\ x.kind = "list" /\ x.of = catPair /\ x.snap = c.snap /\ x.tab = "tables"
        /\ x.n = ticket + 1 /\ x.got = NothingListed /\ x.left = TypesOf("tables") /\ x.st = "sent" /\ x.fresh = yes
    BY <2>b, ListCallIs
  <2> HIDE DEF x
  <2>3. snapshotId' \in 1..Len(snapshots) /\ CatCallOK(x, ticket + 1, Len(snapshots), snapshotId')
    BY <1>1, <1>2, <2>0, <2>1, <2>2, CallsFacts DEF CatCallOK, CatShape, CatKinds, CatTabs
  <2>4. ToldIsTrue(told, calls, snapshotId, snapshots[snapshotId], actual)'
    BY <2>2 DEF ToldIsTrue
  <2> QED
    BY <1>1, <2>1, <2>2, <2>3, <2>4, ReadsAskedStep DEF CatShape, CatTabs
<1>3. CASE c.st # "ok"
  <2>1. /\ calls' = calls \ {c} /\ c.kind = "load" /\ catLoading' = FALSE
        /\ UNCHANGED <<actual, snapshots, snapshotId, activeTab, allObjects, typeLoading, stray, ticket, told, catPair, syncBusy>>
    BY <1>3 DEF LoadLands, catServer, catList
  <2>2. CatShape'
    BY <1>1, <2>1 DEF CatShape
  <2>3. \A o : Recompared(calls, snapshotId, o) => Recompared(calls', snapshotId, o)
    BY <2>1 DEF Recompared
  <2>4. \A p, o : WillTell(calls, snapshotId, p, o) => WillTell(calls', snapshotId, p, o)
    BY <2>1 DEF WillTell
  <2>5. NewestIsExact(calls', snapshotId, activeTab, snapshots[snapshotId].status)
    <3> DEFINE status == snapshots[snapshotId].status
    <3>1. NewestIsExact(calls, snapshotId, activeTab, status) /\ \A d \in calls : d.n \in Nat
      BY CallsFacts DEF CatInv
    <3> HIDE DEF status
    <3>2. NewestIsExact(calls', snapshotId, activeTab, status)
      BY <2>1, <2>3, <3>1, NewestStays
    <3> QED
      BY <3>2 DEF status
  <2>6. ListIsExact(allObjects, activeTab, stray, calls', snapshotId, snapshots[snapshotId].status)
    BY <2>1, <2>3 DEF CatInv, ListIsExact, ExactIn
  <2>7. ToldIsTrue(told, calls', snapshotId, snapshots[snapshotId], actual)
    BY <2>4 DEF CatInv, ToldIsTrue
  <2> QED
    BY <2>1, <2>2, <2>5, <2>6, <2>7 DEF CatInv
<1> QED
  BY <1>2, <1>3

LEMMA CompareLandsStep ==
  ASSUME CatInv, NEW c \in calls, CompareLands(c)
  PROVE  CatInv'
<1>1. CatShape /\ CatCallOK(c, ticket, Len(snapshots), snapshotId) /\ DOMAIN NothingListed = {}
  BY DEF CatInv, CatShape, NothingListed
<1> DEFINE own == c.snap = snapshotId /\ c.tab = activeTab
           x == ListCall(c.snap, c.tab, own)
<1>2. own \in BOOLEAN
  OBVIOUS
<1>3. /\ calls' = (calls \ {c}) \cup {x} /\ typeLoading' = TRUE /\ c.kind = "compare" /\ c.st = "ok"
      /\ ticket' = ticket + 1 /\ syncBusy' = syncBusy \ {c.obj}
      /\ UNCHANGED <<actual, snapshots, catPair, snapshotId, activeTab, allObjects, stray, told, catLoading>>
  BY DEF CompareLands, Becomes, catServer
<1> HIDE DEF own
<1>4. /\ CallFields = DOMAIN x /\ x = [f \in DOMAIN x |-> x[f]]
      /\ x.kind = "list" /\ x.of = catPair /\ x.snap = c.snap /\ x.tab = c.tab
      /\ x.n = ticket + 1 /\ x.got = NothingListed /\ x.left = TypesOf(c.tab) /\ x.st = "sent" /\ x.fresh = own
  BY <1>2, ListCallIs
<1> HIDE DEF x
<1>5. snapshotId' \in 1..Len(snapshots) /\ CatCallOK(x, ticket + 1, Len(snapshots), snapshotId')
  BY <1>1, <1>2, <1>3, <1>4, CallsFacts DEF CatCallOK, CatShape, CatKinds
<1>6. x.fresh => x.snap = snapshotId' /\ x.tab = activeTab'
  BY <1>3, <1>4 DEF own
<1>7. ToldIsTrue(told, calls, snapshotId, snapshots[snapshotId], actual)'
  <2>1. \A p, o : WillTell(calls, snapshotId, p, o) => WillTell(calls', snapshotId, p, o)
    BY <1>3 DEF WillTell
  <2> QED
    BY <1>3, <2>1 DEF CatInv, ToldIsTrue
<1> QED
  BY <1>1, <1>3, <1>4, <1>5, <1>6, <1>7, ReadsAskedStep DEF CatShape

\* A call that reads no list goes on to its next step; what it wrote of the snapshot that is shown will be read.
LEMMA OneCallStep ==
  ASSUME CatInv, NEW c \in calls, c.kind # "list", ~(c.kind = "compare" /\ c.st = "ok"), NEW d, d.kind # "list",
         calls' = (calls \ {c}) \cup {d}, CatCallOK(d, ticket, Len(snapshots'), snapshotId),
         UNCHANGED <<catPair, snapshotId, catLoading, activeTab, allObjects, typeLoading, stray, ticket>>,
         actual' \in [CatPairs -> [DOMAIN CatObjects -> CatStatus]], snapshots' \in Seq(CatShots), Len(snapshots) <= Len(snapshots'),
         syncBusy' \cup told' \subseteq DOMAIN CatObjects,
         snapshotId # 0 =>
           /\ DOMAIN snapshots'[snapshotId].status = DOMAIN snapshots[snapshotId].status
           /\ \A o \in DOMAIN snapshots[snapshotId].status :
                snapshots'[snapshotId].status[o] = snapshots[snapshotId].status[o] \/ Recompared(calls', snapshotId, o),
         ToldIsTrue(told, calls, snapshotId, snapshots[snapshotId], actual)'
  PROVE  CatInv'
<1>1. CatShape /\ Len(snapshots) \in Nat /\ Len(snapshots') \in Nat
  BY CallsFacts DEF CatInv
<1>2. CatShape'
  <2>1. \A x \in calls' : CatCallOK(x, ticket, Len(snapshots'), snapshotId)
    BY <1>1, CallStays DEF CatShape
  <2> QED
    BY <1>1, <2>1 DEF CatShape
<1>3. \A o : Recompared(calls, snapshotId, o) => Recompared(calls', snapshotId, o)
  BY DEF Recompared
<1>4. CASE snapshotId = 0
  <2>1. \A x \in calls : x.kind = "load"
    BY <1>1, <1>4 DEF CatShape, CatCallOK
  <2> QED
    BY <1>2, <1>4, <2>1 DEF CatInv, NewestIsExact, ListIsExact
<1>5. CASE snapshotId # 0
  <2> DEFINE was == snapshots[snapshotId].status
             now == snapshots'[snapshotId].status
  <2>1. NewestIsExact(calls, snapshotId, activeTab, was) /\ ListIsExact(allObjects, activeTab, stray, calls, snapshotId, was)
    BY DEF CatInv
  <2>2. \A x \in calls : x.n \in Nat
    BY <1>1, CallsFacts
  <2>3. DOMAIN now = DOMAIN was /\ \A o \in DOMAIN was : now[o] = was[o] \/ Recompared(calls', snapshotId, o)
    BY <1>5
  <2> HIDE DEF was, now
  <2>4. NewestIsExact(calls', snapshotId, activeTab, now)
    BY <1>3, <2>1, <2>2, <2>3, NewestStays
  <2>5. ListIsExact(allObjects, activeTab, stray, calls', snapshotId, now)
    BY <1>3, <2>1, <2>3, ExactStays DEF ListIsExact
  <2> QED
    BY <1>2, <2>4, <2>5 DEF CatInv, now
<1> QED
  BY <1>4, <1>5

LEMMA LoadServedStep ==
  ASSUME CatInv, NEW c \in calls, LoadServed(c)
  PROVE  CatInv'
<1>1. CatShape /\ CatCallOK(c, ticket, Len(snapshots), snapshotId) /\ Len(snapshots) \in Nat
  BY CallsFacts DEF CatInv, CatShape
<1> DEFINE s == Len(snapshots) + 1
           e == [c EXCEPT !.snap = s]
           d == [e EXCEPT !.st = "ok"]
           shot == [of |-> c.of, status |-> Restrict(actual[c.of], Listed(c.of))]
<1>2. /\ calls' = (calls \ {c}) \cup {d} /\ c.kind = "load" /\ c.st = "sent" /\ snapshots' = Append(snapshots, shot)
      /\ UNCHANGED <<actual, catPair, snapshotId, catLoading, activeTab, allObjects, typeLoading, stray, syncBusy, ticket, told>>
  BY DEF LoadServed, Becomes, catList
<1>3. CatCallOK(d, ticket, s, snapshotId) /\ d.kind = "load"
  <2>1. /\ CallFields \subseteq DOMAIN e /\ e = [f \in DOMAIN e |-> e[f]] /\ e.kind = c.kind /\ e.of = c.of /\ e.tab = c.tab
        /\ e.n = c.n /\ e.fresh = c.fresh /\ e.snap = s /\ e.got = c.got /\ e.left = c.left
    BY <1>1 DEF CatCallOK, CallFields
  <2> HIDE DEF e
  <2>2. /\ CallFields \subseteq DOMAIN d /\ d = [f \in DOMAIN d |-> d[f]] /\ d.kind = c.kind /\ d.of = c.of /\ d.tab = c.tab
        /\ d.n = c.n /\ d.fresh = c.fresh /\ d.snap = s /\ d.got = c.got /\ d.left = c.left /\ d.st = "ok"
    BY <2>1 DEF CallFields
  <2> HIDE DEF d
  <2> QED
    BY <1>1, <1>2, <2>2 DEF CatCallOK
<1>4. shot \in CatShots
  <2> DEFINE D == Listed(c.of)
             st == Restrict(actual[c.of], D)
             X == UNION {[E -> CatStatus] : E \in SUBSET DOMAIN CatObjects}
  <2>1. D \subseteq DOMAIN CatObjects /\ c.of \in CatPairs
    BY <1>1 DEF Listed, CatCallOK
  <2>2. actual[c.of] \in [DOMAIN CatObjects -> CatStatus]
    BY <1>1, <2>1 DEF CatShape
  <2> HIDE DEF D
  <2>3. st \in [D -> CatStatus]
    BY <2>1, <2>2 DEF Restrict
  <2>4. st \in X
    BY <2>1, <2>3
  <2> HIDE DEF st, X
  <2> QED
    BY <2>1, <2>4 DEF CatShots, X, st, D
<1> HIDE DEF d, shot
<1>5. snapshots' \in Seq(CatShots) /\ Len(snapshots') = s /\ \A i \in 1..Len(snapshots) : snapshots'[i] = snapshots[i]
  BY <1>1, <1>2, <1>4 DEF CatShape
<1>6. snapshotId # 0 => snapshots'[snapshotId] = snapshots[snapshotId]
  BY <1>1, <1>5, CallsFacts
<1>7. ToldIsTrue(told, calls, snapshotId, snapshots[snapshotId], actual)'
  <2>1. \A p, o : WillTell(calls, snapshotId, p, o) => WillTell(calls', snapshotId, p, o)
    BY <1>2 DEF WillTell
  <2> QED
    BY <1>2, <1>6, <2>1 DEF CatInv, ToldIsTrue
<1>8. actual' \in [CatPairs -> [DOMAIN CatObjects -> CatStatus]] /\ syncBusy' \cup told' \subseteq DOMAIN CatObjects
  BY <1>1, <1>2 DEF CatShape
<1>9. Len(snapshots) <= Len(snapshots') /\ CatCallOK(d, ticket, Len(snapshots'), snapshotId)
  BY <1>1, <1>3, <1>5
<1> HIDE DEF s
<1> QED
  BY <1>2, <1>3, <1>5, <1>6, <1>7, <1>8, <1>9, OneCallStep

LEMMA SyncLandsStep ==
  ASSUME CatInv, NEW c \in calls, SyncLands(c)
  PROVE  CatInv'
<1>1. CatShape /\ CatCallOK(c, ticket, Len(snapshots), snapshotId) /\ Len(snapshots) \in Nat
  BY CallsFacts DEF CatInv, CatShape
<1> DEFINE e == [c EXCEPT !.kind = "compare"]
           d == [e EXCEPT !.st = "sent"]
<1>2. /\ calls' = (calls \ {c}) \cup {d} /\ c.kind \in {"create", "sync", "sync_cols", "sync_objects"} /\ c.st = "ok"
      /\ syncBusy' = syncBusy \ {c.obj}
      /\ UNCHANGED <<actual, snapshots, catPair, snapshotId, catLoading, activeTab, allObjects, typeLoading, stray, ticket, told>>
  BY DEF SyncLands, Becomes, catList, catServer
<1>3. /\ CallFields \subseteq DOMAIN e /\ e = [f \in DOMAIN e |-> e[f]] /\ e.kind = "compare" /\ e.of = c.of /\ e.tab = c.tab
      /\ e.n = c.n /\ e.fresh = c.fresh /\ e.snap = c.snap /\ e.got = c.got /\ e.left = c.left /\ e.obj = c.obj /\ e.type = c.type
  BY <1>1 DEF CatCallOK, CallFields
<1> HIDE DEF e
<1>4. /\ CallFields \subseteq DOMAIN d /\ d = [f \in DOMAIN d |-> d[f]] /\ d.kind = "compare" /\ d.of = c.of /\ d.tab = c.tab
      /\ d.n = c.n /\ d.fresh = c.fresh /\ d.snap = c.snap /\ d.got = c.got /\ d.left = c.left /\ d.obj = c.obj /\ d.type = c.type
      /\ d.st = "sent"
  BY <1>3 DEF CallFields
<1> HIDE DEF d
<1>5. CatCallOK(d, ticket, Len(snapshots), snapshotId)
  BY <1>1, <1>2, <1>4 DEF CatCallOK, CatKinds
<1>6. ToldIsTrue(told, calls, snapshotId, snapshots[snapshotId], actual)'
  <2>1. ASSUME NEW p, NEW o, WillTell(calls, snapshotId, p, o) PROVE WillTell(calls', snapshotId, p, o)
    <3>1. PICK x \in calls : /\ x.kind \notin {"load", "list"} /\ x.obj = o /\ x.snap = snapshotId /\ x.of = p
                             /\ x.st = (IF x.kind = "compare" THEN "sent" ELSE "ok")
      BY <2>1 DEF WillTell
    <3> QED
      BY <1>2, <1>4, <3>1 DEF WillTell
  <2> QED
    BY <1>2, <2>1 DEF CatInv, ToldIsTrue
<1>7. /\ actual' \in [CatPairs -> [DOMAIN CatObjects -> CatStatus]] /\ syncBusy' \cup told' \subseteq DOMAIN CatObjects
      /\ snapshots' \in Seq(CatShots)
  BY <1>1, <1>2 DEF CatShape
<1>8. Len(snapshots) <= Len(snapshots') /\ CatCallOK(d, ticket, Len(snapshots'), snapshotId)
  BY <1>1, <1>2, <1>5
<1> QED
  BY <1>2, <1>4, <1>6, <1>7, <1>8, OneCallStep

LEMMA SyncServedStep ==
  ASSUME CatInv, NEW c \in calls, NEW now \in CatStatus, SyncServed(c, now)
  PROVE  CatInv'
<1>1. CatShape /\ CatCallOK(c, ticket, Len(snapshots), snapshotId) /\ Len(snapshots) \in Nat
  BY CallsFacts DEF CatInv, CatShape
<1> DEFINE d == [c EXCEPT !.st = "ok"]
           p == snapshots[snapshotId].of
<1>2. /\ calls' = (calls \ {c}) \cup {d} /\ c.kind \in {"create", "sync", "sync_cols", "sync_objects"} /\ c.st = "sent"
      /\ actual' = [actual EXCEPT ![c.of][c.obj] = now]
      /\ UNCHANGED <<snapshots, catPair, snapshotId, catLoading, activeTab, allObjects, typeLoading, stray, syncBusy, ticket>>
  BY DEF SyncServed, Becomes, catList
<1>3. /\ p # c.of => told' = told
      /\ p = c.of /\ c.snap = snapshotId => told' = told \cup {c.obj}
      /\ p = c.of /\ c.snap # snapshotId => told' = told \ {c.obj}
  <2>1. told' = CASE OwnSchemas(c) -> told \cup {c.obj} [] c.snap # snapshotId /\ p = c.of -> told \ {c.obj} [] OTHER -> told
    BY DEF SyncServed
  <2>2. CASE p # c.of
    BY <2>1, <2>2 DEF OwnSchemas
  <2>3. CASE p = c.of /\ c.snap = snapshotId
    BY <2>1, <2>3 DEF OwnSchemas
  <2>4. CASE p = c.of /\ c.snap # snapshotId
    BY <2>1, <2>4 DEF OwnSchemas
  <2> QED
    BY <2>2, <2>3, <2>4
<1>4. /\ CallFields \subseteq DOMAIN d /\ d = [f \in DOMAIN d |-> d[f]] /\ d.kind = c.kind /\ d.of = c.of /\ d.tab = c.tab
      /\ d.n = c.n /\ d.fresh = c.fresh /\ d.snap = c.snap /\ d.got = c.got /\ d.left = c.left /\ d.obj = c.obj /\ d.type = c.type
      /\ d.st = "ok"
  BY <1>1 DEF CatCallOK, CallFields
<1> HIDE DEF d
<1>5. CatCallOK(d, ticket, Len(snapshots), snapshotId) /\ c.obj \in DOMAIN CatObjects /\ c.of \in CatPairs /\ snapshotId # 0
  BY <1>1, <1>2, <1>4 DEF CatCallOK, CatKinds
<1>6. ToldIsTrue(told, calls, snapshotId, snapshots[snapshotId], actual)'
  <2> DEFINE status == snapshots[snapshotId].status
  <2>1. SUFFICES ASSUME NEW o \in told' \cap DOMAIN status, TypeKnown(ButtonType(o))
                 PROVE  status[o] = ComparedAs(o, actual'[p][o]) \/ WillTell(calls', snapshotId, p, o)
    BY <1>2 DEF ToldIsTrue
  <2>2. p \in CatPairs /\ o \in DOMAIN CatObjects
    BY <1>5, CallsFacts DEF CatInv
  <2>3. CASE p = c.of /\ o = c.obj
    <3>1. c.snap = snapshotId
      BY <1>3, <2>1, <2>3
    <3> QED
      BY <1>2, <1>4, <2>3, <3>1 DEF WillTell
  <2>4. CASE ~(p = c.of /\ o = c.obj)
    <3>1. o \in told /\ actual'[p][o] = actual[p][o]
      BY <1>1, <1>2, <1>3, <1>5, <2>1, <2>2, <2>4 DEF CatShape
    <3>2. status[o] = ComparedAs(o, actual[p][o]) \/ WillTell(calls, snapshotId, p, o)
      BY <1>5, <2>1, <3>1 DEF CatInv, ToldIsTrue
    <3>3. ASSUME WillTell(calls, snapshotId, p, o) PROVE WillTell(calls', snapshotId, p, o)
      <4>1. PICK x \in calls : /\ x.kind \notin {"load", "list"} /\ x.obj = o /\ x.snap = snapshotId /\ x.of = p
                               /\ x.st = (IF x.kind = "compare" THEN "sent" ELSE "ok")
        BY <3>3 DEF WillTell
      <4> QED
        BY <1>2, <2>4, <4>1 DEF WillTell
    <3> QED
      BY <3>1, <3>2, <3>3
  <2> QED
    BY <2>3, <2>4
<1>7. /\ actual' \in [CatPairs -> [DOMAIN CatObjects -> CatStatus]] /\ syncBusy' \cup told' \subseteq DOMAIN CatObjects
      /\ snapshots' \in Seq(CatShots)
  <2>1. told' \subseteq DOMAIN CatObjects
    BY <1>1, <1>3, <1>5 DEF CatShape
  <2> QED
    BY <1>1, <1>2, <1>5, <2>1 DEF CatShape
<1>8. Len(snapshots) <= Len(snapshots') /\ CatCallOK(d, ticket, Len(snapshots'), snapshotId)
  BY <1>1, <1>2, <1>5
<1> QED
  BY <1>2, <1>4, <1>6, <1>7, <1>8, OneCallStep

LEMMA CompareServedStep ==
  ASSUME CatInv, NEW c \in calls, CompareServed(c)
  PROVE  CatInv'
<1>1. CatShape /\ CatCallOK(c, ticket, Len(snapshots), snapshotId) /\ Len(snapshots) \in Nat
  BY CallsFacts DEF CatInv, CatShape
<1> DEFINE d == [c EXCEPT !.st = "ok"]
           p == snapshots[snapshotId].of
           status == snapshots[snapshotId].status
           v == ComparedAs(c.obj, actual[c.of][c.obj])
<1>2. /\ calls' = (calls \ {c}) \cup {d} /\ c.kind = "compare" /\ c.st = "sent"
      /\ snapshots' = IF TypeKnown(c.type) THEN [snapshots EXCEPT ![c.snap].status[c.obj] = v] ELSE snapshots
      /\ UNCHANGED <<actual, catPair, snapshotId, catLoading, activeTab, allObjects, typeLoading, stray, syncBusy, ticket>>
  BY DEF CompareServed, Becomes, catList
<1>3. /\ c.snap # snapshotId => told' = told
      /\ c.snap = snapshotId /\ p = c.of => told' = told \cup {c.obj}
      /\ c.snap = snapshotId /\ p # c.of => told' = told \ {c.obj}
  BY DEF CompareServed, OwnSchemas
<1>4. /\ CallFields \subseteq DOMAIN d /\ d = [f \in DOMAIN d |-> d[f]] /\ d.kind = c.kind /\ d.of = c.of /\ d.tab = c.tab
      /\ d.n = c.n /\ d.fresh = c.fresh /\ d.snap = c.snap /\ d.got = c.got /\ d.left = c.left /\ d.obj = c.obj /\ d.type = c.type
      /\ d.st = "ok"
  BY <1>1 DEF CatCallOK, CallFields
<1> HIDE DEF d
<1>5. /\ CatCallOK(d, ticket, Len(snapshots), snapshotId) /\ c.obj \in DOMAIN CatObjects /\ c.of \in CatPairs /\ snapshotId # 0
      /\ c.snap \in 1..Len(snapshots) /\ c.type = ButtonType(c.obj)
  BY <1>1, <1>2, <1>4 DEF CatCallOK, CatKinds
<1>6. v \in CatStatus
  BY <1>1, <1>5 DEF CatShape, CatStatus, ComparedAs
<1>7. snapshotId \in 1..Len(snapshots) /\ p \in CatPairs /\ DOMAIN status \subseteq DOMAIN CatObjects
  BY <1>5, CallsFacts DEF CatInv
<1>8. /\ snapshots' \in Seq(CatShots) /\ Len(snapshots') = Len(snapshots)
      /\ snapshots'[snapshotId].of = p /\ DOMAIN snapshots'[snapshotId].status = DOMAIN status
      /\ \A u \in DOMAIN status : snapshots'[snapshotId].status[u] =
           IF TypeKnown(c.type) /\ snapshotId = c.snap /\ u = c.obj THEN v ELSE status[u]
  <2>1. CASE TypeKnown(c.type)
    <3>1. snapshots' = Written(snapshots, c.snap, c.obj, v) /\ snapshots \in Seq(CatShots)
      BY <1>1, <1>2, <2>1 DEF CatShape, Written
    <3> HIDE DEF v
    <3>2. /\ snapshots' \in Seq(CatShots) /\ Len(snapshots') = Len(snapshots)
          /\ \A j \in 1..Len(snapshots) :
               /\ snapshots'[j].of = snapshots[j].of /\ DOMAIN snapshots'[j].status = DOMAIN snapshots[j].status
               /\ \A u \in DOMAIN snapshots[j].status :
                    snapshots'[j].status[u] = IF j = c.snap /\ u = c.obj THEN v ELSE snapshots[j].status[u]
      BY <1>5, <1>6, <3>1, ComparisonWrites
    <3> QED
      BY <1>7, <2>1, <3>2
  <2>2. CASE ~TypeKnown(c.type)
    BY <1>1, <1>2, <2>2 DEF CatShape
  <2> QED
    BY <2>1, <2>2
<1>9. \A o \in DOMAIN status : snapshots'[snapshotId].status[o] = status[o] \/ Recompared(calls', snapshotId, o)
  BY <1>2, <1>4, <1>8 DEF Recompared
<1>10. ToldIsTrue(told, calls, snapshotId, snapshots[snapshotId], actual)'
  <2>1. SUFFICES ASSUME NEW o \in told' \cap DOMAIN status, TypeKnown(ButtonType(o))
                 PROVE  snapshots'[snapshotId].status[o] = ComparedAs(o, actual[p][o]) \/ WillTell(calls', snapshotId, p, o)
    BY <1>2, <1>8 DEF ToldIsTrue
  <2>2. CASE c.snap = snapshotId /\ o = c.obj
    <3>1. p = c.of
      BY <1>3, <2>1, <2>2
    <3> QED
      BY <1>5, <1>8, <2>1, <2>2, <3>1
  <2>3. CASE ~(c.snap = snapshotId /\ o = c.obj)
    <3>1. o \in told /\ snapshots'[snapshotId].status[o] = status[o]
      BY <1>3, <1>8, <2>1, <2>3
    <3>2. status[o] = ComparedAs(o, actual[p][o]) \/ WillTell(calls, snapshotId, p, o)
      BY <1>5, <2>1, <3>1 DEF CatInv, ToldIsTrue
    <3>3. ASSUME WillTell(calls, snapshotId, p, o) PROVE WillTell(calls', snapshotId, p, o)
      <4>1. PICK x \in calls : /\ x.kind \notin {"load", "list"} /\ x.obj = o /\ x.snap = snapshotId /\ x.of = p
                               /\ x.st = (IF x.kind = "compare" THEN "sent" ELSE "ok")
        BY <3>3 DEF WillTell
      <4> QED
        BY <1>2, <2>3, <4>1 DEF WillTell
    <3> QED
      BY <3>1, <3>2, <3>3
  <2> QED
    BY <2>2, <2>3
<1>11. actual' \in [CatPairs -> [DOMAIN CatObjects -> CatStatus]] /\ syncBusy' \cup told' \subseteq DOMAIN CatObjects
  <2>1. told' \subseteq DOMAIN CatObjects
    BY <1>1, <1>3, <1>5 DEF CatShape
  <2> QED
    BY <1>1, <1>2, <2>1 DEF CatShape
<1>12. Len(snapshots) <= Len(snapshots') /\ CatCallOK(d, ticket, Len(snapshots'), snapshotId)
  BY <1>1, <1>5, <1>8
<1>13. c.kind # "list" /\ d.kind # "list" /\ ~(c.kind = "compare" /\ c.st = "ok")
  BY <1>2, <1>4
<1> QED
  BY <1>2, <1>8, <1>9, <1>10, <1>11, <1>12, <1>13, OneCallStep

LEMMA ListServedStep ==
  ASSUME CatInv, NEW c \in calls, NEW type \in c.left, ListServed(c, type)
  PROVE  CatInv'
<1> DEFINE status == snapshots[c.snap].status
           part == OfType(status, type)
           both == Joined(part, c.got)
           rest == c.left \ {type}
           e == [c EXCEPT !.left = rest]
           d == [e EXCEPT !.got = both]
<1>1. CatShape /\ CatCallOK(c, ticket, Len(snapshots), snapshotId) /\ Len(snapshots) \in Nat
  BY CallsFacts DEF CatInv, CatShape
<1>2. /\ calls' = (calls \ {c}) \cup {d}
      /\ UNCHANGED <<actual, snapshots, catPair, snapshotId, catLoading, activeTab, allObjects, typeLoading, stray, syncBusy, ticket, told>>
  BY DEF ListServed, Becomes, catList, catServer
<1>3. /\ c.kind = "list" /\ c.snap \in 1..Len(snapshots) /\ snapshotId # 0 /\ type \in TypesOf(c.tab) /\ TabOf(type) = c.tab
  BY <1>1 DEF CatCallOK, TypesOf
<1>4. /\ DOMAIN both = {o \in DOMAIN status : CatObjects[o] = type} \cup DOMAIN c.got
      /\ \A o \in DOMAIN both : both[o] = IF o \in DOMAIN status /\ CatObjects[o] = type THEN status[o] ELSE c.got[o]
  BY DEF Joined, OfType, Restrict
<1> HIDE DEF both, rest
<1>5. /\ CallFields \subseteq DOMAIN e /\ e = [f \in DOMAIN e |-> e[f]] /\ e.kind = c.kind /\ e.of = c.of /\ e.tab = c.tab
      /\ e.n = c.n /\ e.fresh = c.fresh /\ e.snap = c.snap /\ e.got = c.got /\ e.left = rest /\ e.st = c.st
  BY <1>1 DEF CatCallOK, CallFields
<1> HIDE DEF e
<1>6. /\ CallFields \subseteq DOMAIN d /\ d = [f \in DOMAIN d |-> d[f]] /\ d.kind = c.kind /\ d.of = c.of /\ d.tab = c.tab
      /\ d.n = c.n /\ d.fresh = c.fresh /\ d.snap = c.snap /\ d.got = both /\ d.left = rest /\ d.st = c.st
  BY <1>5 DEF CallFields
<1> HIDE DEF d
<1>7. DOMAIN status \subseteq DOMAIN CatObjects
  BY <1>1, <1>3, ShotFacts DEF CatShape
<1>8. CatCallOK(d, ticket, Len(snapshots), snapshotId)
  <2>1. rest \subseteq TypesOf(c.tab) /\ DOMAIN both \subseteq DOMAIN CatObjects
    BY <1>1, <1>4, <1>7 DEF CatCallOK, rest
  <2> QED
    BY <1>1, <1>3, <1>6, <2>1 DEF CatCallOK
<1>9. CatShape'
  BY <1>1, <1>2, <1>3, <1>6, <1>8 DEF CatShape
<1>10. \A o : Recompared(calls, snapshotId, o) => Recompared(calls', snapshotId, o)
  BY <1>2, <1>3 DEF Recompared
<1>11. NewestIsExact(calls', snapshotId, activeTab, snapshots[snapshotId].status)
  <2> SUFFICES ASSUME NEW x \in calls', x.kind = "list", x.fresh, \A y \in calls' : y.kind = "list" => y.n <= x.n
               PROVE  /\ x.snap = snapshotId /\ x.tab = activeTab
                      /\ ExactIn(x.got, activeTab, x.left, snapshots[snapshotId].status, snapshotId, calls')
    BY DEF NewestIsExact
  <2>1. \A y \in calls : y.kind = "list" => y.n <= x.n
    BY <1>2, <1>3, <1>6
  <2>2. CASE x = d
    <3>1. /\ c.snap = snapshotId /\ c.tab = activeTab
          /\ ExactIn(c.got, activeTab, c.left, status, snapshotId, calls)
      BY <1>3, <1>6, <2>1, <2>2 DEF CatInv, NewestIsExact
    <3>2. ExactIn(c.got, activeTab, c.left, status, snapshotId, calls')
      <4> HIDE DEF status
      <4> QED
        BY <1>10, <3>1, ExactStays
    <3>3. ExactIn(both, activeTab, rest, status, snapshotId, calls')
      <4>1. DOMAIN both = {o \in DOMAIN status : TabOf(CatObjects[o]) = activeTab /\ CatObjects[o] \notin rest}
        BY <1>3, <1>4, <3>1, <3>2 DEF ExactIn, rest
      <4> HIDE DEF status
      <4> QED
        BY <1>4, <3>2, <4>1 DEF ExactIn
    <3> QED
      BY <1>6, <2>2, <3>1, <3>3
  <2>3. CASE x # d
    <3>1. x \in calls
      BY <1>2, <2>3
    <3>2. /\ x.snap = snapshotId /\ x.tab = activeTab
          /\ ExactIn(x.got, activeTab, x.left, snapshots[snapshotId].status, snapshotId, calls)
      BY <2>1, <3>1 DEF CatInv, NewestIsExact
    <3> QED
      BY <1>10, <3>2, ExactStays
  <2> QED
    BY <2>2, <2>3
<1>12. ListIsExact(allObjects, activeTab, stray, calls', snapshotId, snapshots[snapshotId].status)
  BY <1>2, <1>3, <1>6 DEF ListIsExact
<1>13. ToldIsTrue(told, calls', snapshotId, snapshots[snapshotId], actual)
  <2>1. \A p, o : WillTell(calls, snapshotId, p, o) => WillTell(calls', snapshotId, p, o)
    BY <1>2, <1>3 DEF WillTell
  <2> QED
    BY <2>1 DEF CatInv, ToldIsTrue
<1> QED
  BY <1>2, <1>9, <1>11, <1>12, <1>13 DEF CatInv

LEMMA ListRefusedStep ==
  ASSUME CatInv, NEW c \in calls, NEW type \in c.left, ListRefused(c, type)
  PROVE  CatInv'
<1> DEFINE no == FALSE
           rest == c.left \ {type}
           e == [c EXCEPT !.left = rest]
           d == [e EXCEPT !.fresh = no]
           status == snapshots[snapshotId].status
<1>1. CatShape /\ CatCallOK(c, ticket, Len(snapshots), snapshotId) /\ Len(snapshots) \in Nat
  BY CallsFacts DEF CatInv, CatShape
<1>2. /\ calls' = (calls \ {c}) \cup {d}
      /\ UNCHANGED <<actual, snapshots, catPair, snapshotId, catLoading, activeTab, allObjects, typeLoading, stray, syncBusy, ticket, told>>
  BY DEF ListRefused, Becomes, catList, catServer
<1>3. ~no
  OBVIOUS
<1>b. no \in BOOLEAN
  OBVIOUS
<1>4. c.kind = "list" /\ rest \subseteq TypesOf(c.tab)
  BY <1>1 DEF CatCallOK
<1> HIDE DEF no, rest
<1>5. /\ CallFields \subseteq DOMAIN e /\ e = [f \in DOMAIN e |-> e[f]] /\ e.kind = c.kind /\ e.of = c.of /\ e.tab = c.tab
      /\ e.n = c.n /\ e.snap = c.snap /\ e.got = c.got /\ e.left = rest /\ e.st = c.st
  BY <1>1 DEF CatCallOK, CallFields
<1> HIDE DEF e
<1>6. /\ CallFields \subseteq DOMAIN d /\ d = [f \in DOMAIN d |-> d[f]] /\ d.kind = c.kind /\ d.of = c.of /\ d.tab = c.tab
      /\ d.n = c.n /\ d.snap = c.snap /\ d.got = c.got /\ d.left = rest /\ d.st = c.st /\ d.fresh = no
  BY <1>5 DEF CallFields
<1> HIDE DEF d
<1>7. CatCallOK(d, ticket, Len(snapshots), snapshotId)
  BY <1>1, <1>b, <1>4, <1>6 DEF CatCallOK
<1>8. CatShape'
  BY <1>1, <1>2, <1>4, <1>6, <1>7 DEF CatShape
<1>9. NewestIsExact(calls', snapshotId, activeTab, status)
  <2>1. NewestIsExact(calls, snapshotId, activeTab, status) /\ \A x \in calls : x.n \in Nat
    BY <1>1, CallsFacts DEF CatInv
  <2>2. \A o : Recompared(calls, snapshotId, o) => Recompared(calls', snapshotId, o)
    BY <1>2, <1>4 DEF Recompared
  <2>3. \A x \in calls' : x.kind = "list" /\ x.fresh => x \in calls
    BY <1>2, <1>3, <1>6
  <2>4. \A y \in calls : y.kind = "list" => \E x \in calls' : x.kind = "list" /\ x.n = y.n
    BY <1>2, <1>4, <1>6
  <2> HIDE DEF status
  <2> QED
    BY <2>1, <2>2, <2>3, <2>4, NewestStays
<1>10. ListIsExact(allObjects, activeTab, stray, calls', snapshotId, status)
  BY <1>2, <1>4, <1>6 DEF ListIsExact
<1>11. ToldIsTrue(told, calls', snapshotId, snapshots[snapshotId], actual)
  <2>1. \A p, o : WillTell(calls, snapshotId, p, o) => WillTell(calls', snapshotId, p, o)
    BY <1>2, <1>4 DEF WillTell
  <2> QED
    BY <2>1 DEF CatInv, ToldIsTrue
<1> QED
  BY <1>2, <1>8, <1>9, <1>10, <1>11 DEF CatInv

LEMMA AlikeOK ==
  ASSUME NEW x, NEW d, NEW m, NEW k, NEW s, Alike(x, d), CatCallOK(d, m, k, s)
  PROVE  CatCallOK(x, m, k, s)
BY DEF Alike, CatCallOK

\* Reads end, answered in full or not: those that were asked before them are overtaken.
LEMMA ReadsEndStep ==
  ASSUME CatInv, NEW c \in calls, c.kind = "list", calls' = Without(c), typeLoading' = FALSE,
         UNCHANGED <<actual, snapshots, catPair, snapshotId, catLoading, activeTab, syncBusy, ticket, told>>,
         \/ allObjects' = c.got /\ c.left = {} /\ stray' = ~c.fresh
         \/ allObjects' = allObjects /\ stray' = TRUE
  PROVE  CatInv'
<1> DEFINE status == snapshots[snapshotId].status
<1>1. CatShape /\ CatCallOK(c, ticket, Len(snapshots), snapshotId) /\ snapshotId # 0 /\ \A d \in calls : Alike(d, d) /\ d.n \in Nat
  BY CallsFacts DEF CatInv, CatShape, CatCallOK
<1>2. /\ \A x \in calls' : \E d \in calls \ {c} : Alike(x, d) /\ (x.fresh <=> d.fresh /\ d.n > c.n)
      /\ \A d \in calls \ {c} : \E x \in calls' : Alike(x, d) /\ (x.fresh <=> d.fresh /\ d.n > c.n)
  BY <1>1, WithoutIs
<1>3. CatShape'
  <2>1. \A x \in calls' : CatCallOK(x, ticket, Len(snapshots), snapshotId)
    BY <1>1, <1>2, AlikeOK DEF CatShape
  <2>2. DOMAIN allObjects' \subseteq DOMAIN CatObjects /\ stray' \in BOOLEAN
    BY <1>1 DEF CatCallOK, CatShape
  <2> QED
    BY <1>1, <2>1, <2>2 DEF CatShape
<1>4. \A o : Recompared(calls, snapshotId, o) => Recompared(calls', snapshotId, o)
  <2> SUFFICES ASSUME NEW o, NEW d \in calls, d.kind = "compare", d.st = "ok", d.snap = snapshotId, d.obj = o
               PROVE  Recompared(calls', snapshotId, o)
    BY DEF Recompared
  <2>1. d \in calls \ {c}
    OBVIOUS
  <2>2. PICK x \in calls' : Alike(x, d)
    BY <1>2, <2>1
  <2> QED
    BY <2>2 DEF Alike, Recompared
<1>5. NewestIsExact(calls', snapshotId, activeTab, status)
  <2>1. NewestIsExact(calls, snapshotId, activeTab, status)
    BY DEF CatInv
  <2>2. ASSUME NEW x \in calls', x.kind = "list", x.fresh
        PROVE  \E d \in calls : /\ d.kind = "list" /\ d.fresh /\ d.n = x.n /\ d.snap = x.snap /\ d.tab = x.tab
                                /\ d.got = x.got /\ d.left = x.left /\ d.n > c.n
    BY <1>2, <2>2 DEF Alike
  <2>3. ASSUME NEW d \in calls, NEW x \in calls', d.kind = "list", x.kind = "list", x.fresh
        PROVE  d.n <= x.n \/ \E y \in calls' : y.kind = "list" /\ y.n = d.n
    <3>1. CASE d = c
      BY <1>1, <2>2, <2>3, <3>1
    <3>2. CASE d # c
      BY <1>2, <2>3, <3>2 DEF Alike
    <3> QED
      BY <3>1, <3>2
  <2> HIDE DEF status
  <2> QED
    BY <1>1, <1>4, <2>1, <2>2, <2>3, NewestStays
<1>6. ListIsExact(allObjects', activeTab, stray', calls', snapshotId, status)
  <2> SUFFICES ASSUME ~stray', \A x \in calls' : x.kind # "list"
               PROVE  ExactIn(allObjects', activeTab, {}, status, snapshotId, calls')
    BY DEF ListIsExact
  <2>1. c.fresh /\ allObjects' = c.got /\ c.left = {}
    OBVIOUS
  <2>2. \A d \in calls : d.kind = "list" => d = c
    BY <1>2 DEF Alike
  <2>5. NewestIsExact(calls, snapshotId, activeTab, status) /\ \A d \in calls : d.kind = "list" => d.n <= c.n
    BY <1>1, <2>2 DEF CatInv
  <2> HIDE DEF status
  <2>3. ExactIn(c.got, activeTab, c.left, status, snapshotId, calls)
    BY <2>1, <2>5 DEF NewestIsExact
  <2>4. ExactIn(c.got, activeTab, c.left, status, snapshotId, calls')
    BY <1>4, <2>3, ExactStays
  <2> QED
    BY <2>1, <2>4
<1>7. ToldIsTrue(told, calls', snapshotId, snapshots[snapshotId], actual)
  <2>1. ASSUME NEW p, NEW o, WillTell(calls, snapshotId, p, o) PROVE WillTell(calls', snapshotId, p, o)
    <3>1. PICK d \in calls : /\ d.kind \notin {"load", "list"} /\ d.obj = o /\ d.snap = snapshotId /\ d.of = p
                             /\ d.st = (IF d.kind = "compare" THEN "sent" ELSE "ok")
      BY <2>1 DEF WillTell
    <3>2. d \in calls \ {c}
      BY <3>1
    <3>3. PICK x \in calls' : Alike(x, d)
      BY <1>2, <3>2
    <3> QED
      BY <3>1, <3>3 DEF Alike, WillTell
  <2> QED
    BY <2>1 DEF CatInv, ToldIsTrue
<1> QED
  BY <1>3, <1>5, <1>6, <1>7 DEF CatInv

LEMMA ListEndStep ==
  ASSUME CatInv, NEW c \in calls, ListLands(c) \/ ListFails(c)
  PROVE  CatInv'
<1>1. CatCallOK(c, ticket, Len(snapshots), snapshotId)
  BY DEF CatInv, CatShape
<1>2. CASE ListLands(c)
  BY <1>2, ReadsEndStep DEF ListLands, catServer
<1>3. CASE ListFails(c)
  BY <1>1, <1>3, ReadsEndStep DEF ListFails, catServer, CatCallOK
<1> QED
  BY <1>2, <1>3

LEMMA CatRequestFailsStep ==
  ASSUME CatInv, NEW c \in calls, CatRequestFails(c)
  PROVE  CatInv'
<1> DEFINE status == snapshots[snapshotId].status
           unread == c.kind = "compare" /\ c.st = "ok"
<1>1. CatShape /\ CatCallOK(c, ticket, Len(snapshots), snapshotId) /\ \A d \in calls : Alike(d, d) /\ d.n \in Nat
  BY CallsFacts DEF CatInv, CatShape
<1>2. CASE c.kind = "load"
  <2> DEFINE d == [c EXCEPT !.st = "failed"]
  <2>1. /\ calls' = (calls \ {c}) \cup {d}
        /\ UNCHANGED <<actual, snapshots, catPair, snapshotId, catLoading, activeTab, allObjects, typeLoading, syncBusy, ticket, told>>
    BY <1>2 DEF CatRequestFails, Becomes, catServer
  <2>2. stray' = stray
    BY <1>1, <1>2 DEF CatRequestFails, CatShape
  <2>3. /\ CallFields \subseteq DOMAIN d /\ d = [f \in DOMAIN d |-> d[f]] /\ d.kind = c.kind /\ d.of = c.of /\ d.tab = c.tab
        /\ d.n = c.n /\ d.fresh = c.fresh /\ d.snap = c.snap /\ d.got = c.got /\ d.left = c.left /\ d.st = "failed"
    BY <1>1 DEF CatCallOK, CallFields
  <2> HIDE DEF d
  <2>4. CatCallOK(d, ticket, Len(snapshots'), snapshotId) /\ Len(snapshots) <= Len(snapshots')
    BY <1>1, <1>2, <2>1, <2>3, CallsFacts DEF CatCallOK, CatInv
  <2>5. /\ actual' \in [CatPairs -> [DOMAIN CatObjects -> CatStatus]] /\ syncBusy' \cup told' \subseteq DOMAIN CatObjects
        /\ snapshots' \in Seq(CatShots)
    BY <1>1, <2>1 DEF CatShape
  <2>6. ToldIsTrue(told, calls, snapshotId, snapshots[snapshotId], actual)'
    <3>1. \A p, o : WillTell(calls, snapshotId, p, o) => WillTell(calls', snapshotId, p, o)
      BY <1>2, <2>1 DEF WillTell
    <3> QED
      BY <2>1, <3>1 DEF CatInv, ToldIsTrue
  <2> QED
    BY <1>2, <2>1, <2>2, <2>3, <2>4, <2>5, <2>6, OneCallStep
<1>3. CASE c.kind # "load"
  <2>1. /\ c.kind # "list" /\ syncBusy' = syncBusy \ {c.obj} /\ told' = told \ {c.obj}
        /\ calls' = CallsAfter(c, unread)
        /\ UNCHANGED <<actual, snapshots, catPair, snapshotId, catLoading, activeTab, allObjects, typeLoading, ticket>>
    BY <1>3 DEF CatRequestFails, catServer, CallsAfter
  <2>2. stray' = (stray \/ unread)
    BY <1>3 DEF CatRequestFails
  <2>3. unread \in BOOLEAN
    OBVIOUS
  <2>4. ~unread => \A o : Recompared(calls, snapshotId, o) => Recompared(calls \ {c}, snapshotId, o)
    BY DEF Recompared
  <2> HIDE DEF unread
  <2>5. /\ \A x \in calls' : \E d \in calls \ {c} : Alike(x, d) /\ (x.fresh <=> d.fresh /\ ~unread)
        /\ \A d \in calls \ {c} : \E x \in calls' : Alike(x, d) /\ (x.fresh <=> d.fresh /\ ~unread)
    BY <1>1, <2>1, <2>3, UnreadIs
  <2>6. \A x \in calls' : CatCallOK(x, ticket, Len(snapshots), snapshotId)
    BY <1>1, <2>5, AlikeOK DEF CatShape
  <2>13. ASSUME NEW d \in calls, d.kind = "list" PROVE \E x \in calls' : x.kind = "list" /\ x.n = d.n
    <3>1. d \in calls \ {c}
      BY <2>1, <2>13
    <3>2. PICK x \in calls' : Alike(x, d)
      BY <2>5, <3>1
    <3> QED
      BY <2>13, <3>2 DEF Alike
  <2>7. typeLoading => \E x \in calls' : x.kind = "list"
    BY <1>1, <2>13 DEF CatShape
  <2>8. CatShape'
    <3>1. stray' \in BOOLEAN
      BY <1>1, <2>2, <2>3 DEF CatShape
    <3> QED
      BY <1>1, <2>1, <2>6, <2>7, <3>1 DEF CatShape
  <2>9. ~unread => \A o : Recompared(calls, snapshotId, o) => Recompared(calls', snapshotId, o)
    <3>1. \A o : Recompared(calls \ {c}, snapshotId, o) => Recompared(calls', snapshotId, o)
      BY <2>5 DEF Recompared, Alike
    <3> QED
      BY <2>4, <3>1
  <2>10. NewestIsExact(calls', snapshotId, activeTab, status)
    <3>1. NewestIsExact(calls, snapshotId, activeTab, status)
      BY DEF CatInv
    <3>2. ASSUME NEW x \in calls', x.kind = "list", x.fresh
          PROVE  /\ ~unread
                 /\ \E d \in calls : /\ d.kind = "list" /\ d.fresh /\ d.n = x.n /\ d.snap = x.snap /\ d.tab = x.tab
                                     /\ d.got = x.got /\ d.left = x.left
      BY <2>5, <3>2 DEF Alike
    <3> HIDE DEF status
    <3> QED
      BY <1>1, <2>9, <2>13, <3>1, <3>2, NewestStays
  <2>11. ListIsExact(allObjects, activeTab, stray', calls', snapshotId, status)
    <3>1. ListIsExact(allObjects, activeTab, stray, calls, snapshotId, status)
      BY DEF CatInv
    <3>2. ASSUME ~stray', \A x \in calls' : x.kind # "list" PROVE ~unread /\ ~stray /\ \A d \in calls : d.kind # "list"
      BY <2>2, <2>13, <3>2
    <3> HIDE DEF status
    <3> QED
      BY <2>9, <3>1, <3>2, ExactStays DEF ListIsExact
  <2>12. ToldIsTrue(told', calls', snapshotId, snapshots[snapshotId], actual)
    <3>1. ASSUME NEW p, NEW o, o # c.obj, WillTell(calls, snapshotId, p, o) PROVE WillTell(calls', snapshotId, p, o)
      <4>1. PICK d \in calls : /\ d.kind \notin {"load", "list"} /\ d.obj = o /\ d.snap = snapshotId /\ d.of = p
                               /\ d.st = (IF d.kind = "compare" THEN "sent" ELSE "ok")
        BY <3>1 DEF WillTell
      <4>2. d \in calls \ {c}
        BY <3>1, <4>1
      <4>3. PICK x \in calls' : Alike(x, d)
        BY <2>5, <4>2
      <4> QED
        BY <4>1, <4>3 DEF Alike, WillTell
    <3> QED
      BY <2>1, <3>1 DEF CatInv, ToldIsTrue
  <2> QED
    BY <2>1, <2>8, <2>10, <2>11, <2>12 DEF CatInv
<1> QED
  BY <1>2, <1>3

LEMMA CatStepInv == CatInv /\ [CatNext]_catVars => CatInv'
<1> SUFFICES ASSUME CatInv, [CatNext]_catVars PROVE CatInv'
  OBVIOUS
<1>1. CASE UNCHANGED catVars
  BY <1>1 DEF catVars, catServer, catList, CatInv, CatShape
<1>2. CASE CatNext
  BY <1>2, TargetStep, ClickStep, TabStep, LoadServedStep, LoadLandsStep, ListServedStep, ListRefusedStep, ListEndStep, SyncServedStep,
     SyncLandsStep, CompareServedStep, CompareLandsStep, CatRequestFailsStep DEF CatNext
<1> QED
  BY <1>1, <1>2

(* CatInv is an inductive invariant of the catalog page.                   *)
THEOREM CatAlways == CatSpec => []CatInv
<1>1. CatInit => CatInv
  <2> SUFFICES ASSUME CatInit PROVE CatInv
    OBVIOUS
  <2>1. actual \in [CatPairs -> [DOMAIN CatObjects -> CatStatus]] /\ snapshots \in Seq(CatShots) /\ Len(snapshots) = 0
    BY CatAssumption DEF CatInit
  <2>2. CatShape
    <3>1. catLoading \in BOOLEAN /\ typeLoading \in BOOLEAN /\ stray \in BOOLEAN /\ ~typeLoading
      BY DEF CatInit
    <3>2. DOMAIN allObjects = {} /\ activeTab \in CatTabs /\ calls = {} /\ ticket = 0 /\ snapshotId = 0 /\ catPair \in CatPairs
          /\ syncBusy = {} /\ told = {}
      BY DEF CatInit, NothingListed, CatTabs
    <3> QED
      BY <2>1, <3>1, <3>2 DEF CatShape
  <2> QED
    BY <2>2 DEF CatInit, CatInv, NewestIsExact, ListIsExact, ToldIsTrue
<1> QED
  BY <1>1, CatStepInv, PTL DEF CatSpec

(* DDLCatalog.tsx: the list, the tab, the snapshot and the requests keep   *)
(* the types the code gives them.                                          *)
THEOREM CatTypeCorrect == CatSpec => []CatTypeOK
<1>1. CatInv => CatTypeOK
  BY DEF CatInv, CatShape, CatCallOK, CatKinds, CatTypeOK
<1> QED
  BY <1>1, CatAlways, PTL

(* DDLCatalog.tsx, catalog.py: once nothing is under way, and unless the   *)
(* list was last put by overtaken, old or incomplete answers, the page has *)
(* what the snapshot has, and an object that was levelled or compared here *)
(* is shown as it is.                                                      *)
THEOREM CatalogIsShownHolds == CatSpec => []CatalogIsShown
<1>1. CatInv => CatalogIsShown
  <2> SUFFICES ASSUME CatInv, calls = {}, snapshotId # 0, ~stray
               PROVE  LET shot == snapshots[snapshotId] IN
                      /\ {<<r.obj, allObjects[r.obj]>> : r \in CatRows} =
                           {<<o, shot.status[o]>> : o \in {x \in DOMAIN shot.status : TabOf(CatObjects[x]) = activeTab}}
                      /\ \A r \in CatRows : (r.obj \in told /\ TypeKnown(r.type)) =>
                                              allObjects[r.obj] = ComparedAs(r.obj, actual[shot.of][r.obj])
    BY DEF CatalogIsShown
  <2> DEFINE status == snapshots[snapshotId].status
  <2>1. /\ DOMAIN allObjects = {o \in DOMAIN status : TabOf(CatObjects[o]) = activeTab}
        /\ \A o \in DOMAIN allObjects : allObjects[o] = status[o]
    BY DEF CatInv, ListIsExact, ExactIn, Recompared
  <2>2. ASSUME NEW r \in CatRows
        PROVE  r.obj \in DOMAIN allObjects /\ r.type = ButtonType(r.obj)
    BY RowsHeld DEF CatInv
  <2>3. ASSUME NEW o \in DOMAIN allObjects PROVE \E r \in CatRows : r.obj = o
    <3>1. activeTab \in CatTabs /\ ~typeLoading /\ TabOf(CatObjects[o]) = activeTab
      BY <2>1, <2>3 DEF CatInv, CatShape
    <3>2. o \in Held(activeTab)
      BY <2>3, <3>1 DEF Held
    <3>3. CASE activeTab = "tables"
      <4> DEFINE r == [obj |-> o, type |-> "TABLE"]
      <4>1. r \in TablesTab("ALL") /\ "ALL" \in TableFilters
        BY <3>2, <3>3 DEF TablesTab, StatusFilter, TableFilters
      <4> QED
        BY <3>1, <3>3, <4>1 DEF CatRows
    <3>4. CASE activeTab = "views"
      <4> DEFINE r == [obj |-> o, type |-> IF CatObjects[o] = "VIEW" THEN "VIEW" ELSE "MVIEW"]
      <4>1. r \in ViewsTab
        BY <3>2, <3>4 DEF ViewsTab
      <4> QED
        BY <3>1, <3>4, <4>1 DEF CatRows
    <3>5. CASE activeTab = "code"
      <4> DEFINE r == [obj |-> o, type |-> CatObjects[o]]
      <4>1. r \in CodeTab("ALL") /\ "ALL" \in CodeFilters
        BY <3>2, <3>5 DEF CodeTab, CodeFilters
      <4> QED
        BY <3>1, <3>5, <4>1 DEF CatRows
    <3>6. CASE activeTab = "other"
      <4> DEFINE r == [obj |-> o, type |-> CatObjects[o]]
      <4>1. r \in OtherTab
        BY <3>2, <3>6 DEF OtherTab
      <4> QED
        BY <3>1, <3>6, <4>1 DEF CatRows
    <3> QED
      BY <3>1, <3>3, <3>4, <3>5, <3>6 DEF CatTabs
  <2>4. {<<r.obj, allObjects[r.obj]>> : r \in CatRows} =
          {<<o, status[o]>> : o \in {x \in DOMAIN status : TabOf(CatObjects[x]) = activeTab}}
    <3> HIDE DEF status
    <3>1. ASSUME NEW r \in CatRows
          PROVE  <<r.obj, allObjects[r.obj]>> \in {<<o, status[o]>> : o \in {x \in DOMAIN status : TabOf(CatObjects[x]) = activeTab}}
      BY <2>1, <2>2
    <3>2. ASSUME NEW o \in {x \in DOMAIN status : TabOf(CatObjects[x]) = activeTab}
          PROVE  <<o, status[o]>> \in {<<r.obj, allObjects[r.obj]>> : r \in CatRows}
      BY <2>1, <2>3
    <3> QED
      BY <3>1, <3>2
  <2>5. ASSUME NEW r \in CatRows, r.obj \in told, TypeKnown(r.type)
        PROVE  allObjects[r.obj] = ComparedAs(r.obj, actual[snapshots[snapshotId].of][r.obj])
    BY <2>1, <2>2, <2>5 DEF CatInv, ToldIsTrue, WillTell
  <2> QED
    BY <2>4, <2>5
<1> QED
  BY <1>1, CatAlways, PTL

-----------------------------------------------------------------------------
(***************************************************************************)
(* MigrationDetail: the panel of one migration.                            *)
(***************************************************************************)
(* What an accepted request makes of a phase and of the paused flag.       *)
LEMMA EffectFacts ==
  ASSUME NEW r, r.phase \in ValidPhases \cup {Gone}, r.paused \in BOOLEAN, NEW act
  PROVE  /\ Target(act, r) \in ValidPhases \cup {Gone}
         /\ (CASE act = "pause" -> TRUE [] act = "resume" -> FALSE [] OTHER -> r.paused) \in BOOLEAN
<1> DEFINE P == ValidPhases \cup {Gone}
<1>1. \A x \in {"NEW", "CANCELLING", "DATA_VERIFYING", "COMPLETED", Gone, "INDEXES_ENABLING",
               "BASELINE_PUBLISHING", "BULK_LOADING"} : x \in P
  BY DEF ValidPhases, ServerActive
<1>2. r.phase \in P
  OBVIOUS
<1>3. Target(act, r) \in P
  <2> HIDE DEF P
  <2> QED
    BY <1>1, <1>2, Zenon DEF Target
<1>4. (CASE act = "pause" -> TRUE [] act = "resume" -> FALSE [] OTHER -> r.paused) \in BOOLEAN
  OBVIOUS
<1> QED
  BY <1>3, <1>4

(* The detail panel. A request carries what was offered for some detail,   *)
(* maybe another migration's; what the panel does not check the server     *)
(* does.                                                                   *)
PanelActs ==
  {"enable_indexes", "restart_baseline", "retry_verify", "force_complete", "create_trigger_job",
   "pause", "resume", "stop", "delete", "run_trigger_job"}

RequestType ==
  [to : Migs, act : PanelActs, n : Nat, st : {"sent", "accepted", "refused"},
   job : Migs \cup {"none"}]
AskType == [id : Migs, r : RecType \cup {Unanswered}]
JobAnswerType == [of : Migs, st : JobState \cup {"?"}, alive : BOOLEAN]
JobOnScreen == [of : Migs \cup {"none"}, st : JobState]

DetailTyped ==
  /\ rec \in [Migs -> RecType] /\ job \in [Migs -> JobState] /\ sel \in Migs
  /\ detail \in [id : Migs, r : RecType] \cup {NoDetail}
  /\ asks \subseteq AskType /\ IsFiniteSet(asks) /\ Cardinality(asks) <= MaxAsk
  /\ jobs \in JobOnScreen /\ jobAnswers \subseteq JobAnswerType
  /\ busy \subseteq Groups /\ requests \subseteq RequestType /\ done \in 0..MaxPost

RequestsDiffer ==
  /\ \A q \in requests : q.n < done
  /\ \A p, q \in requests : p.n = q.n => p = q

DetailInv == DetailTyped /\ RequestsDiffer

(* What the panel may offer, whatever detail it is drawn from.             *)
LEMMA OfferedActs == Offered \subseteq PanelActs
BY DEF Offered, HeaderActions, StopDeleteActions, RowActions, TriggerActions, PanelActs

LEMMA GroupsOfActs ==
  ASSUME NEW act \in PanelActs PROVE GroupOf(act) \in Groups
BY DEF PanelActs, GroupOf, Groups

(* Those that are checked are accepted in no phase without their button.   *)
LEMMA CheckedByServer ==
  ASSUME NEW act \in PanelActs \ Unchecked, NEW r, Accepts(act, r)
  PROVE  act \in HeaderActions(r)
<1>1. CASE act = "delete"
  BY <1>1 DEF Accepts, HeaderActions, StopDeleteActions, RowActions, ServerDeletable,
              ConsoleDeletable
<1>2. CASE act = "enable_indexes"
  BY <1>2 DEF Accepts, HeaderActions
<1>3. CASE act = "restart_baseline"
  BY <1>3 DEF Accepts, HeaderActions
<1>4. CASE act \in {"retry_verify", "force_complete"}
  BY <1>4 DEF Accepts, HeaderActions
<1> QED
  BY <1>1, <1>2, <1>3, <1>4 DEF PanelActs, Unchecked

LEMMA EffectOnRec ==
  ASSUME NEW r \in RecType, NEW act PROVE Effect(act, r) \in RecType
<1> DEFINE t == Target(act, r)
           b == CASE act = "pause" -> TRUE [] act = "resume" -> FALSE [] OTHER -> r.paused
<1>1. t \in ValidPhases \cup {Gone} /\ b \in BOOLEAN
  BY EffectFacts DEF RecType
<1>2. Effect(act, r) = [r EXCEPT !.phase = t, !.paused = b]
  BY DEF Effect, RecType
<1> HIDE DEF t, b
<1> QED
  BY <1>1, <1>2 DEF RecType

(* The bound on the detail requests, and what is asked of the server.      *)
LEMMA LoadDetailType ==
  ASSUME DetailTyped, NEW m \in Migs, LoadDetail(m)
  PROVE  asks' \subseteq AskType /\ IsFiniteSet(asks') /\ Cardinality(asks') <= MaxAsk
<1> DEFINE a == [id |-> m, r |-> Unanswered]
<1>1. a \in AskType
  BY DEF AskType
<1> HIDE DEF a
<1>2. CASE Cardinality(asks) < MaxAsk
  <2>1. asks' = asks \cup {a}
    BY <1>2 DEF LoadDetail, a
  <2>2. Cardinality(asks) \in Nat
    BY FS_CardinalityType DEF DetailTyped
  <2>3. /\ IsFiniteSet(asks \cup {a})
        /\ \/ Cardinality(asks \cup {a}) = Cardinality(asks)
           \/ Cardinality(asks \cup {a}) = Cardinality(asks) + 1
    BY FS_AddElement DEF DetailTyped
  <2> QED
    BY <1>1, <1>2, <2>1, <2>2, <2>3, DetailAssumption DEF DetailTyped
<1>3. CASE ~(Cardinality(asks) < MaxAsk)
  BY <1>3 DEF LoadDetail, DetailTyped
<1> QED
  BY <1>2, <1>3

LEMMA AskJobsType ==
  ASSUME DetailTyped, NEW m \in Migs, NEW alive \in BOOLEAN, AskJobs(m, alive)
  PROVE  jobAnswers' \subseteq JobAnswerType
BY DEF DetailTyped, AskJobs, JobAnswerType

(* An element of a set gives its place to another one.                     *)
LEMMA ReplacedInSet ==
  ASSUME NEW S, IsFiniteSet(S), NEW x \in S, NEW y
  PROVE  /\ IsFiniteSet((S \ {x}) \cup {y})
         /\ Cardinality((S \ {x}) \cup {y}) <= Cardinality(S)
<1> DEFINE T == S \ {x}
<1>1. IsFiniteSet(T) /\ Cardinality(T) = Cardinality(S) - 1
  BY FS_RemoveElement
<1>2. Cardinality(T) \in Nat /\ Cardinality(S) \in Nat
  BY <1>1, FS_CardinalityType
<1> HIDE DEF T
<1>3. /\ IsFiniteSet(T \cup {y})
      /\ Cardinality(T \cup {y}) = Cardinality(T) \/ Cardinality(T \cup {y}) = Cardinality(T) + 1
  BY <1>1, FS_AddElement
<1> QED
  BY <1>1, <1>2, <1>3 DEF T

LEMMA FewerInSet ==
  ASSUME NEW S, IsFiniteSet(S), NEW x \in S
  PROVE  IsFiniteSet(S \ {x}) /\ Cardinality(S \ {x}) <= Cardinality(S)
<1>1. IsFiniteSet(S \ {x}) /\ Cardinality(S \ {x}) = Cardinality(S) - 1
  BY FS_RemoveElement
<1> QED
  BY <1>1, FS_CardinalityType

LEMMA DetailInvInit == DetailInit => DetailInv
<1> SUFFICES ASSUME DetailInit PROVE DetailInv
  OBVIOUS
<1>1. rec \in [Migs -> RecType] /\ 0 \in 0..MaxPost
  BY DetailAssumption DEF DetailInit
<1>2. job \in [Migs -> JobState]
  BY DEF DetailInit, JobState
<1>3. asks \subseteq AskType /\ IsFiniteSet(asks) /\ Cardinality(asks) <= MaxAsk
  <2> DEFINE a == [id |-> sel, r |-> Unanswered]
  <2>1. a \in AskType
    BY DEF DetailInit, AskType
  <2> HIDE DEF a
  <2>2. asks = {a}
    BY DEF DetailInit, a
  <2>3. IsFiniteSet({a}) /\ Cardinality({a}) = 1
    BY FS_Singleton
  <2> QED
    BY <2>1, <2>2, <2>3, DetailAssumption
<1>4. jobs \in JobOnScreen
  BY DEF DetailInit, NoJob, JobOnScreen, JobState
<1> QED
  BY <1>1, <1>2, <1>3, <1>4 DEF DetailInit, DetailInv, DetailTyped, RequestsDiffer

(* Steps that leave the requests alone.                                    *)
LEMMA RequestsKept ==
  ASSUME DetailInv, DetailTyped', requests' = requests, done' = done PROVE DetailInv'
BY DEF DetailInv, RequestsDiffer

LEMMA DetailInvStep == DetailInv /\ [DetailNext]_detailVars => DetailInv'
<1> SUFFICES ASSUME DetailInv, [DetailNext]_detailVars PROVE DetailInv'
  OBVIOUS
<1> USE DEF DetailTyped, panelVars, triggerVars
<1>0. DetailTyped
  BY DEF DetailInv
<1>1. ASSUME NEW m \in Migs, Choose(m) PROVE DetailInv'
  <2>1. asks' \subseteq AskType /\ IsFiniteSet(asks') /\ Cardinality(asks') <= MaxAsk
    BY <1>0, <1>1, LoadDetailType DEF Choose
  <2>2. jobAnswers' \subseteq JobAnswerType
    BY <1>0, <1>1, AskJobsType DEF Choose
  <2>3. DetailTyped'
    BY <1>0, <1>1, <2>1, <2>2 DEF Choose
  <2> QED
    BY <1>1, <2>3, RequestsKept DEF Choose
<1>2. ASSUME NEW m \in Migs, JobEnds(m) PROVE DetailInv'
  <2>1. job' \in [Migs -> JobState]
    BY <1>0, <1>2 DEF JobEnds, JobState
  <2>2. DetailTyped'
    BY <1>0, <1>2, <2>1 DEF JobEnds
  <2> QED
    BY <1>2, <2>2, RequestsKept DEF JobEnds
<1>3. ASSUME NEW m \in Migs, MoveOn(m) PROVE DetailInv'
  <2>1. rec' \in [Migs -> RecType]
    <3>1. PICK move \in RecMoves :
            rec' = [rec EXCEPT ![m].phase = move[2],
                               ![m].error = IF move[2] = "FAILED" THEN "BASELINE_LOAD_FAILED" ELSE @]
      BY <1>3 DEF MoveOn
    <3> DEFINE e == IF move[2] = "FAILED" THEN "BASELINE_LOAD_FAILED" ELSE rec[m].error
               r == [rec[m] EXCEPT !.phase = move[2], !.error = e]
    <3>2. rec[m] \in RecType /\ move[2] \in ValidPhases
      BY <1>0, DetailAssumption
    <3>3. e \in BaselineErrors \cup {"INDEXES_ENABLE_ERROR", "another", "none"}
      BY <3>2 DEF RecType, BaselineErrors
    <3>4. rec' = [rec EXCEPT ![m] = r]
      BY <1>0, <3>1, <3>2 DEF RecType
    <3> HIDE DEF e
    <3>5. r \in RecType
      BY <3>2, <3>3 DEF RecType
    <3> HIDE DEF r
    <3> QED
      BY <1>0, <3>4, <3>5
  <2>2. DetailTyped'
    BY <1>0, <1>3, <2>1 DEF MoveOn
  <2> QED
    BY <1>3, <2>2, RequestsKept DEF MoveOn
<1>4. ASSUME NEW a \in asks, ServeDetail(a) PROVE DetailInv'
  <2> DEFINE b == [a EXCEPT !.r = rec[a.id]]
  <2>1. b \in AskType
    BY <1>0 DEF AskType
  <2>2. asks' = (asks \ {a}) \cup {b}
    BY <1>4 DEF ServeDetail
  <2> HIDE DEF b
  <2>3. asks' \subseteq AskType
    BY <1>0, <2>1, <2>2
  <2>4. IsFiniteSet(asks') /\ Cardinality(asks') <= Cardinality(asks)
    BY <1>0, <2>2, ReplacedInSet
  <2>5. Cardinality(asks) \in Nat /\ Cardinality(asks') \in Nat /\ MaxAsk \in Nat
    BY <1>0, <2>4, FS_CardinalityType, DetailAssumption
  <2>6. DetailTyped'
    BY <1>0, <1>4, <2>3, <2>4, <2>5 DEF ServeDetail
  <2> QED
    BY <1>4, <2>6, RequestsKept DEF ServeDetail
<1>5. ASSUME NEW a \in asks, LandDetail(a) PROVE DetailInv'
  <2>1. IsFiniteSet(asks \ {a}) /\ Cardinality(asks \ {a}) <= Cardinality(asks)
    BY <1>0, FewerInSet
  <2>2. Cardinality(asks) \in Nat /\ Cardinality(asks \ {a}) \in Nat /\ MaxAsk \in Nat
    BY <1>0, <2>1, FS_CardinalityType, DetailAssumption
  <2>3. detail' \in [id : Migs, r : RecType]
    BY <1>0, <1>5 DEF LandDetail, AskType
  <2>4. jobs' \in JobOnScreen
    BY <1>0, <1>5 DEF LandDetail, NoJob, JobOnScreen, JobState
  <2>5. DetailTyped'
    BY <1>0, <1>5, <2>1, <2>2, <2>3, <2>4 DEF LandDetail
  <2> QED
    BY <1>5, <2>5, RequestsKept DEF LandDetail
<1>6. CASE SeeMigrationEvent
  <2>1. asks' \subseteq AskType /\ IsFiniteSet(asks') /\ Cardinality(asks') <= MaxAsk
    BY <1>0, <1>6, LoadDetailType DEF SeeMigrationEvent
  <2>2. DetailTyped'
    BY <1>0, <1>6, <2>1 DEF SeeMigrationEvent
  <2> QED
    BY <1>6, <2>2, RequestsKept DEF SeeMigrationEvent
<1>7. CASE PollJobs
  <2>1. jobAnswers' \subseteq JobAnswerType
    BY <1>0, <1>7, AskJobsType DEF PollJobs
  <2>2. DetailTyped'
    BY <1>0, <1>7, <2>1 DEF PollJobs
  <2> QED
    BY <1>7, <2>2, RequestsKept DEF PollJobs
<1>8. ASSUME NEW a \in jobAnswers, ServeJobs(a) PROVE DetailInv'
  <2>1. jobAnswers' \subseteq JobAnswerType
    BY <1>0, <1>8 DEF ServeJobs, JobAnswerType
  <2>2. DetailTyped'
    BY <1>0, <1>8, <2>1 DEF ServeJobs
  <2> QED
    BY <1>8, <2>2, RequestsKept DEF ServeJobs
<1>9. ASSUME NEW a \in jobAnswers, LandJobs(a) PROVE DetailInv'
  <2>1. jobs' \in JobOnScreen
    BY <1>0, <1>9 DEF LandJobs, JobAnswerType, JobOnScreen, NoJob, JobState
  <2>2. DetailTyped'
    BY <1>0, <1>9, <2>1 DEF LandJobs
  <2> QED
    BY <1>9, <2>2, RequestsKept DEF LandJobs
<1>10. ASSUME NEW act \in Offered, Click(act) PROVE DetailInv'
  <2> DEFINE q == [to |-> sel, act |-> act, n |-> done, st |-> "sent",
                   job |-> IF act = "run_trigger_job" THEN jobs.of ELSE "none"]
  <2>1. act \in PanelActs /\ GroupOf(act) \in Groups
    BY OfferedActs, GroupsOfActs
  <2>2. done \in Nat /\ done' \in 0..MaxPost /\ done' = done + 1
    BY <1>0, <1>10, DetailAssumption DEF Click
  <2>3. q \in RequestType /\ q.n = done
    BY <1>0, <2>1, <2>2 DEF RequestType, JobOnScreen
  <2>4. requests' = requests \cup {q}
    BY <1>10 DEF Click
  <2> HIDE DEF q
  <2>5. DetailTyped'
    BY <1>0, <1>10, <2>1, <2>2, <2>3, <2>4 DEF Click
  <2>6. \A p \in requests : p.n \in Nat /\ p.n < done
    BY <1>0 DEF DetailInv, RequestsDiffer, RequestType
  <2>7. (\A p \in requests' : p.n < done') /\ (\A p \in requests : p.n # q.n)
    BY <2>2, <2>3, <2>4, <2>6
  <2>8. RequestsDiffer'
    BY <2>4, <2>7 DEF DetailInv, RequestsDiffer
  <2> QED
    BY <2>5, <2>8 DEF DetailInv
<1>11. ASSUME NEW q \in requests, ServeRequest(q) PROVE DetailInv'
  <2> DEFINE o == IF AcceptsRequest(q) THEN "accepted" ELSE "refused"
             p == [q EXCEPT !.st = o]
  <2>1. requests' = (requests \ {q}) \cup {p}
    BY <1>11 DEF ServeRequest
  <2>2. p \in RequestType /\ p.n = q.n
    BY <1>0 DEF RequestType
  <2>3. q.to \in Migs
    BY <1>0 DEF RequestType
  <2> HIDE DEF o, p
  <2>4. rec' \in [Migs -> RecType]
    <3>1. Effect(q.act, rec[q.to]) \in RecType
      BY <1>0, <2>3, EffectOnRec
    <3> QED
      BY <1>0, <1>11, <3>1 DEF ServeRequest
  <2>5. job' \in [Migs -> JobState]
    <3>1. JobAfter(q) \in JobState
      BY <1>0, <2>3 DEF JobAfter, JobState
    <3> QED
      BY <1>0, <1>11, <3>1 DEF ServeRequest
  <2>6. DetailTyped'
    BY <1>0, <1>11, <2>1, <2>2, <2>4, <2>5 DEF ServeRequest
  <2>7. RequestsDiffer'
    BY <1>11, <2>1, <2>2 DEF DetailInv, RequestsDiffer, ServeRequest
  <2> QED
    BY <2>6, <2>7 DEF DetailInv
<1>12. ASSUME NEW q \in requests, RequestAnswered(q) PROVE DetailInv'
  <2>1. q.to \in Migs
    BY <1>0 DEF RequestType
  <2>2. asks' \subseteq AskType /\ IsFiniteSet(asks') /\ Cardinality(asks') <= MaxAsk
    BY <1>0, <1>12, <2>1, LoadDetailType DEF RequestAnswered
  <2>3. jobAnswers' \subseteq JobAnswerType
    BY <1>0, <1>12, <2>1, AskJobsType DEF RequestAnswered
  <2>4. DetailTyped'
    BY <1>0, <1>12, <2>2, <2>3 DEF RequestAnswered
  <2>5. RequestsDiffer'
    BY <1>12 DEF RequestAnswered, DetailInv, RequestsDiffer
  <2> QED
    BY <2>4, <2>5 DEF DetailInv
<1>13. CASE UNCHANGED detailVars
  <2>1. DetailTyped'
    BY <1>0, <1>13 DEF detailVars
  <2> QED
    BY <1>13, <2>1, RequestsKept DEF detailVars
<1> QED
  BY <1>1, <1>2, <1>3, <1>4, <1>5, <1>6, <1>7, <1>8, <1>9, <1>10, <1>11, <1>12, <1>13
     DEF DetailNext

(* Every reachable state of the detail panel is well typed, for any         *)
(* migrations and bounds.                                                   *)
THEOREM DetailTypeCorrect == DetailSpec => []DetailTypeOK
<1>1. DetailInv => DetailTypeOK
  <2> SUFFICES ASSUME DetailInv PROVE DetailTypeOK
    OBVIOUS
  <2>1. DetailTyped
    BY DEF DetailInv
  <2>2. \A m \in Migs : rec[m].paused \in BOOLEAN
    BY <2>1 DEF DetailTyped, RecType
  <2>3. detail.id \in Migs \cup {"none"}
    <3>1. CASE detail \in [id : Migs, r : RecType]
      BY <3>1
    <3>2. CASE detail = NoDetail
      BY <3>2 DEF NoDetail
    <3> QED
      BY <2>1, <3>1, <3>2 DEF DetailTyped
  <2>4. jobs.of \in Migs \cup {"none"} /\ jobs.st \in JobState
    BY <2>1 DEF DetailTyped, JobOnScreen
  <2> QED
    BY <2>1, <2>2, <2>3, <2>4 DEF DetailTyped, DetailTypeOK
<1> QED
  BY <1>1, DetailInvInit, DetailInvStep, PTL DEF DetailSpec

(* Only the server makes a request an accepted one, and then it found it    *)
(* acceptable.                                                              *)
LEMMA AcceptedStep ==
  ASSUME DetailInv, [DetailNext]_detailVars, NEW q \in requests, q.st = "sent",
         [q EXCEPT !.st = "accepted"] \in requests'
  PROVE  AcceptsRequest(q)
<1> DEFINE p == [q EXCEPT !.st = "accepted"]
<1>1. q \in RequestType /\ p.n = q.n /\ p.st = "accepted"
  BY DEF DetailInv, DetailTyped, RequestType
<1> HIDE DEF p
<1>2. p \notin requests
  BY <1>1 DEF DetailInv, RequestsDiffer
<1>3. p \in requests'
  BY DEF p
<1>4. PICK x \in requests : ServeRequest(x)
  <2>1. ASSUME NEW act \in Offered, Click(act) PROVE FALSE
    <3> DEFINE c == [to |-> sel, act |-> act, n |-> done, st |-> "sent",
                     job |-> IF act = "run_trigger_job" THEN jobs.of ELSE "none"]
    <3>1. requests' = requests \cup {c} /\ c.st = "sent"
      BY <2>1 DEF Click
    <3> HIDE DEF c
    <3> QED
      BY <1>1, <1>2, <1>3, <3>1
  <2>2. requests' \subseteq requests \/ \E x \in requests : ServeRequest(x)
    BY <2>1 DEF DetailNext, Choose, JobEnds, MoveOn, ServeDetail, LandDetail, ServeJobs, LandJobs,
                SeeMigrationEvent, PollJobs, RequestAnswered, detailVars
  <2> QED
    BY <1>2, <1>3, <2>2
<1> DEFINE y == [x EXCEPT !.st = IF AcceptsRequest(x) THEN "accepted" ELSE "refused"]
<1>5. /\ requests' = (requests \ {x}) \cup {y} /\ y.n = x.n
      /\ y.st = "accepted" => AcceptsRequest(x)
  BY <1>4 DEF ServeRequest, DetailInv, DetailTyped, RequestType
<1> HIDE DEF y
<1>6. p = y
  BY <1>2, <1>3, <1>5
<1>7. x = q
  BY <1>1, <1>5, <1>6 DEF DetailInv, RequestsDiffer
<1> QED
  BY <1>1, <1>5, <1>6, <1>7

(* A trigger job is started by a request for that very job.                 *)
LEMMA JobStartedStep ==
  ASSUME DetailInv, [DetailNext]_detailVars, NEW m \in Migs, job[m] = "PENDING",
         job'[m] = "RUNNING"
  PROVE  \E q \in requests : q.act = "run_trigger_job" /\ q.to = m /\ q.job = m
<1>0. job \in [Migs -> JobState] /\ requests \subseteq RequestType
  BY DEF DetailInv, DetailTyped
<1>1. ASSUME NEW k \in Migs, JobEnds(k) PROVE FALSE
  BY <1>0, <1>1 DEF JobEnds
<1>2. ASSUME NEW q \in requests, ServeRequest(q)
      PROVE  q.act = "run_trigger_job" /\ q.to = m /\ q.job = m
  <2>1. AcceptsRequest(q) /\ job' = [job EXCEPT ![q.to] = JobAfter(q)]
    BY <1>2 DEF ServeRequest
  <2>2. q.to \in Migs
    BY <1>0 DEF RequestType
  <2>3. q.to = m /\ JobAfter(q) = "RUNNING" /\ job[q.to] = "PENDING"
    BY <1>0, <2>1, <2>2
  <2>4. q.act = "run_trigger_job"
    BY <2>3 DEF JobAfter
  <2> QED
    BY <2>1, <2>3, <2>4 DEF AcceptsRequest
<1>3. job' = job \/ \E q \in requests : ServeRequest(q)
  BY <1>1 DEF DetailNext, Choose, MoveOn, ServeDetail, LandDetail, ServeJobs, LandJobs,
              SeeMigrationEvent, PollJobs, Click, RequestAnswered, detailVars
<1> QED
  BY <1>2, <1>3

(* MigrationDetail/index.tsx, routes/migrations.py: whatever detail the      *)
(* buttons were drawn from, a request that is checked takes effect only in   *)
(* a phase that has its button, and a trigger job is started only by a       *)
(* request for its own migration.                                            *)
THEOREM EffectRespectsPanelHolds == DetailSpec => EffectRespectsPanel
<1>1. ASSUME DetailInv, [DetailNext]_detailVars, NEW q \in requests, q.st = "sent",
             [q EXCEPT !.st = "accepted"] \in requests', q.act \notin Unchecked
      PROVE  q.act \in HeaderActions(rec[q.to])
  <2>1. q.act \in PanelActs \ Unchecked
    BY <1>1 DEF DetailInv, DetailTyped, RequestType
  <2>2. Accepts(q.act, rec[q.to])
    BY <1>1, <2>1, AcceptedStep DEF AcceptsRequest, Unchecked
  <2> QED
    BY <2>1, <2>2, CheckedByServer
<1>2. DetailInv /\ [DetailNext]_detailVars =>
        [/\ \A q \in requests :
               (q.st = "sent" /\ [q EXCEPT !.st = "accepted"] \in requests' /\ q.act \notin Unchecked)
                 => q.act \in HeaderActions(rec[q.to])
         /\ \A m \in Migs : (job[m] = "PENDING" /\ job'[m] = "RUNNING")
                 => \E q \in requests : q.act = "run_trigger_job" /\ q.to = m /\ q.job = m]_detailVars
  BY <1>1, JobStartedStep
<1> QED
  BY <1>2, DetailInvInit, DetailInvStep, PTL DEF DetailSpec, EffectRespectsPanel

-----------------------------------------------------------------------------
(***************************************************************************)
(* What the panels keep that their invariants above leave out: the answers *)
(* under way, which are never more than asked for, and what is drawn.      *)
(***************************************************************************)
(* PackRow.  A table has one open trigger job at most, since a new one is   *)
(* made only when none is.                                                  *)
RowPhases == {"DRAFT", "NEW", "LOADING", "COMPLETED"}
OneOpen == \A j, k \in OpenJobs : j = k
RowPages ==
  /\ shownPhase \in RowPhases /\ packAsks \subseteq RowPhases \cup {"?"}
  /\ IsFiniteSet(packAsks) /\ Cardinality(packAsks) <= MaxRowAsk
  /\ IsFiniteSet(jobAsks) /\ Cardinality(jobAsks) <= MaxRowAsk
  /\ rowBusy \subseteq {"restart", "trigger"}

LEMMA AskPackKeeps ==
  ASSUME RowPages, AskPack
  PROVE  packAsks' \subseteq RowPhases \cup {"?"} /\ IsFiniteSet(packAsks') /\ Cardinality(packAsks') <= MaxRowAsk
<1>1. packAsks' = IF Cardinality(packAsks) < MaxRowAsk THEN packAsks \cup {"?"} ELSE packAsks
  BY DEF AskPack
<1> QED
  BY <1>1, AddedInBound, RowAssumption DEF RowPages

LEMMA AskTriggerJobsKeeps ==
  ASSUME RowPages, AskTriggerJobs
  PROVE  IsFiniteSet(jobAsks') /\ Cardinality(jobAsks') <= MaxRowAsk
<1>1. jobAsks' = IF Cardinality(jobAsks) < MaxRowAsk THEN jobAsks \cup {NotYet} ELSE jobAsks
  BY DEF AskTriggerJobs
<1> QED
  BY <1>1, AddedInBound, RowAssumption DEF RowPages

LEMMA RowPagesStep ==
  ASSUME RowShape, RowPages, [RowNext]_rowVars PROVE RowPages'
<1> USE DEF rowPanel
<1>1. CASE Prepare \/ Loaded \/ EnsureAfterLoad \/ JobThreadsDie \/ UNCHANGED rowVars
  BY <1>1 DEF Prepare, Loaded, EnsureAfterLoad, JobThreadsDie, rowVars, RowPages
<1>2. ASSUME NEW th \in jobThreads, JobThreadEnables(th) \/ JobThreadDone(th) \/ JobThreadFails(th) PROVE RowPages'
  BY <1>2 DEF JobThreadEnables, JobThreadDone, JobThreadFails, Recorded, RowPages
<1>3. CASE PollPackRow
  BY <1>3, AskPackKeeps DEF PollPackRow, RowPages
<1>4. CASE ServePackRow
  <2>1. packAsks' = (packAsks \ {"?"}) \cup {rowPhase} /\ "?" \in packAsks
    BY <1>4 DEF ServePackRow
  <2>2. IsFiniteSet(packAsks') /\ Cardinality(packAsks') <= MaxRowAsk
    BY <2>1, ReplacedSize, RowAssumption DEF RowPages
  <2> QED
    BY <1>4, <2>1, <2>2 DEF ServePackRow, RowPages, RowShape, RowPhases
<1>5. ASSUME NEW p \in packAsks, LandPackRow(p) PROVE RowPages'
  <2>1. packAsks' = packAsks \ {p} /\ shownPhase' = p /\ p \in RowPhases
    BY <1>5 DEF LandPackRow, RowPages
  <2>2. IsFiniteSet(packAsks') /\ Cardinality(packAsks') <= MaxRowAsk
    BY <2>1, ReplacedSize, RowAssumption DEF RowPages
  <2>3. IsFiniteSet(jobAsks') /\ Cardinality(jobAsks') <= MaxRowAsk
    <3>1. jobAsks' = jobAsks \/ AskTriggerJobs \/ jobAsks' = {}
      BY <1>5 DEF LandPackRow
    <3>2. IsFiniteSet({}) /\ Cardinality({}) = 0
      BY FS_EmptySet
    <3> QED
      BY <3>1, <3>2, AskTriggerJobsKeeps, RowAssumption DEF RowPages
  <2>4. rowBusy' \subseteq rowBusy
    BY <1>5 DEF LandPackRow
  <2> QED
    BY <2>1, <2>2, <2>3, <2>4 DEF RowPages
<1>6. CASE PollTriggerJobs
  BY <1>6, AskTriggerJobsKeeps DEF PollTriggerJobs, RowPages
<1>7. ASSUME NEW a \in jobAsks, ServeTriggerJobs(a) \/ LandTriggerJobs(a) PROVE RowPages'
  <2>1. UNCHANGED <<shownPhase, packAsks, rowBusy>>
    BY <1>7 DEF ServeTriggerJobs, LandTriggerJobs
  <2>2. jobAsks' = jobAsks \ {a} \/ \E j : jobAsks' = (jobAsks \ {a}) \cup {j}
    BY <1>7 DEF ServeTriggerJobs, LandTriggerJobs
  <2>3. /\ IsFiniteSet(jobAsks \ {a}) /\ Cardinality(jobAsks \ {a}) <= MaxRowAsk
        /\ \A j : IsFiniteSet((jobAsks \ {a}) \cup {j}) /\ Cardinality((jobAsks \ {a}) \cup {j}) <= MaxRowAsk
    BY ReplacedSize, RowAssumption DEF RowPages
  <2>4. IsFiniteSet(jobAsks') /\ Cardinality(jobAsks') <= MaxRowAsk
    BY <2>2, <2>3
  <2> QED
    BY <2>1, <2>4 DEF RowPages
<1>8. CASE TriggerClicked \/ FullRestartClicked \/ OtherPage
  BY <1>8 DEF TriggerClicked, FullRestartClicked, OtherPage, SendOrder, RowPages
<1>9. ASSUME NEW o \in rowOrders, ServeOrder(o) PROVE RowPages'
  BY <1>9 DEF ServeOrder, RowPages
<1>10. ASSUME NEW o \in rowOrders, RowOrderAnswered(o) PROVE RowPages'
  <2>1. UNCHANGED shownPhase /\ rowBusy' \subseteq rowBusy
    BY <1>10 DEF RowOrderAnswered
  <2>2. /\ packAsks' = packAsks \/ AskPack
        /\ jobAsks' = jobAsks \/ AskTriggerJobs
    BY <1>10 DEF RowOrderAnswered
  <2> QED
    BY <2>1, <2>2, AskPackKeeps, AskTriggerJobsKeeps DEF RowPages
<1>11. ASSUME NEW t \in Triggers, PageSwitches(t) PROVE RowPages'
  BY <1>11 DEF PageSwitches, RowPages
<1> QED
  BY <1>1, <1>2, <1>3, <1>4, <1>5, <1>6, <1>7, <1>8, <1>9, <1>10, <1>11 DEF RowNext

LEMMA OneOpenStep ==
  ASSUME RowShape, OneOpen, [RowNext]_rowVars PROVE OneOpen'
<1>1. CASE UNCHANGED triggerJobs
  BY <1>1 DEF OneOpen, OpenJobs
<1>2. ASSUME EnsurePendingJob PROVE OneOpen'
  <2>1. CASE UNCHANGED <<triggerJobs, ran>>
    BY <2>1 DEF OneOpen, OpenJobs
  <2>2. CASE OpenJobs = {} /\ triggerJobs' = triggerJobs \cup {NewJob(Used)}
    BY <2>2 DEF OneOpen, OpenJobs
  <2> QED
    BY <1>2, <2>1, <2>2 DEF EnsurePendingJob
<1>3. ASSUME NEW id, RunJob(id) PROVE OneOpen'
  BY <1>3 DEF RunJob, OneOpen, OpenJobs
<1>4. ASSUME NEW th \in jobThreads, NEW st \in {"DONE", "FAILED"}, Recorded(th, st) PROVE OneOpen'
  <2> DEFINE closed == {[j EXCEPT !.st = st] : j \in {k \in triggerJobs : k.id = th.id}}
  <2>1. triggerJobs' \subseteq triggerJobs \cup closed
    BY <1>4 DEF Recorded
  <2>2. \A j \in closed : j.st = st
    BY DEF RowShape, TriggerJob
  <2> HIDE DEF closed
  <2>3. OpenJobs' \subseteq OpenJobs
    BY <2>1, <2>2 DEF OpenJobs
  <2> QED
    BY <2>3 DEF OneOpen
<1>5. ASSUME NEW o \in rowOrders, ServeOrder(o) PROVE OneOpen'
  <2>1. EnsurePendingJob \/ RunJob(o.id) \/ triggerJobs' = {}
    BY <1>5 DEF ServeOrder, Restarted
  <2> QED
    BY <1>2, <1>3, <2>1 DEF OneOpen, OpenJobs
<1>6. ASSUME NEW th \in jobThreads, JobThreadEnables(th) \/ JobThreadDone(th) \/ JobThreadFails(th) PROVE OneOpen'
  BY <1>1, <1>4, <1>6 DEF JobThreadEnables, JobThreadDone, JobThreadFails
<1>7. \/ UNCHANGED triggerJobs \/ EnsurePendingJob
      \/ \E th \in jobThreads : JobThreadEnables(th) \/ JobThreadDone(th) \/ JobThreadFails(th)
      \/ \E o \in rowOrders : ServeOrder(o)
  BY DEF RowNext, rowVars, rowServer, PageSwitches, Prepare, Loaded, EnsureAfterLoad, JobThreadsDie, PollPackRow, ServePackRow, LandPackRow,
         PollTriggerJobs, ServeTriggerJobs, LandTriggerJobs, TriggerClicked, FullRestartClicked, OtherPage, SendOrder,
         RowOrderAnswered
<1> QED
  BY <1>1, <1>2, <1>5, <1>6, <1>7

RowTyped == RowInv /\ RowPages /\ OneOpen

LEMMA RowTypedInit == RowInit => RowTyped
<1> SUFFICES ASSUME RowInit PROVE RowPages /\ OneOpen
  BY RowInvInit DEF RowTyped
<1>1. IsFiniteSet({}) /\ Cardinality({}) = 0
  BY FS_EmptySet
<1> QED
  BY <1>1, RowAssumption DEF RowInit, RowPages, RowPhases, OneOpen, OpenJobs

LEMMA RowTypedStep == RowTyped /\ [RowNext]_rowVars => RowTyped'
  BY RowInvStep, RowPagesStep, OneOpenStep DEF RowTyped, RowInv

LEMMA RowTypes == RowTyped => RowTypeOK
<1> SUFFICES ASSUME RowTyped PROVE RowTypeOK
  OBVIOUS
<1>1. Cardinality(OpenJobs) <= 1
  <2>1. CASE OpenJobs = {}
    BY <2>1, FS_EmptySet
  <2>2. ASSUME NEW j \in OpenJobs PROVE Cardinality(OpenJobs) <= 1
    <3>1. OpenJobs = {j}
      BY DEF RowTyped, OneOpen
    <3> QED
      BY <3>1, FS_Singleton
  <2> QED
    BY <2>1, <2>2
<1> QED
  BY <1>1 DEF RowTyped, RowInv, RowShape, RowPages, RowPhases, TriggerJob, RowTypeOK

(* PackRow: whatever is clicked and whoever asks, the migration has one    *)
(* open trigger job at most, and no more is asked than the page may.       *)
THEOREM RowTypeCorrect == RowSpec => []RowTypeOK
  BY RowTypedInit, RowTypedStep, RowTypes, PTL DEF RowSpec
-----------------------------------------------------------------------------
(* ConsoleSettings.  A form shows a secret only as somebody typed it there: *)
(* the server sends the mask in the place of its own.                       *)
FormConfig == [secret : {NoSecret, "typed", Mask}, filled : BOOLEAN]
FormAnswers == \A a \in configAsks : a.answer.st = "ok" => a.answer.all \in [Services -> FormConfig]
SettingsPages ==
  /\ forms \in [Services -> FormConfig] /\ FormAnswers
  /\ IsFiniteSet(configAsks) /\ Cardinality(configAsks) <= MaxConfigAsk
  /\ {opened, saved, settingsErr} \subseteq BOOLEAN /\ testResult.service \in Services \cup {"none"}

LEMMA AskConfigsKeeps ==
  ASSUME SettingsPages, NEW ok, AskConfigs(ok)
  PROVE  FormAnswers' /\ IsFiniteSet(configAsks') /\ Cardinality(configAsks') <= MaxConfigAsk
<1> DEFINE a == [ok |-> ok, answer |-> NotServed]
<1>1. a.answer.st # "ok"
  BY DEF NotServed
<1>2. configAsks' = IF Cardinality(configAsks) < MaxConfigAsk THEN configAsks \cup {a} ELSE configAsks
  BY DEF AskConfigs
<1> HIDE DEF a
<1>3. IsFiniteSet(configAsks') /\ Cardinality(configAsks') <= MaxConfigAsk
  BY <1>2, AddedInBound, SettingsAssumption DEF SettingsPages
<1> QED
  BY <1>1, <1>2, <1>3 DEF SettingsPages, FormAnswers

\* What the server sends of a configuration fits a form.
LEMMA MaskedFits ==
  ASSUME NEW c \in ServiceConfig PROVE Masked(c) \in FormConfig
<1>1. CASE c.secret = NoSecret
  BY <1>1 DEF Masked, ServiceConfig, FormConfig
<1>2. CASE c.secret # NoSecret
  BY <1>2 DEF Masked, ServiceConfig, FormConfig
<1> QED
  BY <1>1, <1>2

LEMMA SettingsPagesStep ==
  ASSUME SettingsShape, SettingsPages, [SettingsNext]_settingsVars PROVE SettingsPages'
<1>1. CASE UNCHANGED settingsVars
  BY <1>1 DEF settingsVars, settingsPage, SettingsPages, FormAnswers
<1>2. CASE OpenSettings
  <2>1. Blank \in FormConfig
    BY DEF Blank, FormConfig
  <2>2. forms' \in [Services -> FormConfig]
    BY <1>2, <2>1 DEF OpenSettings
  <2>3. FormAnswers' /\ IsFiniteSet(configAsks') /\ Cardinality(configAsks') <= MaxConfigAsk
    BY <1>2, AskConfigsKeeps DEF OpenSettings
  <2> QED
    BY <1>2, <2>2, <2>3 DEF OpenSettings, SettingsPages, NoTest
<1>3. CASE CloseSettings
  <2>1. IsFiniteSet(configAsks') /\ Cardinality(configAsks') <= MaxConfigAsk /\ FormAnswers'
    BY <1>3, FS_EmptySet, SettingsAssumption DEF CloseSettings, FormAnswers
  <2> QED
    BY <1>3, <2>1 DEF CloseSettings, SettingsPages
<1>4. CASE TypeToken
  <2>1. FormAnswers' /\ IsFiniteSet(configAsks') /\ Cardinality(configAsks') <= MaxConfigAsk
    BY <1>4, AskConfigsKeeps DEF TypeToken
  <2> QED
    BY <1>4, <2>1 DEF TypeToken, SettingsPages
<1>5. CASE SetOracle
  <2>1. tab \in Services /\ forms[tab] \in FormConfig
    BY DEF SettingsShape, SettingsPages
  <2>2. /\ \A sec \in {NoSecret, "typed"} : [forms[tab] EXCEPT !.secret = sec] \in FormConfig
        /\ [forms[tab] EXCEPT !.filled = TRUE] \in FormConfig
    BY <2>1 DEF FormConfig
  <2>3. forms' \in [Services -> FormConfig]
    BY <1>5, <2>1, <2>2 DEF SetOracle, SettingsPages
  <2> QED
    BY <1>5, <2>3 DEF SetOracle, SettingsPages, FormAnswers
<1>6. CASE SaveActive \/ TestConnection
  <2>1. testResult' = NoTest /\ UNCHANGED <<forms, configAsks, opened, saved>>
    BY <1>6 DEF SaveActive, TestConnection
  <2>2. settingsErr' = FALSE \/ UNCHANGED settingsErr
    BY <1>6 DEF SaveActive, TestConnection
  <2>3. NoTest.service = "none" /\ {opened, saved, settingsErr}' \subseteq BOOLEAN
    BY <2>1, <2>2 DEF NoTest, SettingsPages
  <2> QED
    BY <2>1, <2>3 DEF SettingsPages, FormAnswers
<1>7. CASE SaveAnswered \/ SavedExpires
  BY <1>7 DEF SaveAnswered, SavedExpires, SettingsPages, FormAnswers
<1>8. CASE TestAnswered
  <2>1. testing \in SentConfig
    BY <1>8 DEF TestAnswered, SettingsShape, NothingSent
  <2>2. testResult'.service = testing.service /\ testing.service \in Services
    BY <1>8, <2>1 DEF TestAnswered, SentConfig
  <2> QED
    BY <1>8, <2>2 DEF TestAnswered, SettingsPages, FormAnswers
<1>9. CASE ServeSave \/ ServeTest \/ SavesElsewhere
  <2>1. UNCHANGED <<opened, forms, configAsks, saved, testResult, settingsErr>>
    BY <1>9 DEF ServeSave, ServeTest, SavesElsewhere, settingsPage
  <2> QED
    BY <2>1 DEF SettingsPages, FormAnswers
<1>10. ASSUME NEW a \in configAsks, ServeConfigs(a) PROVE SettingsPages'
  <2>0. PICK read \in BOOLEAN : configAsks' = (configAsks \ {a}) \cup
            {[a EXCEPT !.answer = IF a.ok THEN [st |-> "ok", all |-> [s \in Services |-> Masked(LoadedConfigs(read)[s])]]
                                          ELSE [st |-> "refused"]]}
    BY <1>10 DEF ServeConfigs
  <2> DEFINE all == [s \in Services |-> Masked(LoadedConfigs(read)[s])]
             ans == IF a.ok THEN [st |-> "ok", all |-> all] ELSE [st |-> "refused"]
             b == [a EXCEPT !.answer = ans]
  <2>1. all \in [Services -> FormConfig]
    BY MaskedFits DEF SettingsShape, LoadedConfigs
  <2> HIDE DEF all
  <2>2. ans.st = "ok" => ans.all \in [Services -> FormConfig]
    BY <2>1
  <2>3. configAsks' = (configAsks \ {a}) \cup {b}
    BY <2>0 DEF all
  <2> HIDE DEF ans
  <2>4. b.answer = ans
    BY DEF SettingsShape
  <2> HIDE DEF b
  <2>5. /\ IsFiniteSet((configAsks \ {a}) \cup {b}) /\ Cardinality((configAsks \ {a}) \cup {b}) <= MaxConfigAsk
    BY ReplacedSize, SettingsAssumption DEF SettingsPages
  <2>6. FormAnswers'
    BY <2>2, <2>3, <2>4 DEF SettingsPages, FormAnswers
  <2> QED
    BY <1>10, <2>3, <2>5, <2>6 DEF ServeConfigs, SettingsPages
<1>11. ASSUME NEW a \in configAsks, LandConfigs(a) PROVE SettingsPages'
  <2>1. configAsks' = configAsks \ {a} /\ UNCHANGED <<opened, saved, testResult>>
    BY <1>11 DEF LandConfigs
  <2>2. IsFiniteSet(configAsks \ {a}) /\ Cardinality(configAsks \ {a}) <= MaxConfigAsk
    BY ReplacedSize, SettingsAssumption DEF SettingsPages
  <2>3. forms' \in [Services -> FormConfig] /\ settingsErr' \in BOOLEAN
    BY <1>11 DEF LandConfigs, SettingsPages, FormAnswers
  <2> QED
    BY <2>1, <2>2, <2>3 DEF SettingsPages, FormAnswers
<1>12. ASSUME NEW s \in Services, ChooseTab(s) PROVE SettingsPages'
  BY <1>12 DEF ChooseTab, SettingsPages, FormAnswers, NoTest
<1>13. CASE RestartForgets
  <2> DEFINE f == [a \in configAsks |-> IF a.answer = NotServed THEN [a EXCEPT !.answer = [st |-> "refused"]] ELSE a]
  <2>1. configAsks' = {f[a] : a \in configAsks} /\ UNCHANGED <<forms, opened, saved, testResult, settingsErr>>
    BY <1>13 DEF RestartForgets
  <2>2. f \in Surjection(configAsks, configAsks')
    BY <2>1 DEF Surjection
  <2>3. IsFiniteSet(configAsks') /\ Cardinality(configAsks') <= Cardinality(configAsks)
    BY <2>2, FS_Surjection DEF SettingsPages
  <2>4. Cardinality(configAsks) \in Nat /\ Cardinality(configAsks') \in Nat /\ MaxConfigAsk \in Nat
    BY <2>3, FS_CardinalityType, SettingsAssumption DEF SettingsPages
  <2>5. Cardinality(configAsks') <= MaxConfigAsk
    BY <2>3, <2>4 DEF SettingsPages
  <2>6. \A b \in configAsks' : b \in configAsks \/ b.answer.st = "refused"
    <3> SUFFICES ASSUME NEW a \in configAsks, a.answer = NotServed PROVE f[a].answer.st = "refused"
      BY <2>1
    <3>1. a \in [ok : BOOLEAN, answer : ConfigAnswer]
      BY DEF SettingsShape
    <3> QED
      BY <3>1
  <2> HIDE DEF f
  <2>7. FormAnswers'
    BY <2>1, <2>6 DEF SettingsPages, FormAnswers
  <2> QED
    BY <2>1, <2>3, <2>5, <2>7 DEF SettingsPages
<1> QED
  BY <1>1, <1>2, <1>3, <1>4, <1>5, <1>6, <1>7, <1>8, <1>9, <1>10, <1>11, <1>12, <1>13 DEF SettingsNext

SettingsTyped == SettingsInv /\ SettingsPages

LEMMA SettingsTypedInit == SettingsInit => SettingsTyped
<1> SUFFICES ASSUME SettingsInit PROVE SettingsPages
  BY SettingsInvInit DEF SettingsTyped
<1>1. Blank \in FormConfig
  BY DEF Blank, FormConfig
<1>2. configAsks = {} /\ IsFiniteSet(configAsks) /\ Cardinality(configAsks) <= MaxConfigAsk
  BY FS_EmptySet, SettingsAssumption DEF SettingsInit
<1>3. testResult.service = "none" /\ {opened, saved, settingsErr} \subseteq BOOLEAN
  BY DEF SettingsInit, NoTest
<1> QED
  BY <1>1, <1>2, <1>3 DEF SettingsInit, SettingsPages, FormAnswers

LEMMA SettingsTypedStep == SettingsTyped /\ [SettingsNext]_settingsVars => SettingsTyped'
  BY SettingsInvStep, SettingsPagesStep DEF SettingsTyped, SettingsInv

LEMMA SettingsTypes == SettingsTyped => SettingsTypeOK
<1> SUFFICES ASSUME SettingsTyped PROVE SettingsTypeOK
  OBVIOUS
<1>1. saving.service \in Services \cup {"none"}
  BY DEF SettingsTyped, SettingsInv, SettingsShape, SentConfig, NothingSent
<1>2. \A s \in Services : stored[s] \in ServiceConfig /\ memory[s] \in ServiceConfig /\ forms[s] \in FormConfig
  BY DEF SettingsTyped, SettingsInv, SettingsShape, SettingsPages
<1>3. tab \in Services /\ tokenOk \in BOOLEAN
  BY DEF SettingsTyped, SettingsInv, SettingsShape
<1>4. \A s \in Services : /\ stored[s].secret \in {NoSecret, "old", "typed", "other", Mask}
                          /\ memory[s].secret \in {NoSecret, "old", "typed", "other", Mask}
                          /\ forms[s].secret \in {NoSecret, "typed", Mask}
                          /\ {stored[s].filled, memory[s].filled, forms[s].filled} \subseteq BOOLEAN
  BY <1>2 DEF ServiceConfig, FormConfig
<1> QED
  BY <1>1, <1>3, <1>4 DEF SettingsTyped, SettingsPages, SettingsTypeOK

(* ConsoleSettings: whatever is typed, saved and loaded, by how many       *)
(* operators, no form ever holds a secret the server sent.                 *)
THEOREM SettingsTypeCorrect == SettingsSpec => []SettingsTypeOK
  BY SettingsTypedInit, SettingsTypedStep, SettingsTypes, PTL DEF SettingsSpec

-----------------------------------------------------------------------------
(* SnapshotBanner.  Snapshots are numbered in the order in which their      *)
(* loads are begun, so that there are no more of them than loads.           *)
BegunIds == {l.id : l \in {k \in loads : k.id > 0}}
Numbering ==
  /\ \E n \in Nat : BegunIds = 1..n
  /\ \A p \in SchemaPairs : latest[p] \in BegunIds \cup {0}
  /\ \A l \in loads : l.st = "sent" => l.id = 0
BannerPages ==
  /\ Numbering /\ Cardinality(loads) <= MaxLoad
  /\ heard \in [SchemaPairs -> {"none", "progress", "complete"}]
  /\ {loading, loadErr, crossed, queryErr} \subseteq BOOLEAN

LEMMA NewestIsCount ==
  ASSUME BannerInv, Numbering, NEW n \in Nat, BegunIds = 1..n
  PROVE  Max(Begun) = n
<1>1. Begun = (1..n) \cup {latest[p] : p \in SchemaPairs}
  BY DEF Begun, BegunIds
<1>2. pair \in SchemaPairs /\ latest[pair] \in 0..n
  BY DEF BannerInv, BannerShape, Numbering
<1>3. Begun \subseteq 0..n /\ Begun # {}
  BY <1>1, <1>2 DEF Numbering
<1>4. IsFiniteSet(Begun)
  <2>1. IsFiniteSet(0..n)
    BY FS_Interval
  <2> QED
    BY <1>3, <2>1, FS_Subset
<1>5. Max(Begun) \in Begun /\ \A y \in Begun : Max(Begun) >= y
  BY <1>3, <1>4, FiniteHasMax
<1>6. Max(Begun) \in 0..n
  BY <1>3, <1>5
<1>7. n = 0 \/ n \in Begun
  BY <1>1
<1> QED
  BY <1>5, <1>6, <1>7

\* Every number was given to a load.
LEMMA NoMoreThanLoads ==
  ASSUME IsFiniteSet(loads), NEW n \in Nat, BegunIds = 1..n
  PROVE  n <= Cardinality(loads)
<1> DEFINE taken == {k \in loads : k.id > 0}
           f == [l \in taken |-> l.id]
<1>1. IsFiniteSet(taken) /\ Cardinality(taken) <= Cardinality(loads)
  BY FS_Subset
<1>2. f \in Surjection(taken, BegunIds)
  BY DEF Surjection, BegunIds
<1> HIDE DEF f, taken
<1>3. Cardinality(BegunIds) <= Cardinality(taken)
  BY <1>1, <1>2, FS_Surjection
<1>4. Cardinality(1..n) = n /\ IsFiniteSet(1..n)
  BY FS_Interval
<1>5. Cardinality(taken) \in Nat /\ Cardinality(loads) \in Nat
  BY <1>1, FS_CardinalityType
<1> QED
  BY <1>1, <1>3, <1>4, <1>5

LEMMA BannerGoesOn ==
  ASSUME BannerInv, BannerPages, NEW l \in loads, NEW k, k.id = l.id, k.st # "sent", LoadBecomes(l, k)
  PROVE  BegunIds' = BegunIds /\ Cardinality(loads') <= MaxLoad /\ \A x \in loads' : x.st = "sent" => x.id = 0
<1>1. loads' = (loads \ {l}) \cup {k}
  BY DEF LoadBecomes
<1>2. Cardinality((loads \ {l}) \cup {k}) <= MaxLoad
  BY ReplacedSize, BannerAssumption DEF BannerInv, BannerShape, BannerPages
<1> QED
  BY <1>1, <1>2 DEF BegunIds, BannerPages, Numbering

LEMMA LoadsServed ==
  ASSUME BannerInv, BannerPages, NEW l \in loads, ServerBegins(l) \/ ServerCommits(l) \/ ServerFails(l) \/ LoadAnswered(l)
  PROVE  Numbering' /\ Cardinality(loads') <= MaxLoad
<1> USE DEF BannerPages
<1>1. l \in SnapshotLoad
  BY DEF BannerInv, BannerShape
<1>2. CASE ServerBegins(l)
  <2>1. PICK n \in Nat : BegunIds = 1..n
    BY DEF Numbering
  <2> DEFINE b == [l EXCEPT !.id = 1 + Max(Begun)]
             k == [b EXCEPT !.st = "begun"]
  <2>2. b \in [pair : SchemaPairs, id : {n + 1}, own : BOOLEAN, st : {"sent", "begun", "ok", "failed", "answered"}]
    BY <1>1, <2>1, NewestIsCount DEF SnapshotLoad
  <2>3. loads' = (loads \ {l}) \cup {k} /\ UNCHANGED latest /\ l.id = 0
    BY <1>2 DEF ServerBegins, LoadBecomes, Numbering
  <2> HIDE DEF b
  <2>4. k.id = n + 1 /\ k.st = "begun"
    BY <2>2
  <2> HIDE DEF k
  <2>5. BegunIds' = BegunIds \cup {n + 1}
    BY <2>3, <2>4 DEF BegunIds
  <2>6. BegunIds' = 1..(n + 1)
    BY <2>1, <2>5
  <2>7. Cardinality((loads \ {l}) \cup {k}) <= MaxLoad
    BY ReplacedSize, BannerAssumption DEF BannerInv, BannerShape
  <2> QED
    BY <2>3, <2>4, <2>5, <2>6, <2>7 DEF Numbering
<1>3. CASE ServerCommits(l)
  <2> DEFINE k == [l EXCEPT !.st = "ok"]
  <2>1. k.id = l.id /\ k.st # "sent"
    BY <1>1 DEF SnapshotLoad
  <2>2. LoadBecomes(l, k) /\ latest' = Bump(latest, l.pair, l.id)
    BY <1>3 DEF ServerCommits
  <2> HIDE DEF k
  <2>3. l.id \in BegunIds \cup {0}
    BY <1>1 DEF BegunIds, SnapshotLoad
  <2>4. \A p \in SchemaPairs : latest'[p] \in BegunIds \cup {0}
    BY <2>2, <2>3 DEF Bump, Numbering, BannerInv, BannerShape
  <2> QED
    BY <2>1, <2>2, <2>4, BannerGoesOn DEF Numbering
<1>4. CASE ServerFails(l)
  <2> DEFINE k == [l EXCEPT !.st = "failed"]
  <2>1. k.id = l.id /\ k.st # "sent"
    BY <1>1 DEF SnapshotLoad
  <2>2. LoadBecomes(l, k) /\ UNCHANGED latest
    BY <1>4 DEF ServerFails
  <2> HIDE DEF k
  <2> QED
    BY <2>1, <2>2, BannerGoesOn DEF Numbering
<1>5. CASE LoadAnswered(l)
  <2> DEFINE k == [l EXCEPT !.st = "answered"]
  <2>1. k.id = l.id /\ k.st # "sent"
    BY <1>1 DEF SnapshotLoad
  <2>2. LoadBecomes(l, k) /\ UNCHANGED latest
    BY <1>5 DEF LoadAnswered
  <2> HIDE DEF k
  <2> QED
    BY <2>1, <2>2, BannerGoesOn DEF Numbering
<1> QED
  BY <1>2, <1>3, <1>4, <1>5

LEMMA LoadAsked ==
  ASSUME BannerInv, BannerPages, NEW own, NEW p, AskLoad(own, p), UNCHANGED latest
  PROVE  Numbering' /\ Cardinality(loads') <= MaxLoad
<1> DEFINE l == [pair |-> p, id |-> 0, own |-> own, st |-> "sent"]
<1>1. l.id = 0
  OBVIOUS
<1>2. loads' = loads \cup {l} /\ Cardinality(loads) < MaxLoad
  BY DEF AskLoad
<1> HIDE DEF l
<1>3. BegunIds' = BegunIds
  BY <1>1, <1>2 DEF BegunIds
<1>4. Cardinality(loads \cup {l}) <= Cardinality(loads) + 1 /\ Cardinality(loads) \in Nat /\ Cardinality(loads \cup {l}) \in Nat
  BY AddedSize DEF BannerInv, BannerShape
<1>5. \A x \in loads' : x.st = "sent" => x.id = 0
  BY <1>1, <1>2 DEF BannerPages, Numbering
<1> QED
  BY <1>2, <1>3, <1>4, <1>5, BannerAssumption DEF BannerPages, Numbering

LEMMA HeardKeeps ==
  ASSUME BannerPages, NEW p, NEW e \in {"progress", "complete"}, Event(p, e)
  PROVE  heard' \in [SchemaPairs -> {"none", "progress", "complete"}]
BY DEF BannerPages, Event

LEMMA BannerPagesStep ==
  ASSUME BannerInv, BannerPages, [BannerNext]_bannerVars PROVE BannerPages'
<1> DEFINE Heard == [SchemaPairs -> {"none", "progress", "complete"}]
           Flags == {loading, loadErr, crossed, queryErr} \subseteq BOOLEAN
<1>0. heard \in Heard /\ Flags
  BY DEF BannerPages
<1>1. ASSUME UNCHANGED <<latest, loads>> PROVE Numbering' /\ Cardinality(loads') <= MaxLoad
  BY <1>1 DEF BannerPages, Numbering, BegunIds
<1>2. CASE UNCHANGED bannerVars
  BY <1>1, <1>2 DEF bannerVars, BannerPages
<1>3. ASSUME NEW l \in loads, ServerBegins(l) \/ ServerCommits(l) \/ ServerFails(l) PROVE BannerPages'
  <2>1. heard' \in Heard
    BY <1>0, <1>3, HeardKeeps DEF ServerBegins, ServerCommits, ServerFails
  <2>2. Flags'
    BY <1>0, <1>3 DEF ServerBegins, ServerCommits, ServerFails
  <2> QED
    BY <1>3, <2>1, <2>2, LoadsServed DEF BannerPages
<1>4. ASSUME NEW l \in loads, LoadAnswered(l) PROVE BannerPages'
  <2>1. heard' = heard /\ Flags'
    <3>1. loading' = FALSE /\ UNCHANGED <<heard, queryErr>>
      BY <1>4 DEF LoadAnswered
    <3>2. loadErr' = loadErr \/ loadErr' = TRUE
      BY <1>4 DEF LoadAnswered
    <3>3. crossed' = crossed \/ crossed' = (l.pair # pair)
      BY <1>4 DEF LoadAnswered
    <3> QED
      BY <1>0, <3>1, <3>2, <3>3
  <2> QED
    BY <1>0, <1>4, <2>1, LoadsServed DEF BannerPages
<1>5. CASE StartLoad
  <2>1. heard' = heard /\ Flags'
    BY <1>0, <1>5 DEF StartLoad
  <2> QED
    BY <1>0, <1>5, <2>1, LoadAsked DEF StartLoad, BannerPages
<1>6. ASSUME NEW p \in SchemaPairs, OtherPageLoads(p) PROVE BannerPages'
  <2>1. heard' = heard /\ Flags'
    BY <1>0, <1>6 DEF OtherPageLoads
  <2> QED
    BY <1>0, <1>6, <2>1, LoadAsked DEF OtherPageLoads, BannerPages
<1>7. CASE SeeComplete \/ ServeSnapshot \/ LandSnapshot \/ SnapshotFails \/ \E p \in SchemaPairs : ChoosePair(p)
  <2>1. UNCHANGED <<latest, loads, heard>>
    BY <1>7 DEF SeeComplete, ServeSnapshot, LandSnapshot, SnapshotFails, ChoosePair
  <2>2. Flags'
    BY <1>0, <1>7 DEF SeeComplete, ServeSnapshot, LandSnapshot, SnapshotFails, ChoosePair
  <2> QED
    BY <1>0, <1>1, <2>1, <2>2 DEF BannerPages
<1>8. CASE EventsRollOff
  <2>1. UNCHANGED <<latest, loads>> /\ heard' \in Heard /\ Flags'
    BY <1>0, <1>8 DEF EventsRollOff
  <2> QED
    BY <1>1, <2>1 DEF BannerPages
<1> QED
  BY <1>2, <1>3, <1>4, <1>5, <1>6, <1>7, <1>8 DEF BannerNext

BannerTyped == BannerInv /\ BannerPages

LEMMA BannerTypedInit == BannerInit => BannerTyped
<1> SUFFICES ASSUME BannerInit PROVE BannerPages
  BY BannerInvInit DEF BannerTyped
<1>1. BegunIds = 1..0
  BY DEF BannerInit, BegunIds
<1>2. Numbering
  BY <1>1 DEF BannerInit, Numbering
<1>3. Cardinality(loads) <= MaxLoad
  BY FS_EmptySet, BannerAssumption DEF BannerInit
<1> QED
  BY <1>2, <1>3 DEF BannerInit, BannerPages

LEMMA BannerTypedStep == BannerTyped /\ [BannerNext]_bannerVars => BannerTyped'
  BY BannerStepInv, BannerPagesStep DEF BannerTyped

LEMMA BannerTypes == BannerTyped => BannerTypeOK
<1> SUFFICES ASSUME BannerTyped PROVE BannerTypeOK
  OBVIOUS
<1> USE DEF BannerTyped, BannerInv
<1>1. PICK n \in Nat : BegunIds = 1..n
  BY DEF BannerPages, Numbering
<1>2. n <= MaxLoad
  <2>1. n <= Cardinality(loads) /\ Cardinality(loads) <= MaxLoad /\ Cardinality(loads) \in Nat
    BY <1>1, NoMoreThanLoads, FS_CardinalityType DEF BannerShape, BannerPages
  <2> QED
    BY <2>1, BannerAssumption
<1>3. ASSUME NEW p \in SchemaPairs PROVE latest[p] \in 0..MaxLoad /\ mine[p] \in 0..MaxLoad
  <2>1. latest[p] \in 0..n
    BY <1>1 DEF BannerPages, Numbering
  <2>2. mine[p] \in Nat /\ mine[p] <= latest[p]
    BY DEF BannerShape, ToldIsCommitted
  <2> QED
    BY <1>2, <2>1, <2>2, BannerAssumption
<1>4. query.of \in SchemaPairs \cup {"none"}
  BY DEF BannerShape, SnapshotQuery, NoSnapshotQuery
<1>5. {pair, shownSnapshot.of} \subseteq SchemaPairs
  BY DEF BannerShape
<1> QED
  BY <1>3, <1>4, <1>5 DEF BannerPages, BannerTypeOK

(* SnapshotBanner: no page is ever told of a snapshot that was not begun.  *)
THEOREM BannerTypeCorrect == BannerSpec => []BannerTypeOK
  BY BannerTypedInit, BannerTypedStep, BannerTypes, PTL DEF BannerSpec

-----------------------------------------------------------------------------
(***************************************************************************)
(* The panels together: what a panel does is a step of that panel, and the *)
(* others stay as they are.                                                *)
(***************************************************************************)
LEMMA PanelsInside ==
  PanelsSpec => /\ DashSpec /\ DrawerSpec /\ SettingsSpec /\ BrowserSpec /\ CardSpec /\ BannerSpec /\ CatSpec
                /\ DetailSpec /\ WizSpec /\ CompareSpec /\ PrepSpec /\ RowSpec
<1> DEFINE Begin == /\ DashInit /\ DrawerInit /\ SettingsInit /\ BrowserInit /\ CardInit /\ BannerInit /\ CatInit
                    /\ DetailInit /\ WizInit /\ CompareInit /\ PrepInit /\ RowInit
<1>0. PanelsInit => Begin
  BY DEF PanelsInit
<1>1. [PanelsNext]_panelsVars => [DashNext]_dashVars
  <2>1. DdlNext \/ JobsNext \/ LandDdlJobs \/ (\E d \in Heavy : OtherAddsDdl(d)) \/ PageNext \/ RequestsNext \/ TablesNext
          => DashNext
    BY DEF DashNext, DdlNext, Ddl
  <2>2. DashStep => DashNext
    BY <2>1 DEF DashStep
  <2> QED
    BY <2>2 DEF PanelsNext, panelsVars, DetailStep, WizStep, BrowserStep, CardStep, CompareStep,
     DrawerStep, PrepStep, RowStep, SettingsStep, BannerStep, CatalogStep
<1>2. [PanelsNext]_panelsVars => [DrawerNext]_drawerVars
  BY DEF PanelsNext, panelsVars, DetailStep, DashStep, WizStep, BrowserStep, CardStep, CompareStep,
     DrawerStep, PrepStep, RowStep, SettingsStep, BannerStep, CatalogStep
<1>3. [PanelsNext]_panelsVars => [SettingsNext]_settingsVars
  BY DEF PanelsNext, panelsVars, DetailStep, DashStep, WizStep, BrowserStep, CardStep, CompareStep,
     DrawerStep, PrepStep, RowStep, SettingsStep, BannerStep, CatalogStep
<1>4. [PanelsNext]_panelsVars => [BrowserNext]_browserVars
  BY DEF PanelsNext, panelsVars, DetailStep, DashStep, WizStep, BrowserStep, CardStep, CompareStep,
     DrawerStep, PrepStep, RowStep, SettingsStep, BannerStep, CatalogStep
<1>5. [PanelsNext]_panelsVars => [CardNext]_cardVars
  BY DEF PanelsNext, panelsVars, DetailStep, DashStep, WizStep, BrowserStep, CardStep, CompareStep,
     DrawerStep, PrepStep, RowStep, SettingsStep, BannerStep, CatalogStep
<1>6. [PanelsNext]_panelsVars => [BannerNext]_bannerVars
  BY DEF PanelsNext, panelsVars, DetailStep, DashStep, WizStep, BrowserStep, CardStep, CompareStep,
     DrawerStep, PrepStep, RowStep, SettingsStep, BannerStep, CatalogStep
<1>7. [PanelsNext]_panelsVars => [CatNext]_catVars
  BY DEF PanelsNext, panelsVars, DetailStep, DashStep, WizStep, BrowserStep, CardStep, CompareStep,
     DrawerStep, PrepStep, RowStep, SettingsStep, BannerStep, CatalogStep
<1>8. [PanelsNext]_panelsVars => [DetailNext]_detailVars
  BY DEF PanelsNext, panelsVars, DetailStep, DashStep, WizStep, BrowserStep, CardStep, CompareStep,
     DrawerStep, PrepStep, RowStep, SettingsStep, BannerStep, CatalogStep
<1>9. [PanelsNext]_panelsVars => [WizNext]_wizVars
  BY DEF PanelsNext, panelsVars, DetailStep, DashStep, WizStep, BrowserStep, CardStep, CompareStep,
     DrawerStep, PrepStep, RowStep, SettingsStep, BannerStep, CatalogStep
<1>10. [PanelsNext]_panelsVars => [CompareNext]_compareVars
  BY DEF PanelsNext, panelsVars, DetailStep, DashStep, WizStep, BrowserStep, CardStep, CompareStep,
     DrawerStep, PrepStep, RowStep, SettingsStep, BannerStep, CatalogStep
<1>11. [PanelsNext]_panelsVars => [PrepNext]_prepVars
  BY DEF PanelsNext, panelsVars, DetailStep, DashStep, WizStep, BrowserStep, CardStep, CompareStep,
     DrawerStep, PrepStep, RowStep, SettingsStep, BannerStep, CatalogStep
<1>12. [PanelsNext]_panelsVars => [RowNext]_rowVars
  BY DEF PanelsNext, panelsVars, DetailStep, DashStep, WizStep, BrowserStep, CardStep, CompareStep,
     DrawerStep, PrepStep, RowStep, SettingsStep, BannerStep, CatalogStep
<1> QED
  BY <1>0, <1>1, <1>2, <1>3, <1>4, <1>5, <1>6, <1>7, <1>8, <1>9, <1>10, <1>11, <1>12, PTL
     DEF PanelsSpec, DashSpec, DrawerSpec, SettingsSpec, BrowserSpec, CardSpec, BannerSpec, CatSpec, DetailSpec, WizSpec, CompareSpec, PrepSpec, RowSpec

(* In every panel: no object that holds data is dropped and created again  *)
(* unasked, and no stored secret is replaced by its mask.                  *)
THEOREM DataLossAskedHolds == PanelsSpec => []DataLossAsked
<1>1. DropsOnlyWhatWasAsked /\ DataLossConfirmed /\ MaskIsNoSecret => DataLossAsked
  BY DEF DataLossAsked
<1> QED
  BY <1>1, PanelsInside, DropsOnlyWhatWasAskedHolds, DataLossConfirmedHolds, MaskIsNoSecretHolds, PTL

(* In every panel: a request names what the panel showed when it was sent. *)
THEOREM SentAsShownHolds == PanelsSpec => []SentAsShown
<1>1. BarCountsWhatIsSent /\ SentBelongsToSchema /\ RemovesOwnTable => SentAsShown
  BY DEF SentAsShown
<1> QED
  BY <1>1, PanelsInside, BarCountsWhatIsSentHolds, SentBelongsToSchemaHolds, RemovesOwnTableHolds, PTL

(* In every panel: what was changed, or loaded, is what it shows           *)
(* afterwards.                                                             *)
THEOREM ResultIsShownHolds == PanelsSpec => []ResultIsShown
<1>1. RefreshedWhenFinished /\ SyncIsShown /\ SnapshotIsShown /\ CatalogIsShown => ResultIsShown
  BY DEF ResultIsShown
<1> QED
  BY <1>1, PanelsInside, RefreshedWhenFinishedHolds, SyncIsShownHolds, SnapshotIsShownHolds, CatalogIsShownHolds, PTL

(* In every panel: what it keeps has the types, and stays in the bounds,   *)
(* the code gives it.                                                      *)
THEOREM PanelsTypeCorrect == PanelsSpec => []PanelsTypeOK
<1>1. /\ DetailTypeOK /\ WizTypeOK /\ BrowserTypeOK /\ CardTypeOK /\ CompareTypeOK /\ DrawerTypeOK
      /\ PrepTypeOK /\ RowTypeOK /\ SettingsTypeOK /\ BannerTypeOK /\ CatTypeOK /\ DashTypeOK
      => PanelsTypeOK
  BY DEF PanelsTypeOK
<1> QED
  BY <1>1, PanelsInside, DetailTypeCorrect, WizTypeCorrect, BrowserTypeCorrect, CardTypeCorrect,
     CompareTypeCorrect, DrawerTypeCorrect, PrepTypeCorrect, RowTypeCorrect, SettingsTypeCorrect,
     BannerTypeCorrect, CatTypeCorrect, DashTypeCorrect, PTL
=============================================================================
