--------------------------- MODULE DashboardView ---------------------------
(***************************************************************************)
(* The dashboard of one schema migration (dashboard/Dashboard.tsx): the    *)
(* table of its objects with the selection, the DDL pack (its dialog, the  *)
(* jobs on the server, the loop that waits for them), and the requests     *)
(* that put selected tables into a pack.  What the page shows is the last  *)
(* answer of each poll, so every click decides on data that other          *)
(* operators and the workers may have changed since.                       *)
(*                                                                         *)
(* A table is a row per migration made for it, and a row of the catalogue  *)
(* snapshot while there is none: <<name, 0>> and <<name, 1>>, ... are the  *)
(* ids.  A DDL object is its name.  The filters are two: all, or issues.   *)
(***************************************************************************)
EXTENDS Naturals, Sequences, FiniteSets

CONSTANTS
  Tabs,            \* table names
  Replaceable,     \* DDL objects of a type CREATE OR REPLACE can change
  Heavy,           \* DDL objects that hold data (a materialized view)
  MaxMig,          \* bound: migrations made for one table
  MaxJob,          \* bound: DDL jobs
  MaxPosts,        \* bound: requests of this browser, polls aside
  MaxReload        \* bound: loads of the catalogue that the server begins

Ddl == Replaceable \cup Heavy

ASSUME DashAssumption == IsFiniteSet(Ddl) /\ {MaxMig, MaxJob, MaxPosts, MaxReload} \subseteq Nat

VARIABLES
  migs, live,      \* the server: migrations made for each table, and whether the last one is live
  real,            \* each DDL object in the target, as it is
  snap,            \* the snapshot that was begun last of those stored: its number, and what it holds
  reloads,         \* loads of the catalogue under way on the server
  begun,           \* how many have been begun: a snapshot is as old as the transaction that writes it
  ddlJobs,         \* ddl_apply_jobs
  nav,             \* the page on the screen: this one or the pack details
  group, filter,   \* activeGroup, statusFilter
  shown,           \* objectsApi.data
  jobsShown,       \* ddlJobsApi.data, as far as it matters: job -> state, in order
  selected,        \* selectedIds
  packMode,        \* which dialog was asked for
  ddlGroups,       \* ddlPackGroups: pairs of an object and what to do with it
  ticked,          \* the dialog: checked objects
  byHand,          \* history: the heavy objects whose box in the dialog was clicked
  posts,           \* requests of this browser under way
  posted,          \* how many there have been
  packBusy,        \* ddlPackBusy
  loops,           \* pollDdlJobsAndRefresh: the job sets that are waited for
  finished         \* history: jobs whose loop found them all ended, and whose reload was stored

catalogVars == <<snap, reloads, begun>>
serverVars == <<migs, live, real, catalogVars, ddlJobs>>
dialogVars == <<packMode, ddlGroups, ticked, byHand>>
pageVars == <<nav, group, filter, shown, jobsShown>>
sendVars == <<posts, posted, packBusy, loops, finished>>
dashVars == <<serverVars, pageVars, selected, dialogVars, sendVars>>

Active == {"DRAFT", "PENDING", "CLAIMED"}
Terminal == {"DONE", "FAILED", "CANCELLED"}
Actions == {"create_missing", "sync_diff", "recreate"}
TargetStates == {"missing", "differs", "same", "invalid"}

-----------------------------------------------------------------------------
(* What the answers hold, and what the page derives from them.             *)

\* get_objects: the rows of a table.
Rows(t) == IF migs[t] = 0 THEN {<<t, 0>>} ELSE {<<t, k>> : k \in 1..migs[t]}
ObjectsNow == [rows |-> UNION {Rows(t) : t \in Tabs}, ddl |-> snap.ddl]
NothingRead == [d \in Ddl |-> "missing"]
NoObjects == [rows |-> {}, ddl |-> [d \in {} |-> "same"]]

JobsOf(js) == [j \in DOMAIN js |-> [obj |-> js[j].obj, st |-> js[j].st]]

\* ddlActionForObject, ddlPackActionForObject: what the pack would do with an object.
AutomaticAction(d, st) ==
  CASE st = "missing" -> "create_missing"
    [] st = "invalid" -> "recreate"
    [] st = "differs" -> IF d \in Replaceable THEN "sync_diff" ELSE "recreate"
    [] OTHER -> "none"

DdlPackAction(d, st) ==
  IF AutomaticAction(d, st) # "none" THEN AutomaticAction(d, st)
  ELSE IF d \in Replaceable THEN "sync_diff" ELSE "recreate"

\* ddlSyncGroupsForObjects.
SyncGroups(ds) == {<<d, DdlPackAction(d, shown.ddl[d])>> : d \in ds}

\* filtered: the rows of the page; "issues" leaves what is broken or different.
FilteredDdl == {d \in DOMAIN shown.ddl : filter = "issues" => shown.ddl[d] \in {"invalid", "differs"}}
FilteredRows == IF filter = "issues" THEN {} ELSE shown.rows

\* ddlActiveJobKeys, ddlAvailableObjects: an object with an active job cannot be added.
ActiveJobKeys == {jobsShown[j].obj : j \in {k \in DOMAIN jobsShown : jobsShown[k].st \in Active}}
AvailableDdl == FilteredDdl \ ActiveJobKeys

\* activeSelectableIds.
SelectableIds == IF group = "tables" THEN shown.rows ELSE AvailableDdl
\* What the table offers to tick: it draws the filtered rows only.
OfferedIds == IF group = "tables" THEN FilteredRows ELSE AvailableDdl

\* selectedTables, selectedDdlObjects: the selection resolved against the objects shown.
SelectedTables == IF group = "tables" THEN selected \cap shown.rows ELSE {}
SelectedDdl == IF group = "tables" THEN {} ELSE selected \cap DOMAIN shown.ddl

\* The dialogs that are on the screen.
TableDialog == packMode \in {"historical", "cdc"} /\ group = "tables" /\ SelectedTables # {}
DdlDialog == packMode = "ddl" /\ ddlGroups # {}
Overlay == TableDialog \/ DdlDialog

DashTypeOK ==
  /\ migs \in [Tabs -> 0..MaxMig] /\ live \in [Tabs -> BOOLEAN]
  /\ real \in [Ddl -> TargetStates] /\ snap.ddl \in [Ddl -> TargetStates]
  /\ begun \in 0..MaxReload /\ snap.no \in 0..begun /\ \A l \in reloads : l.no \in 1..begun
  /\ \A j \in DOMAIN ddlJobs : ddlJobs[j].st \in Active \cup Terminal /\ ddlJobs[j].act \in Actions
  /\ nav \in {"dashboard", "packs"} /\ group \in {"tables", "ddl"} /\ filter \in {"all", "issues"}
  /\ packMode \in {"none", "historical", "cdc", "ddl"}
  /\ ticked \subseteq Ddl /\ packBusy \in BOOLEAN /\ posted \in 0..MaxPosts

-----------------------------------------------------------------------------
(* Polls and the effects that keep the selection in step.                  *)

\* Mutant of Prune: ids that are gone stay selected.
PruneForgotten == selected' = selected

\* The effect on activeSelectableIds: ids that are no longer selectable are dropped.
Prune == selected' = selected \cap SelectableIds'
\* The dialog is gone: a request it has sent does not make another one busy.
Closed == [i \in DOMAIN posts |-> [posts[i] EXCEPT !.dlg = FALSE]]

LandObjects ==
  /\ nav = "dashboard" /\ shown # ObjectsNow
  /\ UNCHANGED <<serverVars, nav, group, filter, jobsShown, dialogVars, posted, packBusy, loops, finished>>
  /\ shown' = ObjectsNow /\ Prune
  /\ posts' = IF TableDialog' \/ DdlDialog THEN posts ELSE Closed

LandDdlJobs ==
  /\ jobsShown # JobsOf(ddlJobs)
  /\ UNCHANGED <<serverVars, nav, group, filter, shown, dialogVars, sendVars>>
  /\ jobsShown' = JobsOf(ddlJobs) /\ Prune

FilterObjects(f) ==
  /\ nav = "dashboard" /\ ~ Overlay /\ f # filter
  /\ UNCHANGED <<serverVars, nav, group, shown, jobsShown, dialogVars, sendVars>>
  /\ filter' = f /\ Prune

\* The sidebar: another group of objects; the effect on objectGroup clears the selection.
ChooseGroup(g) ==
  /\ nav = "dashboard" /\ ~ Overlay /\ g # group
  /\ group' = g /\ selected' = {}
  /\ UNCHANGED <<serverVars, nav, filter, shown, jobsShown, dialogVars, sendVars>>

\* The page is left, or comes back with empty state; requests and loops under way go on.
Navigate ==
  /\ ~ Overlay
  /\ nav' = IF nav = "dashboard" THEN "packs" ELSE "dashboard"
  /\ selected' = {} /\ filter' = "all" /\ shown' = NoObjects /\ jobsShown' = <<>>
  /\ packMode' = "none" /\ ddlGroups' = {} /\ ticked' = {} /\ byHand' = {} /\ packBusy' = FALSE
  /\ posts' = [i \in DOMAIN posts |-> [posts[i] EXCEPT !.here = FALSE]]
  /\ UNCHANGED <<serverVars, group, posted, loops, finished>>

ToggleSelect(id) ==
  /\ nav = "dashboard" /\ ~ Overlay /\ id \in OfferedIds
  /\ selected' = IF id \in selected THEN selected \ {id} ELSE selected \cup {id}
  /\ UNCHANGED <<serverVars, pageVars, dialogVars, sendVars>>

\* The box in the head of the table, here with one page: all of them, or none.
SelectPage ==
  /\ nav = "dashboard" /\ ~ Overlay /\ OfferedIds # {}
  /\ selected' = IF OfferedIds \subseteq selected THEN selected \ OfferedIds ELSE selected \cup OfferedIds
  /\ UNCHANGED <<serverVars, pageVars, dialogVars, sendVars>>

-----------------------------------------------------------------------------
(* The buttons of the pack cards and of the selection bars.                *)

Drafts == {j \in DOMAIN jobsShown : jobsShown[j].st = "DRAFT"}

\* packModels and the two selection bars: which buttons are enabled.
DashboardButtons ==
  {b \in {"historical", "cdc", "sync columns", "ddl", "start ddl"} :
     CASE b \in {"historical", "cdc", "sync columns"} -> SelectedTables # {}
       [] b = "ddl" -> group = "ddl" /\ ~ packBusy /\ (SelectedDdl # {} \/ AvailableDdl # {})
       [] b = "start ddl" -> ~ packBusy /\ Drafts # {}}

OpenTableDialog(m) ==
  /\ nav = "dashboard" /\ ~ Overlay /\ m \in DashboardButtons
  /\ packMode' = m
  /\ UNCHANGED <<serverVars, pageVars, selected, ddlGroups, ticked, byHand, sendVars>>

\* SyncDdlDialog opens with everything checked except what holds data and would be dropped.
OpenDdlDialog ==
  LET ds == IF SelectedDdl # {} THEN SelectedDdl ELSE AvailableDdl
  IN /\ nav = "dashboard" /\ ~ Overlay /\ "ddl" \in DashboardButtons
     /\ packMode' = "ddl" /\ ddlGroups' = SyncGroups(ds)
     /\ ticked' = {g[1] : g \in {h \in SyncGroups(ds) : ~ (h[2] = "recreate" /\ h[1] \in Heavy)}}
     /\ byHand' = {}
     /\ UNCHANGED <<serverVars, pageVars, selected, sendVars>>

ToggleOne(d) ==
  /\ DdlDialog /\ \E g \in ddlGroups : g[1] = d
  /\ ticked' = IF d \in ticked THEN ticked \ {d} ELSE ticked \cup {d}
  /\ byHand' = byHand \cup ({d} \cap Heavy)
  /\ UNCHANGED <<serverVars, pageVars, selected, packMode, ddlGroups, sendVars>>

ToggleGroup(act) ==
  LET ds == {g[1] : g \in {h \in ddlGroups : h[2] = act}}
  IN /\ DdlDialog /\ ds # {}
     /\ ticked' = IF ds \subseteq ticked THEN ticked \ ds ELSE ticked \cup ds
     /\ byHand' = byHand \cup (ds \cap Heavy)
     /\ UNCHANGED <<serverVars, pageVars, selected, packMode, ddlGroups, sendVars>>

\* The cross, Cancel, or a click beside the dialog, which works while a request is under way.
CloseDialog ==
  /\ Overlay
  /\ packMode' = "none" /\ ddlGroups' = {} /\ ticked' = {} /\ byHand' = {} /\ posts' = Closed
  /\ UNCHANGED <<serverVars, pageVars, selected, posted, packBusy, loops, finished>>

-----------------------------------------------------------------------------
(* Requests.                                                               *)

\* What is in it, whether the page and the dialog it comes from are still there, and its answer.
Send(k, todo, forced, js) ==
  /\ posted < MaxPosts /\ posted' = posted + 1
  /\ posts' = Append(posts, [kind |-> k, todo |-> todo, made |-> {}, forced |-> forced, jobs |-> js, page |-> nav,
                             here |-> TRUE, dlg |-> Overlay, st |-> "sent"])
Answered(i) == posts' = [k \in 1..(Len(posts) - 1) |-> IF k < i THEN posts[k] ELSE posts[k + 1]]
\* The dialog that a request was sent from disables its submit button meanwhile.
SubmitBusy(k) == \E i \in DOMAIN posts : posts[i].kind = k /\ posts[i].here /\ (k = "columns" \/ posts[i].dlg)

SubmitTables ==
  /\ TableDialog /\ ~ SubmitBusy("tables")
  /\ Send("tables", SelectedTables, {}, {})
  /\ UNCHANGED <<serverVars, pageVars, selected, dialogVars, packBusy, loops, finished>>

\* handleSyncSelectedTableColumns: a request per table, then a new snapshot.
SyncColumns ==
  /\ nav = "dashboard" /\ ~ Overlay /\ "sync columns" \in DashboardButtons /\ ~ SubmitBusy("columns")
  /\ Send("columns", SelectedTables, {}, {})
  /\ UNCHANGED <<serverVars, pageVars, selected, dialogVars, packBusy, loops, finished>>

\* handleAddDdlSelectionToPack: a request for each action that something is ticked for.
SubmitDdl ==
  LET sel == {g \in ddlGroups : g[1] \in ticked}
  IN /\ DdlDialog /\ sel # {} /\ ~ SubmitBusy("ddl")
     /\ Send("ddl", sel, byHand, {})
     /\ packBusy' = TRUE
     /\ UNCHANGED <<serverVars, pageVars, selected, dialogVars, loops, finished>>

\* handleStartDdlPack, here and on the page with the details: the drafts that are shown.
StartDdl ==
  /\ ~ Overlay /\ "start ddl" \in DashboardButtons
  /\ Send("start", {}, {}, Drafts)
  /\ packBusy' = TRUE
  /\ UNCHANGED <<serverVars, pageVars, selected, dialogVars, loops, finished>>

\* add_plan_items: all tables or none; a table twice, or one with a live item, is refused.
Names(rows) == {r[1] : r \in rows}
TablesAccepted(rows) == Cardinality(Names(rows)) = Cardinality(rows) /\ \A t \in Names(rows) : ~ live[t]
AddTables(rows) ==
  IF TablesAccepted(rows)
    THEN /\ \A t \in Names(rows) : migs[t] < MaxMig
         /\ migs' = [t \in Tabs |-> IF t \in Names(rows) THEN migs[t] + 1 ELSE migs[t]]
         /\ live' = [t \in Tabs |-> live[t] \/ t \in Names(rows)]
    ELSE UNCHANGED <<migs, live>>

\* submit_jobs: one transaction for each request.  It asks for each object whether a committed job for
\* it is active, and writes one if not: nothing keeps two transactions from both finding none.
ActiveNow == {ddlJobs[j].obj : j \in {k \in DOMAIN ddlJobs : ddlJobs[k].st \in Active}}
Skipped(g) == g[1] \in ActiveNow \/ (g[2] = "sync_diff" /\ g[1] \notin Replaceable)
Job(g, f) == [obj |-> g[1], act |-> g[2], st |-> "DRAFT", asked |-> g[1] \in f]

\* One object of the request for one action; the order of the objects in it does not matter here.
SubmitJob(i, g) ==
  /\ g \in posts[i].todo /\ \A h \in posts[i].made : h[2] = g[2]
  /\ posts' = [posts EXCEPT ![i].todo = @ \ {g}, ![i].made = IF Skipped(g) THEN @ ELSE @ \cup {g}]
  /\ UNCHANGED ddlJobs
CommitJobs(i) ==
  LET made == posts[i].made
  IN /\ made # {} /\ \A g \in posts[i].todo, h \in made : g[2] # h[2]
     /\ Len(ddlJobs) + Cardinality(made) <= MaxJob
     /\ \E order \in [1..Cardinality(made) -> made] :
          /\ {order[k] : k \in DOMAIN order} = made
          /\ ddlJobs' = ddlJobs \o [k \in DOMAIN order |-> Job(order[k], posts[i].forced)]
     /\ posts' = [posts EXCEPT ![i].made = {}]
JobsSubmitted(i) ==
  /\ posts[i].todo = {} /\ posts[i].made = {} /\ posts' = [posts EXCEPT ![i].st = "ok"]
  /\ UNCHANGED ddlJobs

\* load_catalog begins: from here on it is newer than every load begun before.
BeginLoad(by, js) ==
  /\ begun < MaxReload /\ begun' = begun + 1
  /\ reloads' = reloads \cup {[no |-> begun + 1, by |-> by, for |-> js, st |-> "begun", ddl |-> NothingRead]}
  /\ UNCHANGED snap

\* The tables one after another, then a load of the catalogue, which it waits for.
ServeColumns(i) ==
  \/ posts' = [posts EXCEPT ![i].st = "refused"] /\ UNCHANGED catalogVars
  \/ posts[i].todo # {} /\ BeginLoad("columns", {}) /\ posts' = [posts EXCEPT ![i].todo = {}]
  \/ /\ posts[i].todo = {}
     /\ \E l \in reloads : /\ l.by = "columns" /\ l.st \in {"stored", "failed"} /\ reloads' = reloads \ {l}
                           /\ posts' = [posts EXCEPT ![i].st = IF l.st = "stored" THEN "ok" ELSE "refused"]
     /\ UNCHANGED <<snap, begun>>

ServePost(i) ==
  LET p == posts[i]
  IN /\ i \in DOMAIN posts /\ p.st = "sent"
     /\ \/ /\ p.kind = "tables" /\ AddTables(p.todo)
           /\ posts' = [posts EXCEPT ![i].st = IF TablesAccepted(p.todo) THEN "ok" ELSE "refused"]
           /\ UNCHANGED <<real, catalogVars, ddlJobs>>
        \/ /\ p.kind = "columns" /\ ServeColumns(i)
           /\ UNCHANGED <<migs, live, real, ddlJobs>>
        \/ /\ p.kind = "start"
           /\ ddlJobs' = [j \in DOMAIN ddlJobs |->
                            IF j \in p.jobs /\ ddlJobs[j].st = "DRAFT"
                              THEN [ddlJobs[j] EXCEPT !.st = "PENDING"] ELSE ddlJobs[j]]
           /\ posts' = [posts EXCEPT ![i].st = "ok", ![i].jobs = {j \in p.jobs : ddlJobs[j].st = "DRAFT"}]
           /\ UNCHANGED <<migs, live, real, catalogVars>>
        \/ /\ p.kind = "ddl" /\ (JobsSubmitted(i) \/ CommitJobs(i) \/ \E g \in p.todo : SubmitJob(i, g))
           /\ UNCHANGED <<migs, live, real, catalogVars>>
     /\ UNCHANGED <<pageVars, selected, dialogVars, posted, packBusy, loops, finished>>

\* The connection breaks: what was served stays served, the browser sees a failure.
PostBreaks(i) ==
  /\ i \in DOMAIN posts /\ posts[i].st \in {"sent", "ok"}
  /\ posts' = [posts EXCEPT ![i].st = "refused"]
  /\ UNCHANGED <<serverVars, pageVars, selected, dialogVars, posted, packBusy, loops, finished>>

\* The continuation of the click that sent it.  onDone and onClose close whatever dialog is open
\* and clear whatever is selected by now.
PostAnswered(i) ==
  LET p == posts[i]
      ok == p.st = "ok"
  IN /\ i \in DOMAIN posts /\ p.st \in {"ok", "refused"} /\ Answered(i)
     /\ IF ok /\ p.here /\ p.kind \in {"tables", "ddl", "columns"}
          THEN selected' = {} ELSE UNCHANGED selected
     /\ IF ok /\ p.here /\ p.kind \in {"tables", "ddl"}
          THEN packMode' = "none" /\ ddlGroups' = {} /\ ticked' = {} /\ byHand' = {}
          ELSE UNCHANGED dialogVars
     /\ packBusy' = (packBusy /\ ~ (p.here /\ p.kind \in {"ddl", "start"}))
     /\ loops' = IF ok /\ p.kind = "start" /\ p.page = "dashboard" /\ p.jobs # {} THEN loops \cup {p.jobs} ELSE loops
     /\ UNCHANGED <<serverVars, pageVars, posted, finished>>

-----------------------------------------------------------------------------
(* pollDdlJobsAndRefresh, the workers and the other operators.             *)

\* Mutant of StoredBy: the snapshot that was committed last is the latest.
StoredLast(l) == [no |-> l.no, ddl |-> l.ddl]

\* What the latest snapshot is once the transaction of a load is committed: ORDER BY loaded_at.
StoredBy(l) == IF l.no > snap.no THEN [no |-> l.no, ddl |-> l.ddl] ELSE snap

\* The load goes on: it reads the target, and commits or gives up.
CatalogReads(l) ==
  /\ l \in reloads /\ l.st = "begun"
  /\ reloads' = (reloads \ {l}) \cup {[l EXCEPT !.st = "read", !.ddl = real]}
  /\ UNCHANGED <<migs, live, real, snap, begun, ddlJobs, pageVars, selected, dialogVars, sendVars>>
Concluded(l, st) == reloads' = (reloads \ {l}) \cup {[k EXCEPT !.st = st] : k \in {m \in {l} : m.by = "columns"}}
CatalogCommits(l) ==
  /\ l \in reloads /\ l.st = "read" /\ Concluded(l, "stored")
  /\ snap' = StoredBy(l) /\ finished' = finished \cup l.for
  /\ UNCHANGED <<migs, live, real, begun, ddlJobs, pageVars, selected, dialogVars, posts, posted, packBusy, loops>>
CatalogFails(l) ==
  /\ l \in reloads /\ l.st \in {"begun", "read"} /\ Concluded(l, "failed")
  /\ UNCHANGED <<migs, live, real, snap, begun, ddlJobs, pageVars, selected, dialogVars, sendVars>>

\* A look at the jobs: when all have ended the catalogue is loaded again.  Nobody looks whether it was:
\* the request may also never reach the server, or be refused by it.
PollDdlJobs(L) ==
  /\ L \in loops /\ \A j \in L : ddlJobs[j].st \in Terminal
  /\ loops' = loops \ {L} /\ (BeginLoad("loop", L) \/ UNCHANGED catalogVars)
  /\ UNCHANGED <<migs, live, real, ddlJobs, pageVars, selected, dialogVars, posts, posted, packBusy, finished>>

\* Ten minutes have passed.
PollTimesOut(L) ==
  /\ L \in loops /\ loops' = loops \ {L}
  /\ UNCHANGED <<serverVars, pageVars, selected, dialogVars, posts, posted, packBusy, finished>>

JobMoves(j, from, to) ==
  /\ j \in DOMAIN ddlJobs /\ ddlJobs[j].st = from
  /\ ddlJobs' = [ddlJobs EXCEPT ![j].st = to]

\* What a CREATE leaves: an object, equal to the source's or not, valid or not.  create_missing leaves an
\* object of a type that cannot be replaced as it is, and calls that done.
Created(j, st) ==
  LET d == ddlJobs[j].obj
  IN IF ddlJobs[j].act = "create_missing" /\ d \in Heavy /\ real[d] # "missing"
       THEN st = real[d] ELSE st \in TargetStates \ {"missing"}

\* process_ddl_apply_job: recreate drops the object first, and what fails after that leaves none.
WorkerSteps(j) ==
  /\ \/ JobMoves(j, "PENDING", "CLAIMED") /\ UNCHANGED real
     \/ /\ JobMoves(j, "CLAIMED", "CLAIMED") /\ ddlJobs[j].act = "recreate"
        /\ real' = [real EXCEPT ![ddlJobs[j].obj] = "missing"]
     \/ /\ JobMoves(j, "CLAIMED", "DONE")
        /\ \E st \in TargetStates : Created(j, st) /\ real' = [real EXCEPT ![ddlJobs[j].obj] = st]
     \/ JobMoves(j, "CLAIMED", "FAILED") /\ UNCHANGED real
  /\ UNCHANGED <<migs, live, catalogVars, pageVars, selected, dialogVars, sendVars>>

\* Another browser adds a table, or an object, or loads the catalogue.
OtherAddsTable(t) ==
  /\ ~ live[t] /\ migs[t] < MaxMig
  /\ migs' = [migs EXCEPT ![t] = @ + 1] /\ live' = [live EXCEPT ![t] = TRUE]
  /\ UNCHANGED <<real, catalogVars, ddlJobs, pageVars, selected, dialogVars, sendVars>>

\* Its page may be older than this one, and its look for an active job older than the one there is now.
OtherAddsDdl(d) ==
  /\ Len(ddlJobs) < MaxJob
  /\ \E act \in Actions : /\ act = "sync_diff" => d \in Replaceable
                         /\ ddlJobs' = Append(ddlJobs, Job(<<d, act>>, {d}))
  /\ UNCHANGED <<migs, live, real, catalogVars, pageVars, selected, dialogVars, sendVars>>

OtherLoads ==
  /\ BeginLoad("other", {})
  /\ UNCHANGED <<migs, live, real, ddlJobs, pageVars, selected, dialogVars, sendVars>>

ItemEnds(t) ==
  /\ live[t] /\ live' = [live EXCEPT ![t] = FALSE]
  /\ UNCHANGED <<migs, real, catalogVars, ddlJobs, pageVars, selected, dialogVars, sendVars>>

-----------------------------------------------------------------------------
DashInit ==
  /\ migs = [t \in Tabs |-> 0] /\ live = [t \in Tabs |-> FALSE]
  /\ real \in [Ddl -> {"missing", "differs"}] /\ ddlJobs = <<>>
  /\ snap = [no |-> 0, ddl |-> real] /\ reloads = {} /\ begun = 0
  /\ nav = "dashboard" /\ group = "tables" /\ filter = "all" /\ shown = NoObjects /\ jobsShown = <<>>
  /\ selected = {} /\ packMode = "none" /\ ddlGroups = {} /\ ticked = {} /\ byHand = {}
  /\ posts = <<>> /\ posted = 0 /\ packBusy = FALSE /\ loops = {} /\ finished = {}

\* What concerns the page, the requests, the tables, the dialog of the DDL pack, and its jobs.
PageNext ==
  \/ LandObjects \/ Navigate \/ SelectPage \/ CloseDialog
  \/ \E f \in {"all", "issues"} : FilterObjects(f)
  \/ \E g \in {"tables", "ddl"} : ChooseGroup(g)
  \/ \E id \in OfferedIds : ToggleSelect(id)

RequestsNext ==
  \/ \E i \in DOMAIN posts : ServePost(i) \/ PostBreaks(i) \/ PostAnswered(i)
  \/ \E l \in reloads : CatalogReads(l) \/ CatalogCommits(l) \/ CatalogFails(l)

TablesNext ==
  \/ \E m \in {"historical", "cdc"} : OpenTableDialog(m)
  \/ SubmitTables \/ SyncColumns
  \/ \E t \in Tabs : OtherAddsTable(t) \/ ItemEnds(t)

DdlNext ==
  \/ LandDdlJobs \/ OpenDdlDialog \/ SubmitDdl
  \/ \E d \in Ddl : ToggleOne(d) \/ OtherAddsDdl(d)
  \/ \E act \in Actions : ToggleGroup(act)

JobsNext ==
  \/ StartDdl \/ OtherLoads
  \/ \E L \in loops : PollDdlJobs(L) \/ PollTimesOut(L)
  \/ \E j \in DOMAIN ddlJobs : WorkerSteps(j)

DashNext == PageNext \/ RequestsNext \/ TablesNext \/ DdlNext \/ JobsNext

DashSpec == DashInit /\ [][DashNext]_dashVars

-----------------------------------------------------------------------------
(* Properties.                                                             *)

\* The number on the selection bar is the number of tables a dialog would
\* send, whatever the polls took away or brought since the boxes were ticked.
BarCountsWhatIsSent == nav = "dashboard" /\ group = "tables" => SelectedTables = selected

\* Nothing that holds data is dropped and created again by the DDL pack unless its box in the dialog was
\* ticked by hand, however late the request is served and whatever dialog was open meanwhile.
DropsOnlyWhatWasAsked ==
  \A j \in DOMAIN ddlJobs : ddlJobs[j].act = "recreate" /\ ddlJobs[j].obj \in Heavy => ddlJobs[j].asked

\* An object that no worker has touched but for jobs that a loop has seen to their end, and has reloaded
\* the catalogue after, is in the latest snapshot as it is in the target, however the loads of this page
\* and of others overtake each other.
StartedOn(d) == {j \in DOMAIN ddlJobs : ddlJobs[j].obj = d /\ ddlJobs[j].st \notin {"DRAFT", "PENDING"}}
RefreshedWhenFinished == \A d \in Ddl : StartedOn(d) \subseteq finished => snap.ddl[d] = real[d]
=============================================================================
