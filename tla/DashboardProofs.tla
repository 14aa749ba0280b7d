--------------------------- MODULE DashboardProofs ---------------------------
(***************************************************************************)
(* Theorems about the three panels that change the target: the dashboard   *)
(* (DashboardView), the drawer of one object (ObjectDrawer) and the page   *)
(* that prepares the target (TargetPrep), for any tables, objects and      *)
(* schemas and any number of clicks, requests, jobs and migrations.  For   *)
(* each there is one inductive invariant, kept by every step.              *)
(***************************************************************************)
EXTENDS DashboardView, ObjectDrawer, TargetPrep,
        SequenceTheorems, FiniteSetTheorems, FunctionTheorems, TLAPS

(***************************************************************************)
(* The dashboard (DashboardView).                                          *)
(***************************************************************************)
TableIds == Tabs \X Nat
DdlPairs == Ddl \X Actions
PackJob == [obj : Ddl, act : Actions, st : Active \cup Terminal, asked : BOOLEAN]
Reload == [no : Nat, by : {"loop", "columns", "other"}, for : SUBSET Nat,
           st : {"begun", "read", "stored", "failed"}, ddl : [Ddl -> TargetStates]]
Post == [kind : {"tables", "columns", "ddl", "start"}, todo : SUBSET (TableIds \cup DdlPairs), made : SUBSET DdlPairs, forced : SUBSET Heavy,
         jobs : SUBSET Nat, page : {"dashboard", "packs"}, here : BOOLEAN, dlg : BOOLEAN, st : {"sent", "ok", "refused"}]

CatalogShape ==
  /\ begun \in 0..MaxReload /\ snap \in [no : 0..begun, ddl : [Ddl -> TargetStates]]
  /\ reloads \subseteq Reload /\ \A l \in reloads : l.no \in 1..begun
DashShape ==
  /\ migs \in [Tabs -> 0..MaxMig] /\ live \in [Tabs -> BOOLEAN]
  /\ real \in [Ddl -> TargetStates] /\ ddlJobs \in Seq(PackJob)
  /\ CatalogShape
  /\ nav \in {"dashboard", "packs"} /\ group \in {"tables", "ddl"} /\ filter \in {"all", "issues"}
  /\ shown \in [rows : SUBSET TableIds, ddl : {NoObjects.ddl} \cup [Ddl -> TargetStates]]
  /\ DOMAIN jobsShown \subseteq DOMAIN ddlJobs
  /\ packMode \in {"none", "historical", "cdc", "ddl"} /\ ddlGroups \subseteq DdlPairs /\ ticked \subseteq Ddl /\ byHand \subseteq Heavy
  /\ posts \in Seq(Post) /\ posted \in 0..MaxPosts /\ packBusy \in BOOLEAN
  /\ \A L \in loops : L \subseteq DOMAIN ddlJobs
  /\ finished \subseteq DOMAIN ddlJobs

\* An object that holds data and is ticked to be dropped was ticked by hand; a request keeps what was.
Loses(g) == g[2] = "recreate" /\ g[1] \in Heavy
TickedByHand == \A g \in ddlGroups : Loses(g) /\ g[1] \in ticked => g[1] \in byHand
Content(p) == p.todo \cup p.made
PostOK(p) ==
  /\ p.jobs \subseteq DOMAIN ddlJobs
  /\ p.kind = "ddl" => Content(p) \subseteq DdlPairs /\ \A g \in Content(p) : Loses(g) => g[1] \in p.forced
PostsOK == \A i \in DOMAIN posts : PostOK(posts[i])

\* The jobs whose end a load numbered n knows of, if it is stored: those of its loop and of the loops whose
\* loads were begun before it.  They have ended; and an object that only they have touched is in the load
\* as it is in the target, from the reading on, unless a newer snapshot is stored already.
Covered(n) == finished \cup UNION {l.for : l \in {k \in reloads : k.no <= n}}
CoveredEnded == \A n \in Nat : \A j \in Covered(n) : j \in DOMAIN ddlJobs /\ ddlJobs[j].st \in Terminal
Knows(n, ddl) == \A d \in Ddl : StartedOn(d) \subseteq Covered(n) => ddl[d] = real[d]
LoadsKnow ==
  /\ Knows(snap.no, snap.ddl)
  /\ \A l \in reloads : l.st = "read" /\ l.no > snap.no => Knows(l.no, l.ddl)
CatalogInv == CoveredEnded /\ LoadsKnow

DashInv ==
  /\ DashShape /\ TickedByHand /\ PostsOK /\ CatalogInv
  /\ DropsOnlyWhatWasAsked /\ BarCountsWhatIsSent

-----------------------------------------------------------------------------
(* Requests.                                                               *)
Follows(q, p) ==
  q \in Post /\ q.kind = p.kind /\ Content(q) \subseteq Content(p) /\ q.forced = p.forced /\ q.jobs \subseteq p.jobs

LEMMA PostUpdates ==
  ASSUME NEW p \in Post
  PROVE  /\ Follows(p, p)
         /\ Follows([p EXCEPT !.here = FALSE], p) /\ Follows([p EXCEPT !.dlg = FALSE], p)
         /\ \A s \in {"sent", "ok", "refused"} : Follows([p EXCEPT !.st = s], p)
         /\ \A s \in {"sent", "ok", "refused"}, js \in SUBSET p.jobs : Follows([p EXCEPT !.st = s, !.jobs = js], p)
         /\ Follows([p EXCEPT !.todo = {}], p) /\ Follows([p EXCEPT !.made = {}], p)
         /\ \A g \in p.todo \cap DdlPairs : \A m \in {p.made, p.made \cup {g}} :
              Follows([p EXCEPT !.todo = p.todo \ {g}, !.made = m], p)
<1>1. Follows(p, p) /\ Follows([p EXCEPT !.here = FALSE], p) /\ Follows([p EXCEPT !.dlg = FALSE], p)
  BY DEF Post, Follows, Content
<1>2. ASSUME NEW s \in {"sent", "ok", "refused"}
      PROVE  Follows([p EXCEPT !.st = s], p)
  BY DEF Post, Follows, Content
<1>3. ASSUME NEW s \in {"sent", "ok", "refused"}, NEW js \in SUBSET p.jobs
      PROVE  Follows([p EXCEPT !.st = s, !.jobs = js], p)
  <2> DEFINE q == [p EXCEPT !.st = s]
             r == [p EXCEPT !.st = s, !.jobs = js]
  <2>1. q \in Post /\ q.kind = p.kind /\ q.todo = p.todo /\ q.made = p.made /\ q.forced = p.forced /\ q.jobs = p.jobs
    BY DEF Post
  <2>2. r = [q EXCEPT !.jobs = js]
    OBVIOUS
  <2> HIDE DEF q, r
  <2>3. Follows(r, p)
    BY <2>1, <2>2 DEF Post, Follows, Content
  <2> QED
    BY <2>3 DEF r
<1>4. Follows([p EXCEPT !.todo = {}], p) /\ Follows([p EXCEPT !.made = {}], p)
  BY DEF Post, Follows, Content
<1>5. ASSUME NEW g \in p.todo \cap DdlPairs, NEW m \in {p.made, p.made \cup {g}}
      PROVE  Follows([p EXCEPT !.todo = p.todo \ {g}, !.made = m], p)
  <2> DEFINE q == [p EXCEPT !.todo = p.todo \ {g}]
             r == [p EXCEPT !.todo = p.todo \ {g}, !.made = m]
  <2>1. /\ q \in Post /\ q.kind = p.kind /\ q.todo = p.todo \ {g} /\ q.made = p.made /\ q.forced = p.forced
        /\ q.jobs = p.jobs
    BY DEF Post
  <2>2. r = [q EXCEPT !.made = m]
    OBVIOUS
  <2>3. m \in SUBSET DdlPairs /\ m \subseteq p.todo \cup p.made
    BY DEF Post
  <2> HIDE DEF q, r
  <2>4. r \in Post /\ r.kind = p.kind /\ r.todo = p.todo \ {g} /\ r.made = m /\ r.forced = p.forced /\ r.jobs = p.jobs
    BY <2>1, <2>2, <2>3 DEF Post
  <2>5. Follows(r, p)
    BY <2>3, <2>4 DEF Follows, Content
  <2> QED
    BY <2>5 DEF r
<1> QED
  BY <1>1, <1>2, <1>3, <1>4, <1>5

(* Requests that follow those there were are as good.                                                      *)
LEMMA PostsFollow ==
  ASSUME posts \in Seq(Post), PostsOK, posts' \in Seq(Post), DOMAIN ddlJobs \subseteq DOMAIN ddlJobs',
         \A k \in DOMAIN posts' : \E i \in DOMAIN posts : Follows(posts'[k], posts[i])
  PROVE  PostsOK'
<1> SUFFICES ASSUME NEW k \in DOMAIN posts'
    PROVE  PostOK(posts[k])'
  BY DEF PostsOK
<1>1. PICK i \in DOMAIN posts : Follows(posts'[k], posts[i])
  OBVIOUS
<1>2. PostOK(posts[i])
  BY DEF PostsOK
<1> QED
  BY <1>1, <1>2 DEF PostOK, Follows

LEMMA PostUpdated ==
  ASSUME posts \in Seq(Post), NEW i \in DOMAIN posts, NEW q, Follows(q, posts[i]), posts' = [posts EXCEPT ![i] = q]
  PROVE  /\ posts' \in Seq(Post)
         /\ \A k \in DOMAIN posts' : \E n \in DOMAIN posts : Follows(posts'[k], posts[n])
<1>1. posts' \in Seq(Post) /\ DOMAIN posts' = DOMAIN posts
  BY ExceptSeq DEF Follows
<1>2. \A n \in DOMAIN posts : Follows(posts[n], posts[n])
  <2> SUFFICES ASSUME NEW n \in DOMAIN posts PROVE Follows(posts[n], posts[n])
    OBVIOUS
  <2>1. posts[n] \in Post
    BY LenProperties
  <2> QED
    BY <2>1, PostUpdates
<1> QED
  BY <1>1, <1>2

LEMMA PostAnsweredFollows ==
  ASSUME posts \in Seq(Post), NEW i \in DOMAIN posts, Answered(i)
  PROVE  /\ posts' \in Seq(Post)
         /\ \A k \in DOMAIN posts' : \E n \in DOMAIN posts : Follows(posts'[k], posts[n])
<1>1. Len(posts) \in Nat /\ DOMAIN posts = 1..Len(posts) /\ posts \in [1..Len(posts) -> Post]
  BY LenProperties
<1>2. Len(posts) - 1 \in Nat
  BY <1>1
<1>3. \A k \in 1..(Len(posts) - 1) : k \in DOMAIN posts /\ k + 1 \in DOMAIN posts
  BY <1>1
<1>4. posts' \in [1..(Len(posts) - 1) -> Post]
  BY <1>1, <1>3 DEF Answered
<1>5. posts' \in Seq(Post)
  BY <1>2, <1>4, SeqDef
<1>6. \A n \in DOMAIN posts : Follows(posts[n], posts[n])
  BY PostUpdates, <1>1
<1> QED
  BY <1>3, <1>4, <1>5, <1>6 DEF Answered

LEMMA PostsMapped ==
  ASSUME posts \in Seq(Post), NEW Q \in [DOMAIN posts -> Post], posts' = Q, \A n \in DOMAIN posts : Follows(Q[n], posts[n])
  PROVE  /\ posts' \in Seq(Post)
         /\ \A k \in DOMAIN posts' : \E n \in DOMAIN posts : Follows(posts'[k], posts[n])
<1>1. Len(posts) \in Nat /\ DOMAIN posts = 1..Len(posts)
  BY LenProperties
<1>2. Q \in Seq(Post)
  BY <1>1, SeqDef
<1> QED
  BY <1>2

-----------------------------------------------------------------------------
(* What the page derives from what it shows.                                *)
LEMMA ShownFacts ==
  ASSUME DashShape
  PROVE  /\ DOMAIN shown.ddl \subseteq Ddl /\ shown.rows \subseteq TableIds
         /\ AvailableDdl \subseteq Ddl /\ FilteredRows \subseteq shown.rows
         /\ SelectedDdl \subseteq Ddl /\ SelectedTables \subseteq TableIds
<1>1. DOMAIN shown.ddl \subseteq Ddl /\ shown.rows \subseteq TableIds
  BY DEF DashShape, NoObjects
<1> QED
  BY <1>1 DEF AvailableDdl, FilteredDdl, FilteredRows, SelectedDdl, SelectedTables

LEMMA ActionFacts ==
  ASSUME NEW d, NEW s
  PROVE  DdlPackAction(d, s) \in Actions
  BY DEF DdlPackAction, AutomaticAction, Actions

LEMMA ObjectsNowShape ==
  ASSUME DashShape
  PROVE  ObjectsNow \in [rows : SUBSET TableIds, ddl : {NoObjects.ddl} \cup [Ddl -> TargetStates]]
<1>1. \A t \in Tabs : Rows(t) \subseteq TableIds
  BY DEF Rows, TableIds, DashShape
<1> QED
  BY <1>1 DEF ObjectsNow, DashShape, CatalogShape

\* An operator's dialog, the selection, and the page leave the jobs and the requests alone.
LEMMA JobsUntouched ==
  ASSUME DashInv, UNCHANGED <<real, catalogVars, ddlJobs, finished>>
  PROVE  CatalogInv' /\ DropsOnlyWhatWasAsked'
  BY DEF DashInv, CatalogInv, CoveredEnded, LoadsKnow, Knows, Covered, StartedOn, DropsOnlyWhatWasAsked, catalogVars

LEMMA RequestsUntouched ==
  ASSUME DashInv, UNCHANGED <<ddlJobs, posts>>
  PROVE  PostsOK'
  BY DEF DashInv, PostsOK, PostOK

LEMMA DialogUntouched ==
  ASSUME DashInv, UNCHANGED dialogVars
  PROVE  TickedByHand' /\ packMode' \in {"none", "historical", "cdc", "ddl"} /\ ddlGroups' \subseteq DdlPairs
         /\ ticked' \subseteq Ddl /\ byHand' \subseteq Heavy
  BY DEF DashInv, DashShape, TickedByHand, dialogVars

LEMMA DialogClosed ==
  ASSUME packMode' = "none", ddlGroups' = {}, ticked' = {}, byHand' = {}
  PROVE  TickedByHand' /\ packMode' \in {"none", "historical", "cdc", "ddl"} /\ ddlGroups' \subseteq DdlPairs
         /\ ticked' \subseteq Ddl /\ byHand' \subseteq Heavy
  BY DEF TickedByHand

LEMMA BarUntouched ==
  ASSUME DashInv, UNCHANGED <<nav, group, shown>>, selected' \subseteq selected \cup OfferedIds
  PROVE  BarCountsWhatIsSent'
<1>1. nav = "dashboard" /\ group = "tables" => selected' \subseteq shown.rows
  BY DEF DashInv, BarCountsWhatIsSent, SelectedTables, OfferedIds, FilteredRows
<1> QED
  BY <1>1 DEF BarCountsWhatIsSent, SelectedTables
LEMMA BarPruned ==
  ASSUME UNCHANGED group, Prune
  PROVE  BarCountsWhatIsSent'
  BY DEF Prune, SelectableIds, BarCountsWhatIsSent, SelectedTables

-----------------------------------------------------------------------------
(* The jobs.                                                                *)

\* Jobs move on, never back from an end; an object changes only while a job for it is at work, which no
\* load covers.
LEMMA JobsMove ==
  ASSUME DashInv, DOMAIN ddlJobs' = DOMAIN ddlJobs, UNCHANGED <<catalogVars, finished>>,
         \A j \in DOMAIN ddlJobs :
           /\ ddlJobs'[j].obj = ddlJobs[j].obj /\ ddlJobs'[j].act = ddlJobs[j].act
           /\ ddlJobs'[j].asked = ddlJobs[j].asked
           /\ ddlJobs[j].st \in Terminal => ddlJobs'[j].st = ddlJobs[j].st
           /\ ddlJobs'[j].st \in {"DRAFT", "PENDING"} => ddlJobs[j].st \in {"DRAFT", "PENDING"},
         \A d \in Ddl : real'[d] # real[d] =>
           \E j \in DOMAIN ddlJobs : ddlJobs[j].obj = d /\ ddlJobs[j].st = "CLAIMED"
  PROVE  CatalogInv' /\ DropsOnlyWhatWasAsked'
<1>1. DropsOnlyWhatWasAsked'
  BY DEF DashInv, DropsOnlyWhatWasAsked
<1>2. \A n : Covered(n)' = Covered(n)
  BY DEF Covered, catalogVars
<1>3. CoveredEnded'
  BY <1>2 DEF DashInv, CatalogInv, CoveredEnded
<1>4. ASSUME NEW n \in Nat, NEW ddl, Knows(n, ddl), NEW d \in Ddl, StartedOn(d)' \subseteq Covered(n)'
      PROVE  ddl[d] = real'[d]
  <2>1. StartedOn(d) \subseteq StartedOn(d)'
    BY DEF StartedOn
  <2>2. ddl[d] = real[d]
    BY <1>2, <1>4, <2>1 DEF Knows
  <2>3. CASE real'[d] # real[d]
    <3>1. PICK j \in DOMAIN ddlJobs : ddlJobs[j].obj = d /\ ddlJobs[j].st = "CLAIMED"
      BY <2>3
    <3>2. j \in Covered(n)
      BY <1>2, <1>4, <2>1, <3>1 DEF StartedOn
    <3> QED
      BY <3>1, <3>2 DEF DashInv, CatalogInv, CoveredEnded, Terminal
  <2> QED
    BY <2>2, <2>3
<1>5. snap.no \in Nat /\ \A l \in reloads : l.no \in Nat
  BY DashAssumption DEF DashInv, DashShape, CatalogShape, Reload
<1>6. LoadsKnow'
  <2>1. Knows(snap.no, snap.ddl)'
    BY <1>4, <1>5 DEF DashInv, CatalogInv, LoadsKnow, Knows, catalogVars
  <2>2. ASSUME NEW l \in reloads, l.st = "read", l.no > snap.no
        PROVE  Knows(l.no, l.ddl)'
    BY <1>4, <1>5, <2>2 DEF DashInv, CatalogInv, LoadsKnow, Knows
  <2> QED
    BY <2>1, <2>2 DEF LoadsKnow, catalogVars
<1> QED
  BY <1>1, <1>3, <1>6 DEF CatalogInv

\* New jobs are drafts.
LEMMA JobsAdded ==
  ASSUME DashInv, NEW new \in Seq(PackJob), ddlJobs' = ddlJobs \o new, UNCHANGED <<real, catalogVars, finished>>,
         \A k \in DOMAIN new : /\ new[k].st = "DRAFT"
                               /\ new[k].act = "recreate" /\ new[k].obj \in Heavy => new[k].asked
  PROVE  /\ ddlJobs' \in Seq(PackJob) /\ DOMAIN ddlJobs \subseteq DOMAIN ddlJobs'
         /\ CatalogInv' /\ DropsOnlyWhatWasAsked'
<1>1. ddlJobs \in Seq(PackJob)
  BY DEF DashInv, DashShape
<1>2. /\ Len(ddlJobs) \in Nat /\ DOMAIN ddlJobs = 1..Len(ddlJobs) /\ Len(new) \in Nat /\ DOMAIN new = 1..Len(new)
      /\ ddlJobs' \in Seq(PackJob) /\ Len(ddlJobs') = Len(ddlJobs) + Len(new) /\ DOMAIN ddlJobs' = 1..Len(ddlJobs')
  BY <1>1, LenProperties, ConcatProperties
<1>3. \A j \in DOMAIN ddlJobs' :
        \/ j \in DOMAIN ddlJobs /\ ddlJobs'[j] = ddlJobs[j]
        \/ j - Len(ddlJobs) \in DOMAIN new /\ j \notin DOMAIN ddlJobs /\ ddlJobs'[j] = new[j - Len(ddlJobs)]
  BY <1>1, <1>2, ConcatProperties
<1>4. \A j \in DOMAIN ddlJobs : j \in DOMAIN ddlJobs' /\ ddlJobs'[j] = ddlJobs[j]
  BY <1>1, <1>2, ConcatProperties
<1>5. \A d \in Ddl : StartedOn(d)' = StartedOn(d)
  BY <1>3, <1>4 DEF StartedOn
<1>6. \A n : Covered(n)' = Covered(n)
  BY DEF Covered, catalogVars
<1>7. CatalogInv'
  BY <1>4, <1>5, <1>6 DEF DashInv, CatalogInv, CoveredEnded, LoadsKnow, Knows, catalogVars
<1>8. DropsOnlyWhatWasAsked'
  <2> SUFFICES ASSUME NEW j \in DOMAIN ddlJobs', ddlJobs'[j].act = "recreate", ddlJobs'[j].obj \in Heavy
      PROVE  ddlJobs'[j].asked
    BY DEF DropsOnlyWhatWasAsked
  <2> QED
    BY <1>3 DEF DashInv, DropsOnlyWhatWasAsked
<1> QED
  BY <1>2, <1>4, <1>7, <1>8

(* The loads of the catalogue.                                              *)
LEMMA LoadBegins ==
  ASSUME DashInv, NEW by \in {"loop", "columns", "other"}, NEW js \in SUBSET (DOMAIN ddlJobs), BeginLoad(by, js),
         \A j \in js : ddlJobs[j].st \in Terminal, UNCHANGED <<real, ddlJobs, finished>>
  PROVE  CatalogShape' /\ CatalogInv' /\ DropsOnlyWhatWasAsked'
<1> DEFINE new == [no |-> begun + 1, by |-> by, for |-> js, st |-> "begun", ddl |-> NothingRead]
<1>1. /\ begun \in Nat /\ MaxReload \in Nat /\ begun' = begun + 1 /\ begun < MaxReload
      /\ reloads' = reloads \cup {new} /\ snap' = snap
  BY DashAssumption DEF BeginLoad, DashInv, DashShape, CatalogShape
<1>2. new \in Reload /\ new.no = begun + 1 /\ new.for = js /\ new.st = "begun"
  <2>1. js \subseteq Nat
    BY LenProperties DEF DashInv, DashShape
  <2> QED
    BY <1>1, <2>1 DEF Reload, NothingRead, TargetStates
<1> HIDE DEF new
<1>3. reloads' \subseteq Reload /\ \A l \in reloads' : l.no \in 1..begun'
  BY <1>1, <1>2 DEF DashInv, DashShape, CatalogShape
<1>4. CatalogShape'
  BY <1>1, <1>3 DEF DashInv, DashShape, CatalogShape
<1>5. ASSUME NEW n \in 0..begun PROVE Covered(n)' = Covered(n)
  <2>1. {k \in reloads' : k.no <= n} = {k \in reloads : k.no <= n}
    BY <1>1, <1>2
  <2> QED
    BY <2>1 DEF Covered
<1>6. CoveredEnded'
  <2> SUFFICES ASSUME NEW n \in Nat, NEW j \in Covered(n)'
      PROVE  j \in DOMAIN ddlJobs /\ ddlJobs[j].st \in Terminal
    BY DEF CoveredEnded
  <2>1. j \in Covered(n) \cup js
    BY <1>1, <1>2 DEF Covered
  <2> QED
    BY <2>1 DEF DashInv, CatalogInv, CoveredEnded
<1>7. LoadsKnow'
  <2>1. snap.no \in 0..begun /\ \A l \in reloads : l.no \in 0..begun
    BY <1>1 DEF DashInv, DashShape, CatalogShape
  <2>2. Knows(snap.no, snap.ddl)'
    BY <1>1, <1>5, <2>1 DEF DashInv, CatalogInv, LoadsKnow, Knows, StartedOn
  <2>3. ASSUME NEW l \in reloads', l.st = "read", l.no > snap.no
        PROVE  Knows(l.no, l.ddl)'
    <3>1. l \in reloads
      BY <1>1, <1>2, <2>3
    <3> QED
      BY <1>5, <2>1, <2>3, <3>1 DEF DashInv, CatalogInv, LoadsKnow, Knows, StartedOn
  <2> QED
    BY <1>1, <2>2, <2>3 DEF LoadsKnow
<1> QED
  BY <1>4, <1>6, <1>7 DEF CatalogInv, DashInv, DropsOnlyWhatWasAsked

\* A load that is dropped, or one that goes on without being stored.
LEMMA LoadGoesOn ==
  ASSUME DashInv, NEW l \in reloads, NEW more \in SUBSET Reload, reloads' = (reloads \ {l}) \cup more,
         \A k \in more : k.no = l.no /\ k.for = l.for /\ (k.st = "read" => k.ddl = real),
         UNCHANGED <<real, snap, begun, ddlJobs, finished>>
  PROVE  CatalogShape' /\ CatalogInv' /\ DropsOnlyWhatWasAsked'
<1>1. CatalogShape'
  BY DEF DashInv, DashShape, CatalogShape
<1>2. \A n : Covered(n)' \subseteq Covered(n)
  <2> SUFFICES ASSUME NEW n, NEW j \in Covered(n)' PROVE j \in Covered(n)
    OBVIOUS
  <2>1. CASE j \in finished
    BY <2>1 DEF Covered
  <2>2. ASSUME NEW k \in reloads', k.no <= n, j \in k.for PROVE j \in Covered(n)
    <3>1. \E m \in reloads : m.no = k.no /\ m.for = k.for
      BY <2>2
    <3> QED
      BY <2>2, <3>1 DEF Covered
  <2> QED
    BY <2>1, <2>2 DEF Covered
<1>3. CoveredEnded'
  BY <1>2 DEF DashInv, CatalogInv, CoveredEnded
<1>4. ASSUME NEW n, NEW ddl, Knows(n, ddl) PROVE \A d \in Ddl : StartedOn(d)' \subseteq Covered(n)' => ddl[d] = real'[d]
  BY <1>2, <1>4 DEF Knows, StartedOn
<1>5. LoadsKnow'
  <2>1. Knows(snap.no, snap.ddl)'
    BY <1>4 DEF DashInv, CatalogInv, LoadsKnow, Knows
  <2>2. ASSUME NEW k \in reloads', k.st = "read", k.no > snap.no
        PROVE  Knows(k.no, k.ddl)'
    <3>1. CASE k \in reloads
      BY <1>4, <2>2, <3>1 DEF DashInv, CatalogInv, LoadsKnow, Knows
    <3>2. CASE k \notin reloads
      BY <2>2, <3>2 DEF Knows
    <3> QED
      BY <3>1, <3>2
  <2> QED
    BY <2>1, <2>2 DEF LoadsKnow
<1> QED
  BY <1>1, <1>3, <1>5 DEF DashInv, CatalogInv, DropsOnlyWhatWasAsked

\* A load is stored: it knows what every load before it knew.
LEMMA LoadStored ==
  ASSUME DashInv, NEW l, CatalogCommits(l)
  PROVE  CatalogShape' /\ finished' \subseteq DOMAIN ddlJobs' /\ CatalogInv' /\ DropsOnlyWhatWasAsked'
<1>1. /\ l \in reloads /\ l.st = "read" /\ finished' = finished \cup l.for /\ snap' = StoredBy(l)
      /\ UNCHANGED <<real, begun, ddlJobs>>
  BY DEF CatalogCommits
<1>2. l \in Reload /\ begun \in Nat /\ l.no \in Nat /\ l.no \in 0..begun
  BY <1>1, DashAssumption DEF DashInv, DashShape, CatalogShape, Reload
<1> DEFINE more == {[k EXCEPT !.st = "stored"] : k \in {m \in {l} : m.by = "columns"}}
<1>3. reloads' = (reloads \ {l}) \cup more
  BY DEF CatalogCommits, Concluded
<1>4. \A k \in more : k \in Reload /\ k.no = l.no /\ k.for = l.for /\ k.st = "stored"
  BY <1>2 DEF Reload
<1> HIDE DEF more
<1>5. CatalogShape'
  <2>1. reloads' \subseteq Reload /\ \A k \in reloads' : k.no \in 1..begun
    BY <1>1, <1>3, <1>4 DEF DashInv, DashShape, CatalogShape
  <2>2. snap' \in [no : 0..begun, ddl : [Ddl -> TargetStates]]
    BY <1>1, <1>2 DEF StoredBy, DashInv, DashShape, CatalogShape, Reload
  <2> QED
    BY <1>1, <2>1, <2>2 DEF DashInv, DashShape, CatalogShape
<1>7. /\ \A n \in Nat : n >= l.no => Covered(n)' = Covered(n)
      /\ \A n \in Nat : Covered(n)' \subseteq Covered(n) \cup l.for
  <2>1. ASSUME NEW n \in Nat, NEW j \in Covered(n)' PROVE j \in Covered(n) \cup l.for
    <3>1. CASE j \in finished'
      BY <1>1, <3>1 DEF Covered
    <3>2. ASSUME NEW k \in reloads', k.no <= n, j \in k.for PROVE j \in Covered(n) \cup l.for
      BY <1>3, <1>4, <3>2 DEF Covered
    <3> QED
      BY <3>1, <3>2, <2>1 DEF Covered
  <2>2. ASSUME NEW n \in Nat, n >= l.no PROVE l.for \subseteq Covered(n)
    BY <1>1, <1>2, <2>2 DEF Covered
  <2>3. ASSUME NEW n \in Nat, NEW j \in Covered(n) PROVE j \in Covered(n)'
    <3>1. CASE j \in finished
      BY <1>1, <3>1 DEF Covered
    <3>2. ASSUME NEW k \in reloads, k.no <= n, j \in k.for PROVE j \in Covered(n)'
      BY <1>1, <1>3, <3>2 DEF Covered
    <3> QED
      BY <3>1, <3>2, <2>3 DEF Covered
  <2>4. ASSUME NEW n \in Nat, n >= l.no PROVE Covered(n)' = Covered(n)
    BY <2>1, <2>2, <2>3, <2>4
  <2> QED
    BY <2>1, <2>4
<1>8. CoveredEnded'
  <2>1. l.for \subseteq Covered(l.no)
    BY <1>1, <1>2 DEF Covered
  <2> QED
    BY <1>1, <1>2, <1>7, <2>1 DEF DashInv, CatalogInv, CoveredEnded
<1>9. snap.no \in Nat /\ \A k \in reloads : k.no \in Nat
  BY <1>2 DEF DashInv, DashShape, CatalogShape
<1>12. finished' \subseteq DOMAIN ddlJobs'
  <2>1. finished' \subseteq Covered(l.no)'
    BY DEF Covered
  <2> QED
    BY <1>2, <1>8, <2>1 DEF CoveredEnded
<1>10. snap'.no >= l.no /\ snap'.no >= snap.no /\ Knows(snap'.no, snap'.ddl) /\ snap'.no \in Nat
  BY <1>1, <1>2, <1>9 DEF StoredBy, DashInv, CatalogInv, LoadsKnow
<1>11. LoadsKnow'
  <2>1. Knows(snap.no, snap.ddl)'
    BY <1>1, <1>7, <1>10 DEF Knows, StartedOn
  <2>2. ASSUME NEW k \in reloads', k.st = "read", k.no > snap'.no
        PROVE  Knows(k.no, k.ddl)'
    <3>1. k \in reloads
      BY <1>3, <1>4, <2>2
    <3>2. k.no \in Nat /\ k.no >= l.no /\ k.no > snap.no
      BY <1>2, <1>9, <1>10, <2>2, <3>1
    <3>3. Knows(k.no, k.ddl) /\ Covered(k.no)' = Covered(k.no)
      BY <1>7, <2>2, <3>1, <3>2 DEF DashInv, CatalogInv, LoadsKnow
    <3> QED
      BY <1>1, <3>3 DEF Knows, StartedOn
  <2> QED
    BY <2>1, <2>2 DEF LoadsKnow
<1> QED
  BY <1>1, <1>5, <1>8, <1>11, <1>12 DEF DashInv, CatalogInv, DropsOnlyWhatWasAsked

-----------------------------------------------------------------------------
LEMMA PollsStep ==
  ASSUME DashInv, LandObjects \/ LandDdlJobs \/ \E f \in {"all", "issues"} : FilterObjects(f)
  PROVE  DashInv'
<1> USE DEF serverVars, catalogVars, pageVars, dialogVars, sendVars, CatalogShape
<1>1. CASE LandObjects
  <2>1. posts' \in Seq(Post) /\ PostsOK'
    <3>1. CASE posts' = posts
      BY <1>1, <3>1, RequestsUntouched DEF LandObjects, DashInv, DashShape
    <3>2. CASE posts' = Closed
      <4>1. \A i \in DOMAIN posts : Follows(Closed[i], posts[i])
        <5> SUFFICES ASSUME NEW i \in DOMAIN posts PROVE Follows(Closed[i], posts[i])
          OBVIOUS
        <5>1. posts[i] \in Post
          BY LenProperties DEF DashInv, DashShape
        <5> QED
          BY <5>1, PostUpdates DEF Closed
      <4>2. Closed \in [DOMAIN posts -> Post]
        BY <4>1 DEF Closed, Follows
      <4> QED
        BY <1>1, <3>2, <4>1, <4>2, PostsMapped, PostsFollow DEF LandObjects, DashInv, DashShape
    <3> QED
      BY <1>1, <3>1, <3>2 DEF LandObjects
  <2>2. DashShape'
    BY <1>1, <2>1, ObjectsNowShape DEF LandObjects, DashInv, DashShape
  <2> QED
    BY <1>1, <2>1, <2>2, JobsUntouched, DialogUntouched, BarPruned DEF LandObjects, DashInv
<1>2. CASE LandDdlJobs
  <2>1. DashShape'
    BY <1>2 DEF LandDdlJobs, JobsOf, DashInv, DashShape
  <2> QED
    BY <1>2, <2>1, JobsUntouched, RequestsUntouched, DialogUntouched, BarPruned DEF LandDdlJobs, DashInv
<1>3. ASSUME NEW f \in {"all", "issues"}, FilterObjects(f)
      PROVE  DashInv'
  <2>1. DashShape'
    BY <1>3 DEF FilterObjects, DashInv, DashShape
  <2> QED
    BY <1>3, <2>1, JobsUntouched, RequestsUntouched, DialogUntouched, BarPruned DEF FilterObjects, DashInv
<1> QED
  BY <1>1, <1>2, <1>3

LEMMA SelectionStep ==
  ASSUME DashInv, \/ Navigate \/ SelectPage \/ \E g \in {"tables", "ddl"} : ChooseGroup(g)
                  \/ \E id \in OfferedIds : ToggleSelect(id)
  PROVE  DashInv'
<1> USE DEF serverVars, catalogVars, pageVars, dialogVars, sendVars, CatalogShape
<1>1. CASE Navigate
  <2>1. posts' \in Seq(Post) /\ PostsOK'
    <3> DEFINE Left == [i \in DOMAIN posts |-> [posts[i] EXCEPT !.here = FALSE]]
    <3>1. \A i \in DOMAIN posts : Follows(Left[i], posts[i])
      <4> SUFFICES ASSUME NEW i \in DOMAIN posts PROVE Follows(Left[i], posts[i])
        OBVIOUS
      <4>1. posts[i] \in Post
        BY LenProperties DEF DashInv, DashShape
      <4> QED
        BY <4>1, PostUpdates
    <3>2. Left \in [DOMAIN posts -> Post]
      BY <3>1 DEF Follows
    <3>3. posts' = Left
      BY <1>1 DEF Navigate
    <3> HIDE DEF Left
    <3> QED
      BY <1>1, <3>1, <3>2, <3>3, PostsMapped, PostsFollow DEF Navigate, DashInv, DashShape
  <2>2. NoObjects \in [rows : SUBSET TableIds, ddl : {NoObjects.ddl} \cup [Ddl -> TargetStates]]
    BY DEF NoObjects
  <2>3. nav' \in {"dashboard", "packs"} /\ DOMAIN <<>> \subseteq DOMAIN ddlJobs
    BY <1>1 DEF Navigate
  <2>4. DashShape'
    BY <1>1, <2>1, <2>2, <2>3 DEF Navigate, DashInv, DashShape
  <2>5. BarCountsWhatIsSent'
    BY <1>1 DEF Navigate, BarCountsWhatIsSent, SelectedTables
  <2> QED
    BY <1>1, <2>1, <2>4, <2>5, JobsUntouched, DialogClosed DEF Navigate, DashInv
<1>2. CASE SelectPage
  <2>1. DashShape'
    BY <1>2 DEF SelectPage, DashInv, DashShape
  <2> QED
    BY <1>2, <2>1, JobsUntouched, RequestsUntouched, DialogUntouched, BarUntouched DEF SelectPage, DashInv
<1>3. ASSUME NEW g \in {"tables", "ddl"}, ChooseGroup(g)
      PROVE  DashInv'
  <2>1. DashShape'
    BY <1>3 DEF ChooseGroup, DashInv, DashShape
  <2>2. BarCountsWhatIsSent'
    BY <1>3 DEF ChooseGroup, BarCountsWhatIsSent, SelectedTables
  <2> QED
    BY <1>3, <2>1, <2>2, JobsUntouched, RequestsUntouched, DialogUntouched DEF ChooseGroup, DashInv
<1>4. ASSUME NEW id \in OfferedIds, ToggleSelect(id)
      PROVE  DashInv'
  <2>1. DashShape'
    BY <1>4 DEF ToggleSelect, DashInv, DashShape
  <2> QED
    BY <1>4, <2>1, JobsUntouched, RequestsUntouched, DialogUntouched, BarUntouched DEF ToggleSelect, DashInv
<1> QED
  BY <1>1, <1>2, <1>3, <1>4

(* The dialogs.                                                             *)
LEMMA DialogStep ==
  ASSUME DashInv, \/ CloseDialog \/ OpenDdlDialog \/ \E m \in {"historical", "cdc"} : OpenTableDialog(m)
                  \/ (\E d \in Ddl : ToggleOne(d)) \/ \E act \in Actions : ToggleGroup(act)
  PROVE  DashInv'
<1> USE DEF serverVars, catalogVars, pageVars, dialogVars, sendVars, CatalogShape
<1>1. CASE CloseDialog
  <2>1. posts' \in Seq(Post) /\ PostsOK'
    <3>1. \A i \in DOMAIN posts : Follows(Closed[i], posts[i])
      <4> SUFFICES ASSUME NEW i \in DOMAIN posts PROVE Follows(Closed[i], posts[i])
        OBVIOUS
      <4>1. posts[i] \in Post
        BY LenProperties DEF DashInv, DashShape
      <4> QED
        BY <4>1, PostUpdates DEF Closed
    <3>2. Closed \in [DOMAIN posts -> Post]
      BY <3>1 DEF Closed, Follows
    <3> QED
      BY <1>1, <3>1, <3>2, PostsMapped, PostsFollow DEF CloseDialog, DashInv, DashShape
  <2>2. DashShape'
    BY <1>1, <2>1, DialogClosed DEF CloseDialog, DashInv, DashShape
  <2> QED
    BY <1>1, <2>1, <2>2, JobsUntouched, DialogClosed, BarUntouched DEF CloseDialog, DashInv
<1>2. ASSUME NEW m \in {"historical", "cdc"}, OpenTableDialog(m)
      PROVE  DashInv'
  <2>1. DashShape'
    BY <1>2 DEF OpenTableDialog, DashInv, DashShape
  <2>2. TickedByHand'
    BY <1>2 DEF OpenTableDialog, DashInv, TickedByHand
  <2> QED
    BY <1>2, <2>1, <2>2, JobsUntouched, RequestsUntouched, BarUntouched DEF OpenTableDialog, DashInv
<1>3. CASE OpenDdlDialog
  <2> DEFINE ds == IF SelectedDdl # {} THEN SelectedDdl ELSE AvailableDdl
  <2>1. ds \subseteq Ddl
    BY ShownFacts DEF DashInv
  <2>2. \A g \in SyncGroups(ds) : g \in DdlPairs /\ g = <<g[1], DdlPackAction(g[1], shown.ddl[g[1]])>>
    BY <2>1, ActionFacts DEF SyncGroups, DdlPairs
  <2>3. /\ ddlGroups' = SyncGroups(ds) /\ packMode' = "ddl" /\ byHand' = {}
        /\ ticked' = {g[1] : g \in {h \in SyncGroups(ds) : ~Loses(h)}}
    BY <1>3 DEF OpenDdlDialog, Loses
  <2> HIDE DEF ds
  <2>4. ddlGroups' \subseteq DdlPairs /\ ticked' \subseteq Ddl
    BY <2>2, <2>3 DEF DdlPairs
  <2>5. TickedByHand'
    <3> SUFFICES ASSUME NEW g \in SyncGroups(ds), Loses(g), g[1] \in ticked'
        PROVE  FALSE
      BY <2>3 DEF TickedByHand, Loses
    <3>1. PICK h \in SyncGroups(ds) : ~Loses(h) /\ h[1] = g[1]
      BY <2>3
    <3>2. h = g
      BY <2>2, <3>1
    <3> QED
      BY <3>1, <3>2
  <2>6. DashShape'
    BY <1>3, <2>3, <2>4 DEF OpenDdlDialog, DashInv, DashShape
  <2> QED
    BY <1>3, <2>5, <2>6, JobsUntouched, RequestsUntouched, BarUntouched DEF OpenDdlDialog, DashInv
<1>4. ASSUME NEW d \in Ddl, ToggleOne(d)
      PROVE  DashInv'
  <2>1. DashShape'
    BY <1>4 DEF ToggleOne, DashInv, DashShape
  <2>2. TickedByHand'
    BY <1>4 DEF ToggleOne, DashInv, TickedByHand, Loses
  <2> QED
    BY <1>4, <2>1, <2>2, JobsUntouched, RequestsUntouched, BarUntouched DEF ToggleOne, DashInv
<1>5. ASSUME NEW act \in Actions, ToggleGroup(act)
      PROVE  DashInv'
  <2> DEFINE ds == {g[1] : g \in {h \in ddlGroups : h[2] = act}}
  <2>1. ds \subseteq Ddl
    BY DEF DashInv, DashShape, DdlPairs
  <2>2. /\ ticked' \in {ticked \ ds, ticked \cup ds} /\ byHand' = byHand \cup (ds \cap Heavy)
        /\ UNCHANGED <<serverVars, pageVars, selected, packMode, ddlGroups, sendVars>>
    BY <1>5 DEF ToggleGroup
  <2> HIDE DEF ds
  <2>3. DashShape'
    BY <2>1, <2>2 DEF DashInv, DashShape
  <2>4. TickedByHand'
    BY <2>2 DEF DashInv, TickedByHand, Loses
  <2> QED
    BY <2>2, <2>3, <2>4, JobsUntouched, RequestsUntouched, BarUntouched DEF DashInv
<1> QED
  BY <1>1, <1>2, <1>3, <1>4, <1>5

(* Sending.                                                                 *)
LEMMA SendFacts ==
  ASSUME DashInv, NEW k \in {"tables", "columns", "ddl", "start"}, NEW todo \in SUBSET (TableIds \cup DdlPairs),
         NEW forced \in SUBSET Heavy, NEW js \in SUBSET (DOMAIN ddlJobs), Send(k, todo, forced, js), UNCHANGED ddlJobs,
         k = "ddl" => todo \subseteq DdlPairs /\ \A g \in todo : Loses(g) => g[1] \in forced
  PROVE  posts' \in Seq(Post) /\ PostsOK' /\ posted' \in 0..MaxPosts
<1> DEFINE new == [kind |-> k, todo |-> todo, made |-> {}, forced |-> forced, jobs |-> js, page |-> nav,
                   here |-> TRUE, dlg |-> Overlay, st |-> "sent"]
<1>1. js \subseteq Nat
  BY LenProperties DEF DashInv, DashShape
<1>2. new \in Post
  <2>1. Overlay \in BOOLEAN
    BY DEF Overlay, DdlDialog, TableDialog
  <2> QED
    BY <1>1, <2>1 DEF Post, DashInv, DashShape
<1>3. PostOK(new)
  BY DEF PostOK, Content
<1>4. posts' = Append(posts, new)
  BY DEF Send
<1>5. posts \in Seq(Post)
  BY DEF DashInv, DashShape
<1> HIDE DEF new
<1>6. posts' \in Seq(Post)
  BY <1>2, <1>4, <1>5
<1>7. \A i \in DOMAIN posts' : posts'[i] = new \/ (i \in DOMAIN posts /\ posts'[i] = posts[i])
  BY <1>2, <1>4, <1>5, LenProperties, AppendProperties
<1>8. PostsOK'
  BY <1>3, <1>7 DEF DashInv, PostsOK, PostOK
<1>9. posted' \in 0..MaxPosts
  BY DashAssumption DEF Send, DashInv, DashShape
<1> QED
  BY <1>6, <1>8, <1>9

LEMMA SendStep ==
  ASSUME DashInv, SubmitTables \/ SyncColumns \/ SubmitDdl \/ StartDdl
  PROVE  DashInv'
<1> USE DEF serverVars, catalogVars, pageVars, dialogVars, sendVars, CatalogShape
<1>1. ASSUME SubmitTables \/ SyncColumns
      PROVE  DashInv'
  <2>1. SelectedTables \in SUBSET (TableIds \cup DdlPairs)
    BY ShownFacts DEF DashInv
  <2>2. posts' \in Seq(Post) /\ PostsOK' /\ posted' \in 0..MaxPosts
    <3>1. PICK k \in {"tables", "columns"} : Send(k, SelectedTables, {}, {}) /\ UNCHANGED ddlJobs
      BY <1>1 DEF SubmitTables, SyncColumns
    <3>2. k \in {"tables", "columns", "ddl", "start"} /\ k # "ddl"
      OBVIOUS
    <3> QED
      BY <2>1, <3>1, <3>2, SendFacts
  <2>3. DashShape'
    BY <1>1, <2>2 DEF SubmitTables, SyncColumns, DashInv, DashShape
  <2> QED
    BY <1>1, <2>2, <2>3, JobsUntouched, DialogUntouched, BarUntouched DEF SubmitTables, SyncColumns, DashInv
<1>2. CASE SubmitDdl
  <2> DEFINE sel == {g \in ddlGroups : g[1] \in ticked}
  <2>1. sel \subseteq DdlPairs /\ \A g \in sel : Loses(g) => g[1] \in byHand
    BY DEF DashInv, DashShape, TickedByHand
  <2>2. posts' \in Seq(Post) /\ PostsOK' /\ posted' \in 0..MaxPosts
    <3>1. Send("ddl", sel, byHand, {}) /\ UNCHANGED ddlJobs
      BY <1>2 DEF SubmitDdl
    <3>2. byHand \in SUBSET Heavy
      BY DEF DashInv, DashShape
    <3>3. sel \in SUBSET (TableIds \cup DdlPairs)
      BY <2>1
    <3> HIDE DEF sel
    <3> QED
      BY <2>1, <3>1, <3>2, <3>3, SendFacts
  <2>3. DashShape'
    BY <1>2, <2>2 DEF SubmitDdl, DashInv, DashShape
  <2> QED
    BY <1>2, <2>2, <2>3, JobsUntouched, DialogUntouched, BarUntouched DEF SubmitDdl, DashInv
<1>3. CASE StartDdl
  <2>1. Drafts \in SUBSET (DOMAIN ddlJobs)
    BY DEF Drafts, DashInv, DashShape
  <2>2. posts' \in Seq(Post) /\ PostsOK' /\ posted' \in 0..MaxPosts
    BY <1>3, <2>1, SendFacts DEF StartDdl
  <2>3. DashShape'
    BY <1>3, <2>2 DEF StartDdl, DashInv, DashShape
  <2> QED
    BY <1>3, <2>2, <2>3, JobsUntouched, DialogUntouched, BarUntouched DEF StartDdl, DashInv
<1> QED
  BY <1>1, <1>2, <1>3

(* The server.                                                              *)
LEMMA AddTablesShape ==
  ASSUME DashInv, NEW rows, AddTables(rows)
  PROVE  migs' \in [Tabs -> 0..MaxMig] /\ live' \in [Tabs -> BOOLEAN]
<1>1. CASE TablesAccepted(rows)
  <2>1. ASSUME NEW t \in Tabs
        PROVE  (IF t \in Names(rows) THEN migs[t] + 1 ELSE migs[t]) \in 0..MaxMig
               /\ (live[t] \/ t \in Names(rows)) \in BOOLEAN
    BY <1>1, DashAssumption DEF AddTables, DashInv, DashShape
  <2> QED
    BY <1>1, <2>1 DEF AddTables
<1>2. CASE ~TablesAccepted(rows)
  BY <1>2 DEF AddTables, DashInv, DashShape
<1> QED
  BY <1>1, <1>2

LEMMA ServeTables ==
  ASSUME DashInv, NEW i \in DOMAIN posts, ServePost(i), posts[i].kind = "tables"
  PROVE  DashInv'
<1> USE DEF serverVars, catalogVars, pageVars, dialogVars, sendVars, CatalogShape
<1>1. posts[i] \in Post /\ posts \in Seq(Post)
  BY LenProperties DEF DashInv, DashShape
<1>2. UNCHANGED <<real, catalogVars, ddlJobs, pageVars, selected, dialogVars, posted, packBusy, loops, finished>>
  BY DEF ServePost
<1>3. migs' \in [Tabs -> 0..MaxMig] /\ live' \in [Tabs -> BOOLEAN]
  BY AddTablesShape DEF ServePost
<1>4. PICK s \in {"ok", "refused"} : posts' = [posts EXCEPT ![i] = [posts[i] EXCEPT !.st = s]]
  BY DEF ServePost
<1>5. posts' \in Seq(Post) /\ PostsOK'
  BY <1>1, <1>2, <1>4, PostUpdates, PostUpdated, PostsFollow DEF DashInv
<1>6. DashShape'
  BY <1>2, <1>3, <1>5 DEF DashInv, DashShape, CatalogShape, catalogVars
<1> QED
  BY <1>2, <1>5, <1>6, JobsUntouched, DialogUntouched, BarUntouched DEF DashInv

LEMMA ServeColumnsStep ==
  ASSUME DashInv, NEW i \in DOMAIN posts, ServePost(i), posts[i].kind = "columns"
  PROVE  DashInv'
<1> USE DEF serverVars, catalogVars, pageVars, dialogVars, sendVars, CatalogShape
<1>1. posts[i] \in Post /\ posts \in Seq(Post)
  BY LenProperties DEF DashInv, DashShape
<1>2. UNCHANGED <<migs, live, real, ddlJobs, pageVars, selected, dialogVars, posted, packBusy, loops, finished>>
  BY DEF ServePost
<1>3. ServeColumns(i)
  BY DEF ServePost
<1>4. \E q : Follows(q, posts[i]) /\ posts' = [posts EXCEPT ![i] = q]
  <2>1. \/ posts' = [posts EXCEPT ![i] = [posts[i] EXCEPT !.st = "refused"]]
        \/ posts' = [posts EXCEPT ![i] = [posts[i] EXCEPT !.todo = {}]]
        \/ posts' = [posts EXCEPT ![i] = [posts[i] EXCEPT !.st = "ok"]]
    BY <1>3 DEF ServeColumns
  <2> QED
    BY <1>1, <2>1, PostUpdates
<1>5. posts' \in Seq(Post) /\ PostsOK'
  BY <1>1, <1>2, <1>4, PostUpdated, PostsFollow DEF DashInv
<1>6. CatalogShape' /\ CatalogInv' /\ DropsOnlyWhatWasAsked'
  <2>1. CASE UNCHANGED catalogVars
    BY <1>2, <2>1, JobsUntouched DEF DashInv, DashShape, CatalogShape, catalogVars
  <2>2. CASE BeginLoad("columns", {})
    BY <1>2, <2>2, LoadBegins
  <2>3. CASE \E l \in reloads : reloads' = reloads \ {l} /\ UNCHANGED <<snap, begun>>
    <3>1. PICK l \in reloads : reloads' = (reloads \ {l}) \cup {} /\ UNCHANGED <<snap, begun>>
      BY <2>3
    <3>2. {} \in SUBSET Reload /\ \A k \in {} : k.no = l.no /\ k.for = l.for /\ (k.st = "read" => k.ddl = real)
      OBVIOUS
    <3>3. UNCHANGED <<real, snap, begun, ddlJobs, finished>>
      BY <1>2, <3>1
    <3>4. reloads' = (reloads \ {l}) \cup {}
      BY <3>1
    <3> HIDE DEF CatalogShape
    <3> QED
      BY <3>2, <3>3, <3>4, LoadGoesOn
  <2> QED
    BY <1>3, <2>1, <2>2, <2>3 DEF ServeColumns
<1>7. DashShape'
  BY <1>2, <1>5, <1>6 DEF DashInv, DashShape
<1> QED
  BY <1>2, <1>5, <1>6, <1>7, DialogUntouched, BarUntouched DEF DashInv

LEMMA ServeStart ==
  ASSUME DashInv, NEW i \in DOMAIN posts, ServePost(i), posts[i].kind = "start"
  PROVE  DashInv'
<1> USE DEF serverVars, catalogVars, pageVars, dialogVars, sendVars, CatalogShape
<1> DEFINE p == posts[i]
           started == {j \in p.jobs : ddlJobs[j].st = "DRAFT"}
           q == [p EXCEPT !.st = "ok", !.jobs = started]
<1>1. p \in Post /\ posts \in Seq(Post) /\ ddlJobs \in Seq(PackJob)
  BY LenProperties DEF DashInv, DashShape
<1>2. UNCHANGED <<migs, live, real, catalogVars, pageVars, selected, dialogVars, posted, packBusy, loops, finished>>
  BY DEF ServePost
<1>3. ddlJobs' = [j \in DOMAIN ddlJobs |-> IF j \in p.jobs /\ ddlJobs[j].st = "DRAFT"
                                             THEN [ddlJobs[j] EXCEPT !.st = "PENDING"] ELSE ddlJobs[j]]
  BY DEF ServePost
<1>4. posts' = [posts EXCEPT ![i].st = "ok", ![i].jobs = started]
  BY DEF ServePost
<1>5. posts' = [posts EXCEPT ![i] = q]
  BY <1>4
<1>6. Follows(q, p)
  <2>1. started \in SUBSET p.jobs
    OBVIOUS
  <2> HIDE DEF p, started
  <2> QED
    BY <1>1, <2>1, PostUpdates
<1>7. ASSUME NEW j \in DOMAIN ddlJobs
      PROVE  /\ ddlJobs'[j] \in PackJob /\ ddlJobs'[j].obj = ddlJobs[j].obj /\ ddlJobs'[j].act = ddlJobs[j].act
             /\ ddlJobs'[j].asked = ddlJobs[j].asked
             /\ \/ ddlJobs'[j].st = ddlJobs[j].st
                \/ ddlJobs[j].st = "DRAFT" /\ ddlJobs'[j].st = "PENDING"
  <2>1. ddlJobs[j] \in PackJob
    BY <1>1, LenProperties
  <2> HIDE DEF p
  <2> QED
    BY <1>3, <2>1 DEF PackJob, Active
<1>8. DOMAIN ddlJobs' = DOMAIN ddlJobs
  BY <1>3
<1>9. ddlJobs' \in Seq(PackJob)
  <2>1. Len(ddlJobs) \in Nat /\ DOMAIN ddlJobs = 1..Len(ddlJobs)
    BY <1>1, LenProperties
  <2>2. ddlJobs' \in [1..Len(ddlJobs) -> PackJob]
    BY <1>3, <1>7, <2>1
  <2> QED
    BY <2>1, <2>2, SeqDef
<1> HIDE DEF q
<1>10. posts' \in Seq(Post) /\ PostsOK'
  BY <1>1, <1>5, <1>6, <1>8, PostUpdated, PostsFollow DEF DashInv
<1>11. DashShape'
  BY <1>2, <1>8, <1>9, <1>10 DEF DashInv, DashShape, CatalogShape, catalogVars
<1>12. CatalogInv' /\ DropsOnlyWhatWasAsked'
  <2>1. \A j \in DOMAIN ddlJobs :
          /\ ddlJobs[j].st \in Terminal => ddlJobs'[j].st = ddlJobs[j].st
          /\ ddlJobs'[j].st \in {"DRAFT", "PENDING"} => ddlJobs[j].st \in {"DRAFT", "PENDING"}
    BY <1>7 DEF Terminal
  <2> QED
    BY <1>2, <1>7, <1>8, <2>1, JobsMove
<1> QED
  BY <1>2, <1>10, <1>11, <1>12, DialogUntouched, BarUntouched DEF DashInv

LEMMA ServeDdl ==
  ASSUME DashInv, NEW i \in DOMAIN posts, ServePost(i), posts[i].kind = "ddl"
  PROVE  DashInv'
<1> USE DEF serverVars, catalogVars, pageVars, dialogVars, sendVars, CatalogShape
<1>1. posts[i] \in Post /\ posts \in Seq(Post) /\ ddlJobs \in Seq(PackJob) /\ PostOK(posts[i])
  BY LenProperties DEF DashInv, DashShape, PostsOK
<1>2. UNCHANGED <<migs, live, real, catalogVars, pageVars, selected, dialogVars, posted, packBusy, loops, finished>>
  BY DEF ServePost
<1>3. JobsSubmitted(i) \/ CommitJobs(i) \/ \E g \in posts[i].todo : SubmitJob(i, g)
  BY DEF ServePost
<1>4. \E q : Follows(q, posts[i]) /\ posts' = [posts EXCEPT ![i] = q]
  <2>1. CASE JobsSubmitted(i)
    <3>1. posts' = [posts EXCEPT ![i] = [posts[i] EXCEPT !.st = "ok"]]
      BY <2>1 DEF JobsSubmitted
    <3> QED
      BY <1>1, <3>1, PostUpdates
  <2>2. CASE CommitJobs(i)
    <3>1. posts' = [posts EXCEPT ![i] = [posts[i] EXCEPT !.made = {}]]
      BY <2>2 DEF CommitJobs
    <3> QED
      BY <1>1, <3>1, PostUpdates
  <2>3. ASSUME NEW g \in posts[i].todo, SubmitJob(i, g)
        PROVE  \E q : Follows(q, posts[i]) /\ posts' = [posts EXCEPT ![i] = q]
    <3> DEFINE m == IF Skipped(g) THEN posts[i].made ELSE posts[i].made \cup {g}
    <3>1. posts' = [posts EXCEPT ![i] = [posts[i] EXCEPT !.todo = posts[i].todo \ {g}, !.made = m]]
      BY <2>3 DEF SubmitJob
    <3>2. g \in posts[i].todo \cap DdlPairs /\ m \in {posts[i].made, posts[i].made \cup {g}}
      BY <1>1 DEF PostOK, Content
    <3> HIDE DEF m
    <3> QED
      BY <1>1, <3>1, <3>2, PostUpdates
  <2> QED
    BY <1>3, <2>1, <2>2, <2>3
<1>5. /\ ddlJobs' \in Seq(PackJob) /\ DOMAIN ddlJobs \subseteq DOMAIN ddlJobs'
      /\ CatalogInv' /\ DropsOnlyWhatWasAsked'
  <2>1. CASE CommitJobs(i)
    <3> DEFINE made == posts[i].made
    <3>1. PICK order \in [1..Cardinality(made) -> made] :
            ddlJobs' = ddlJobs \o [k \in DOMAIN order |-> Job(order[k], posts[i].forced)]
      BY <2>1 DEF CommitJobs
    <3> DEFINE new == [k \in DOMAIN order |-> Job(order[k], posts[i].forced)]
    <3>2. made \subseteq DdlPairs /\ \A g \in made : Loses(g) => g[1] \in posts[i].forced
      BY <1>1 DEF PostOK, Content
    <3> HIDE DEF made
    <3>3. ASSUME NEW k \in DOMAIN order
          PROVE  /\ new[k] \in PackJob /\ new[k].st = "DRAFT"
                 /\ new[k].act = "recreate" /\ new[k].obj \in Heavy => new[k].asked
      <4>1. order[k] \in made /\ order[k] \in DdlPairs
        BY <3>2
      <4>2. new[k] = [obj |-> order[k][1], act |-> order[k][2], st |-> "DRAFT", asked |-> order[k][1] \in posts[i].forced]
        BY DEF Job
      <4> HIDE DEF new
      <4>3. new[k] \in PackJob
        BY <4>1, <4>2 DEF PackJob, DdlPairs, Active
      <4>4. ASSUME new[k].act = "recreate", new[k].obj \in Heavy PROVE new[k].asked
        <5>1. order[k][1] \in posts[i].forced
          BY <3>2, <4>1, <4>2, <4>4 DEF Loses
        <5>2. new[k].asked = (order[k][1] \in posts[i].forced)
          BY <4>2
        <5> QED
          BY <5>1, <5>2
      <4> QED
        BY <4>2, <4>3, <4>4
    <3>4. new \in Seq(PackJob) /\ DOMAIN new = DOMAIN order
      <4>1. IsFiniteSet(made)
        <5>1. IsFiniteSet(Actions)
          <6>1. Actions = ({"create_missing"} \cup {"sync_diff"}) \cup {"recreate"}
            BY DEF Actions
          <6> QED
            BY <6>1, FS_Singleton, FS_Union
        <5>2. IsFiniteSet(DdlPairs)
          BY <5>1, DashAssumption, FS_Product DEF DdlPairs
        <5> QED
          BY <3>2, <5>2, FS_Subset
      <4>2. Cardinality(made) \in Nat
        BY <4>1, FS_CardinalityType
      <4>3. DOMAIN order = 1..Cardinality(made) /\ new \in [1..Cardinality(made) -> PackJob]
        BY <3>3
      <4> HIDE DEF new
      <4> QED
        BY <4>2, <4>3, SeqDef
    <3> HIDE DEF new
    <3>5. ddlJobs' = ddlJobs \o new
      BY <3>1 DEF new
    <3> QED
      BY <1>2, <3>3, <3>4, <3>5, JobsAdded
  <2>2. CASE UNCHANGED ddlJobs
    BY <1>1, <1>2, <2>2, JobsUntouched
  <2> QED
    BY <1>3, <2>1, <2>2 DEF JobsSubmitted, SubmitJob
<1>6. posts' \in Seq(Post) /\ PostsOK'
  BY <1>1, <1>4, <1>5, PostUpdated, PostsFollow DEF DashInv
<1>7. DashShape'
  BY <1>2, <1>5, <1>6 DEF DashInv, DashShape, CatalogShape, catalogVars
<1> QED
  BY <1>2, <1>5, <1>6, <1>7, DialogUntouched, BarUntouched DEF DashInv

LEMMA AnswersStep ==
  ASSUME DashInv, NEW i \in DOMAIN posts, ServePost(i) \/ PostBreaks(i) \/ PostAnswered(i)
  PROVE  DashInv'
<1> USE DEF serverVars, catalogVars, pageVars, dialogVars, sendVars, CatalogShape
<1>1. posts[i] \in Post /\ posts \in Seq(Post) /\ PostOK(posts[i])
  BY LenProperties DEF DashInv, DashShape, PostsOK
<1>2. CASE ServePost(i)
  <2>1. posts[i].kind \in {"tables", "columns", "ddl", "start"}
    BY <1>1 DEF Post
  <2> QED
    BY <1>2, <2>1, ServeTables, ServeColumnsStep, ServeStart, ServeDdl
<1>3. CASE PostBreaks(i)
  <2>1. posts' = [posts EXCEPT ![i] = [posts[i] EXCEPT !.st = "refused"]]
    BY <1>3 DEF PostBreaks
  <2>2. Follows([posts[i] EXCEPT !.st = "refused"], posts[i])
    BY <1>1, PostUpdates
  <2>3. posts' \in Seq(Post) /\ PostsOK'
    BY <1>1, <1>3, <2>1, <2>2, PostUpdated, PostsFollow DEF PostBreaks, DashInv
  <2>4. DashShape'
    BY <1>3, <2>3 DEF PostBreaks, DashInv, DashShape
  <2> QED
    BY <1>3, <2>3, <2>4, JobsUntouched, DialogUntouched, BarUntouched DEF PostBreaks, DashInv
<1>4. CASE PostAnswered(i)
  <2>1. posts' \in Seq(Post) /\ PostsOK'
    BY <1>1, <1>4, PostAnsweredFollows, PostsFollow DEF PostAnswered, DashInv
  <2>2. /\ TickedByHand' /\ packMode' \in {"none", "historical", "cdc", "ddl"} /\ ddlGroups' \subseteq DdlPairs
        /\ ticked' \subseteq Ddl /\ byHand' \subseteq Heavy
    <3>1. UNCHANGED dialogVars \/ (packMode' = "none" /\ ddlGroups' = {} /\ ticked' = {} /\ byHand' = {})
      BY <1>4 DEF PostAnswered
    <3> QED
      BY <3>1, DialogUntouched, DialogClosed
  <2>3. loops' \subseteq loops \cup {posts[i].jobs} /\ posts[i].jobs \subseteq DOMAIN ddlJobs
    BY <1>1, <1>4 DEF PostAnswered, PostOK
  <2>4. /\ selected' \in {selected, {}} /\ packBusy' \in BOOLEAN
        /\ UNCHANGED <<serverVars, pageVars, posted, finished>>
    BY <1>4 DEF PostAnswered, DashInv, DashShape
  <2>5. DashShape'
    <3>1. UNCHANGED <<migs, live, real, catalogVars, ddlJobs, nav, group, filter, shown, jobsShown, posted, finished>>
      BY <2>4
    <3>2. \A L \in loops' : L \subseteq DOMAIN ddlJobs
      BY <2>3 DEF DashInv, DashShape
    <3> QED
      BY <2>1, <2>2, <2>4, <3>1, <3>2 DEF DashInv, DashShape
  <2> QED
    BY <2>1, <2>2, <2>4, <2>5, JobsUntouched, BarUntouched DEF DashInv
<1> QED
  BY <1>2, <1>3, <1>4

(* The workers, the loops that wait for them, and others.                   *)
LEMMA WorkersStep ==
  ASSUME DashInv, NEW j \in DOMAIN ddlJobs, WorkerSteps(j)
  PROVE  DashInv'
<1> USE DEF serverVars, catalogVars, pageVars, dialogVars, sendVars, CatalogShape
<1>1. ddlJobs[j] \in PackJob /\ ddlJobs \in Seq(PackJob)
  BY LenProperties DEF DashInv, DashShape
<1>2. UNCHANGED <<migs, live, catalogVars, pageVars, selected, dialogVars, sendVars>>
  BY DEF WorkerSteps
<1>3. PICK to \in {"CLAIMED", "DONE", "FAILED"} :
        /\ ddlJobs[j].st \in {"PENDING", "CLAIMED"} /\ ddlJobs' = [ddlJobs EXCEPT ![j].st = to]
        /\ \/ UNCHANGED real
           \/ ddlJobs[j].st = "CLAIMED" /\ \E st \in TargetStates : real' = [real EXCEPT ![ddlJobs[j].obj] = st]
  <2>1. "missing" \in TargetStates
    BY DEF TargetStates
  <2> QED
    BY <2>1 DEF WorkerSteps, JobMoves
<1> DEFINE done == [ddlJobs[j] EXCEPT !.st = to]
<1>4. /\ done \in PackJob /\ done.obj = ddlJobs[j].obj /\ done.act = ddlJobs[j].act
      /\ done.asked = ddlJobs[j].asked /\ done.st = to
  BY <1>1 DEF PackJob, Active, Terminal
<1>5. ddlJobs' = [ddlJobs EXCEPT ![j] = done]
  BY <1>3
<1> HIDE DEF done
<1>6. ddlJobs' \in Seq(PackJob) /\ DOMAIN ddlJobs' = DOMAIN ddlJobs
      /\ \A k \in DOMAIN ddlJobs : ddlJobs'[k] = IF k = j THEN done ELSE ddlJobs[k]
  BY <1>1, <1>4, <1>5, ExceptSeq
<1>7. real' \in [Ddl -> TargetStates]
  BY <1>1, <1>3 DEF DashInv, DashShape, PackJob
<1>8. \A d \in Ddl : real'[d] # real[d] =>
        \E k \in DOMAIN ddlJobs : ddlJobs[k].obj = d /\ ddlJobs[k].st = "CLAIMED"
  <2> SUFFICES ASSUME NEW d \in Ddl, real'[d] # real[d] PROVE ddlJobs[j].obj = d /\ ddlJobs[j].st = "CLAIMED"
    OBVIOUS
  <2>1. real \in [Ddl -> TargetStates]
    BY DEF DashInv, DashShape
  <2> QED
    BY <1>3, <2>1
<1>9. \A k \in DOMAIN ddlJobs :
           /\ ddlJobs'[k].obj = ddlJobs[k].obj /\ ddlJobs'[k].act = ddlJobs[k].act
           /\ ddlJobs'[k].asked = ddlJobs[k].asked
           /\ ddlJobs[k].st \in Terminal => ddlJobs'[k].st = ddlJobs[k].st
           /\ ddlJobs'[k].st \in {"DRAFT", "PENDING"} => ddlJobs[k].st \in {"DRAFT", "PENDING"}
  BY <1>3, <1>4, <1>6 DEF Terminal
<1>10. CatalogInv' /\ DropsOnlyWhatWasAsked'
  BY <1>2, <1>6, <1>8, <1>9, JobsMove
<1>11. PostsOK'
  BY <1>2, <1>6 DEF DashInv, PostsOK, PostOK
<1>12. DashShape'
  BY <1>2, <1>6, <1>7 DEF DashInv, DashShape
<1> QED
  BY <1>2, <1>10, <1>11, <1>12, DialogUntouched, BarUntouched DEF DashInv

LEMMA LoopsStep ==
  ASSUME DashInv, NEW L \in loops, PollDdlJobs(L) \/ PollTimesOut(L)
  PROVE  DashInv'
<1> USE DEF serverVars, catalogVars, pageVars, dialogVars, sendVars, CatalogShape
<1>1. CASE PollDdlJobs(L)
  <2>1. L \in SUBSET (DOMAIN ddlJobs) /\ loops' \subseteq loops
    BY <1>1 DEF PollDdlJobs, DashInv, DashShape
  <2>2. CatalogShape' /\ CatalogInv' /\ DropsOnlyWhatWasAsked'
    <3>1. CASE BeginLoad("loop", L)
      BY <1>1, <2>1, <3>1, LoadBegins DEF PollDdlJobs
    <3>2. CASE UNCHANGED <<snap, reloads, begun>>
      BY <1>1, <3>2, JobsUntouched DEF PollDdlJobs, DashInv, DashShape
    <3> QED
      BY <1>1, <3>1, <3>2 DEF PollDdlJobs
  <2>3. DashShape'
    BY <1>1, <2>1, <2>2 DEF PollDdlJobs, DashInv, DashShape
  <2> QED
    BY <1>1, <2>2, <2>3, RequestsUntouched, DialogUntouched, BarUntouched DEF PollDdlJobs, DashInv
<1>2. CASE PollTimesOut(L)
  <2>1. DashShape'
    BY <1>2 DEF PollTimesOut, DashInv, DashShape
  <2> QED
    BY <1>2, <2>1, JobsUntouched, RequestsUntouched, DialogUntouched, BarUntouched DEF PollTimesOut, DashInv
<1> QED
  BY <1>1, <1>2

LEMMA LoadsStep ==
  ASSUME DashInv, OtherLoads \/ \E l \in reloads : CatalogReads(l) \/ CatalogCommits(l) \/ CatalogFails(l)
  PROVE  DashInv'
<1> USE DEF serverVars, catalogVars, pageVars, dialogVars, sendVars
<1>1. UNCHANGED <<migs, live, real, ddlJobs, pageVars, selected, dialogVars, posts, posted, packBusy, loops>>
  BY DEF OtherLoads, CatalogReads, CatalogCommits, CatalogFails
<1>2. CatalogShape' /\ finished' \subseteq DOMAIN ddlJobs' /\ CatalogInv' /\ DropsOnlyWhatWasAsked'
  <2>1. CASE OtherLoads
    BY <1>1, <2>1, LoadBegins DEF OtherLoads, DashInv, DashShape
  <2>2. ASSUME NEW l \in reloads, CatalogReads(l)
        PROVE  CatalogShape' /\ finished' \subseteq DOMAIN ddlJobs' /\ CatalogInv' /\ DropsOnlyWhatWasAsked'
    <3> DEFINE k == [l EXCEPT !.st = "read", !.ddl = real]
    <3>1. l \in Reload /\ real \in [Ddl -> TargetStates]
      BY DEF DashInv, DashShape, CatalogShape
    <3>2. k \in Reload /\ k.no = l.no /\ k.for = l.for /\ k.ddl = real
      BY <3>1 DEF Reload
    <3>3. reloads' = (reloads \ {l}) \cup {k}
      BY <2>2 DEF CatalogReads
    <3> HIDE DEF k
    <3>4. {k} \in SUBSET Reload /\ \A m \in {k} : m.no = l.no /\ m.for = l.for /\ (m.st = "read" => m.ddl = real)
      BY <3>2
    <3>5. UNCHANGED <<real, snap, begun, ddlJobs, finished>>
      BY <2>2 DEF CatalogReads
    <3>6. CatalogShape' /\ CatalogInv' /\ DropsOnlyWhatWasAsked'
      BY <3>3, <3>4, <3>5, LoadGoesOn
    <3> QED
      BY <3>5, <3>6 DEF DashInv, DashShape
  <2>3. ASSUME NEW l \in reloads, CatalogCommits(l)
        PROVE  CatalogShape' /\ finished' \subseteq DOMAIN ddlJobs' /\ CatalogInv' /\ DropsOnlyWhatWasAsked'
    BY <1>1, <2>3, LoadStored
  <2>4. ASSUME NEW l \in reloads, CatalogFails(l)
        PROVE  CatalogShape' /\ finished' \subseteq DOMAIN ddlJobs' /\ CatalogInv' /\ DropsOnlyWhatWasAsked'
    <3> DEFINE more == {[k EXCEPT !.st = "failed"] : k \in {m \in {l} : m.by = "columns"}}
    <3>1. l \in Reload
      BY DEF DashInv, DashShape, CatalogShape
    <3>2. more \in SUBSET Reload /\ \A k \in more : k.no = l.no /\ k.for = l.for /\ k.st = "failed"
      BY <3>1 DEF Reload
    <3>3. reloads' = (reloads \ {l}) \cup more
      BY <2>4 DEF CatalogFails, Concluded
    <3> HIDE DEF more
    <3> QED
      BY <1>1, <2>4, <3>2, <3>3, LoadGoesOn DEF CatalogFails, DashInv, DashShape
  <2> QED
    BY <2>1, <2>2, <2>3, <2>4
<1>3. DashShape'
  BY <1>1, <1>2 DEF DashInv, DashShape
<1> QED
  BY <1>1, <1>2, <1>3, RequestsUntouched, DialogUntouched, BarUntouched DEF DashInv

LEMMA OthersStep ==
  ASSUME DashInv, \/ \E t \in Tabs : OtherAddsTable(t) \/ ItemEnds(t)
                  \/ \E d \in Ddl : OtherAddsDdl(d)
  PROVE  DashInv'
<1> USE DEF serverVars, catalogVars, pageVars, dialogVars, sendVars, CatalogShape
<1>1. ASSUME NEW t \in Tabs, OtherAddsTable(t) \/ ItemEnds(t)
      PROVE  DashInv'
  <2>1. migs' \in [Tabs -> 0..MaxMig] /\ live' \in [Tabs -> BOOLEAN]
    <3>1. migs \in [Tabs -> 0..MaxMig] /\ live \in [Tabs -> BOOLEAN] /\ MaxMig \in Nat
      BY DashAssumption DEF DashInv, DashShape
    <3>2. CASE OtherAddsTable(t)
      BY <3>1, <3>2 DEF OtherAddsTable
    <3>3. CASE ItemEnds(t)
      BY <3>1, <3>3 DEF ItemEnds
    <3> QED
      BY <1>1, <3>2, <3>3
  <2>2. DashShape'
    BY <1>1, <2>1 DEF OtherAddsTable, ItemEnds, DashInv, DashShape
  <2> QED
    BY <1>1, <2>2, JobsUntouched, RequestsUntouched, DialogUntouched, BarUntouched
       DEF OtherAddsTable, ItemEnds, DashInv
<1>2. ASSUME NEW d \in Ddl, OtherAddsDdl(d)
      PROVE  DashInv'
  <2>1. PICK act \in Actions : ddlJobs' = Append(ddlJobs, Job(<<d, act>>, {d}))
    BY <1>2 DEF OtherAddsDdl
  <2> DEFINE one == Job(<<d, act>>, {d})
             new == <<one>>
  <2>2. one \in PackJob /\ one.st = "DRAFT" /\ one.asked
    BY DEF Job, PackJob, Active
  <2>3. ddlJobs \in Seq(PackJob) /\ ddlJobs' = Append(ddlJobs, one)
    BY <2>1 DEF DashInv, DashShape
  <2> HIDE DEF one
  <2>4. ddlJobs' = ddlJobs \o new /\ new \in Seq(PackJob) /\ DOMAIN new = {1} /\ new[1] = one
    BY <2>2, <2>3, AppendIsConcat
  <2> HIDE DEF new
  <2>5. /\ ddlJobs' \in Seq(PackJob) /\ DOMAIN ddlJobs \subseteq DOMAIN ddlJobs'
        /\ CatalogInv' /\ DropsOnlyWhatWasAsked'
    <3>1. UNCHANGED <<real, catalogVars, finished>>
      BY <1>2 DEF OtherAddsDdl
    <3>2. \A k \in DOMAIN new : new[k] = one
      BY <2>4
    <3> QED
      BY <2>2, <2>4, <3>1, <3>2, JobsAdded
  <2>6. PostsOK'
    BY <1>2, <2>5 DEF OtherAddsDdl, DashInv, PostsOK, PostOK
  <2>7. DashShape'
    BY <1>2, <2>5 DEF OtherAddsDdl, DashInv, DashShape
  <2> QED
    BY <1>2, <2>5, <2>6, <2>7, DialogUntouched, BarUntouched DEF OtherAddsDdl, DashInv
<1> QED
  BY <1>1, <1>2

-----------------------------------------------------------------------------
LEMMA DashInitInv ==
  ASSUME DashInit
  PROVE  DashInv
<1>1. NoObjects \in [rows : SUBSET TableIds, ddl : {NoObjects.ddl} \cup [Ddl -> TargetStates]]
  BY DEF NoObjects
<1>2. /\ migs \in [Tabs -> 0..MaxMig] /\ live \in [Tabs -> BOOLEAN] /\ 0 \in 0..MaxPosts
      /\ real \in [Ddl -> TargetStates] /\ CatalogShape
  BY DashAssumption DEF DashInit, TargetStates, CatalogShape
<1>3. DashShape
  <2>1. ddlJobs \in Seq(PackJob) /\ posts \in Seq(Post) /\ DOMAIN jobsShown \subseteq DOMAIN ddlJobs
    BY EmptySeq DEF DashInit
  <2> QED
    BY <1>1, <1>2, <2>1 DEF DashInit, DashShape
<1>4. TickedByHand /\ PostsOK /\ CatalogInv /\ DropsOnlyWhatWasAsked
  BY DEF DashInit, TickedByHand, PostsOK, CatalogInv, CoveredEnded, Covered, LoadsKnow, Knows, DropsOnlyWhatWasAsked
<1>5. BarCountsWhatIsSent
  BY DEF DashInit, BarCountsWhatIsSent, SelectedTables
<1> QED
  BY <1>3, <1>4, <1>5 DEF DashInv

LEMMA DashStepInv ==
  ASSUME DashInv, [DashNext]_dashVars
  PROVE  DashInv'
<1>1. CASE PageNext
  BY <1>1, PollsStep, SelectionStep, DialogStep DEF PageNext
<1>2. CASE RequestsNext
  BY <1>2, AnswersStep, LoadsStep DEF RequestsNext
<1>3. CASE TablesNext
  BY <1>3, DialogStep, SendStep, OthersStep DEF TablesNext
<1>4. CASE DdlNext
  BY <1>4, PollsStep, DialogStep, SendStep, OthersStep DEF DdlNext
<1>5. CASE JobsNext
  BY <1>5, SendStep, LoadsStep, LoopsStep, WorkersStep DEF JobsNext
<1>6. CASE UNCHANGED dashVars
  <2>1. DashShape'
    BY <1>6 DEF dashVars, serverVars, catalogVars, pageVars, dialogVars, sendVars, DashInv, DashShape, CatalogShape
  <2> QED
    BY <1>6, <2>1, JobsUntouched, RequestsUntouched, DialogUntouched, BarUntouched
       DEF dashVars, serverVars, pageVars, sendVars, DashInv
<1> QED
  BY <1>1, <1>2, <1>3, <1>4, <1>5, <1>6 DEF DashNext

(* DashInv is an inductive invariant of the dashboard, of its selection,    *)
(* its dialog, the requests of its bar and the DDL jobs it waits for.       *)
THEOREM DashAlways == DashSpec => []DashInv
<1>1. DashInit => DashInv
  BY DashInitInv
<1>2. DashInv /\ [DashNext]_dashVars => DashInv'
  BY DashStepInv
<1> QED
  BY <1>1, <1>2, PTL DEF DashSpec

(* Dashboard.tsx: what the page selects, asks and shows, and the jobs the   *)
(* server has for it, keep the types the code gives them.                   *)
THEOREM DashTypeCorrect == DashSpec => []DashTypeOK
<1>1. DashInv => DashTypeOK
  <2> SUFFICES ASSUME DashInv PROVE DashTypeOK
    OBVIOUS
  <2>1. \A j \in DOMAIN ddlJobs : ddlJobs[j].st \in Active \cup Terminal /\ ddlJobs[j].act \in Actions
    <3>1. \A j \in DOMAIN ddlJobs : ddlJobs[j] \in PackJob
      BY LenProperties DEF DashInv, DashShape
    <3> QED
      BY <3>1 DEF PackJob
  <2> QED
    BY <2>1 DEF DashInv, DashShape, CatalogShape, DashTypeOK
<1> QED
  BY <1>1, DashAlways, PTL

(* SyncDdlDialog.tsx, ddl_apply_jobs.py: in whatever order the dialog, the  *)
(* polls, the requests and the workers come, a job of this page's pack      *)
(* drops an object that holds data only if its box was ticked by hand.      *)
THEOREM DropsOnlyWhatWasAskedHolds == DashSpec => []DropsOnlyWhatWasAsked
<1>1. DashInv => DropsOnlyWhatWasAsked
  BY DEF DashInv
<1> QED
  BY <1>1, DashAlways, PTL

(* Dashboard.tsx, catalog.py: an object touched only by jobs that a loop    *)
(* has seen to their end and reloaded the catalogue for is in the latest    *)
(* snapshot as it is in the target, in whatever order the loads of the      *)
(* catalogue are begun, read, stored and given up.                          *)
THEOREM RefreshedWhenFinishedHolds == DashSpec => []RefreshedWhenFinished
<1>1. DashInv => RefreshedWhenFinished
  <2> SUFFICES ASSUME DashInv, NEW d \in Ddl, StartedOn(d) \subseteq finished
      PROVE  snap.ddl[d] = real[d]
    BY DEF RefreshedWhenFinished
  <2>1. finished \subseteq Covered(snap.no)
    BY DEF Covered
  <2> QED
    BY <2>1 DEF DashInv, CatalogInv, LoadsKnow, Knows
<1> QED
  BY <1>1, DashAlways, PTL

(* Dashboard.tsx: the selection bar counts exactly the tables that its      *)
(* dialogs would send, whatever the polls took away or brought back.        *)
THEOREM BarCountsWhatIsSentHolds == DashSpec => []BarCountsWhatIsSent
<1>1. DashInv => BarCountsWhatIsSent
  BY DEF DashInv
<1> QED
  BY <1>1, DashAlways, PTL

-----------------------------------------------------------------------------
(***************************************************************************)
(* The drawer of an object (ObjectDrawer).                                 *)
(***************************************************************************)
OracleTypes == {OracleType(ty) : ty \in ObjectType}
Aspects == UNION {Compared(ty) \cup Uncompared(ty) : ty \in ObjectType}
ColumnGaps == {"cols_missing", "cols_extra"}

CatalogObject ==
  [type : DrawerTypes, at : SUBSET BothSides, invalid : SUBSET BothSides, differs : SUBSET Aspects]
ObjectDetail == [kind : {"ddl", "migration"}, type : OracleTypes, match : {"MATCH", "DIFF", "MISSING", "EXTRA"},
                 invalid : SUBSET BothSides, differs : SUBSET Aspects]
Offers == [act : {"create_missing", "sync_diff", "recreate"}, type : ObjectType \cup OracleTypes, warned : BOOLEAN]
DdlJob == [act : {"create_missing", "sync_diff", "recreate"}, type : ObjectType \cup OracleTypes, warned : BOOLEAN,
           st : {"DRAFT", "DONE"}]

DrawerShape ==
  /\ object \in CatalogObject /\ snapshot \in CatalogObject
  /\ object.invalid \subseteq object.at /\ snapshot.invalid \subseteq snapshot.at
  /\ snapshot.type = object.type
  /\ detailAsk \in {NoObjectDetail, Asked} \cup ObjectDetail /\ objDetail \in {NoObjectDetail} \cup ObjectDetail
  /\ applyBusy \in BOOLEAN /\ syncing \in {"none", "columns", "snapshot"} /\ orphan \in {"none", "columns", "snapshot"}
  /\ packed \subseteq DdlJob

\* An answer is of the type of the object the drawer was opened for, and its verdict is that of its aspects.
OfThisObject(d) ==
  d \in ObjectDetail =>
    /\ d.type = OracleType(object.type)
    /\ d.match = "DIFF" => d.differs \cap Compared(object.type) # {}
DetailsOfObject == OfThisObject(detailAsk) /\ OfThisObject(objDetail)

\* How far the truth about the columns has come, on its way from the sync to the drawer.
SyncReaches ==
  synced =>
    /\ syncing # "columns" /\ object.differs \cap ColumnGaps = {}
    /\ syncing = "none" =>
         /\ snapshot.differs \cap ColumnGaps = {}
         /\ detailAsk \in ObjectDetail => detailAsk.differs \cap ColumnGaps = {}
         /\ detailAsk = NoObjectDetail /\ objDetail # NoObjectDetail => objDetail.differs \cap ColumnGaps = {}

DrawerInv == DrawerShape /\ DetailsOfObject /\ DataLossConfirmed /\ SyncReaches

LEMMA TypesFacts ==
  ASSUME NEW ty \in ObjectType
  PROVE  /\ OracleType(ty) \in OracleTypes
         /\ Compared(ty) \subseteq Aspects
         /\ OracleType(ty) # "MVIEW" /\ OracleType(OracleType(ty)) = OracleType(ty)
         /\ OracleType(ty) \in {"TABLE", "MATERIALIZED VIEW"} <=> ty \in {"TABLE", "MVIEW"}
<1>1. OracleType(ty) \in OracleTypes /\ Compared(ty) \subseteq Aspects
  BY DEF OracleTypes, Aspects
<1>2. OracleType(ty) # "MVIEW" /\ OracleType(OracleType(ty)) = OracleType(ty)
  BY DEF ObjectType, OracleType
<1>3. OracleType(ty) \in {"TABLE", "MATERIALIZED VIEW"} <=> ty \in {"TABLE", "MVIEW"}
  BY DEF ObjectType, OracleType
<1> QED
  BY <1>1, <1>2, <1>3

(* What DiffSections.tsx draws of a type is no less than what ddl_compare.py compares.                     *)
LEMMA DrawsWhatIsCompared ==
  ASSUME NEW ty \in ObjectType, NEW ds
  PROVE  ds \cap Compared(ty) \subseteq Marked(OracleType(ty), ds)
<1>1. CASE ty \in {"TABLE", "VIEW", "MVIEW", "PACKAGE", "PROCEDURE", "FUNCTION", "TYPE"}
  BY <1>1 DEF Compared, Marked, OracleType, TableDiff, SqlTextDiff, PackageDiff, CodeDiff, TypeDiff
<1>2. CASE ty \in {"TRIGGER", "INDEX", "JOB"}
  BY <1>2 DEF Compared, Marked, OracleType, TriggerDiff, IndexDiff, JobDiff, FieldDiff
<1>3. CASE ty \in {"SEQUENCE", "SYNONYM", "GRANT", "DBLINK"}
  BY <1>3 DEF Compared, Marked, OracleType, FieldDiff
<1> QED
  BY <1>1, <1>2, <1>3 DEF ObjectType

(* What a drawer offers asks before data is lost, by whichever names it knows the type.                    *)
Asks(offer) ==
  /\ offer.act = "recreate" /\ OracleType(offer.type) \in {"TABLE", "MATERIALIZED VIEW"} => offer.warned

LEMMA ByMatchAsks ==
  ASSUME NEW ty \in ObjectType \cup OracleTypes, NEW loses, NEW match,
         OracleType(ty) \in {"TABLE", "MATERIALIZED VIEW"} => ty \in loses
  PROVE  /\ Offer("recreate", ty, loses) \in Offers /\ Asks(Offer("recreate", ty, loses))
         /\ ByMatch(match, ty, loses) \in Offers \cup {NoOffer}
         /\ ByMatch(match, ty, loses) # NoOffer => Asks(ByMatch(match, ty, loses))
<1>1. ASSUME NEW act \in {"create_missing", "sync_diff", "recreate"}
      PROVE  Offer(act, ty, loses) \in Offers /\ Asks(Offer(act, ty, loses))
  BY <1>1 DEF Offer, Offers, Asks
<1>2. ByMatch(match, ty, loses) \in {NoOffer} \cup {Offer(act, ty, loses) : act \in {"create_missing", "sync_diff", "recreate"}}
  BY DEF ByMatch
<1> QED
  BY <1>1, <1>2

LEMMA ApplyOfferAsks ==
  ASSUME DrawerShape, DetailsOfObject, ApplyOffer # NoOffer
  PROVE  ApplyOffer \in Offers /\ Asks(ApplyOffer)
<1>1. object.type \in ObjectType
  BY DrawerAssumption DEF DrawerShape, CatalogObject
<1>2. CASE objDetail # NoObjectDetail
  <2>1. objDetail.type = OracleType(object.type) /\ objDetail.type \in OracleTypes /\ ApplyOffer = DetailOffer(objDetail)
    BY <1>2 DEF ApplyOffer, DrawerShape, DetailsOfObject, OfThisObject, ObjectDetail
  <2>2. OracleType(objDetail.type) \in {"TABLE", "MATERIALIZED VIEW"} => objDetail.type \in {"TABLE", "MATERIALIZED VIEW"}
    BY <1>1, <2>1, TypesFacts
  <2> QED
    BY <2>1, <2>2, ByMatchAsks DEF DetailOffer
<1>3. CASE objDetail = NoObjectDetail
  <2>1. ApplyOffer = NoteOffer(openedNote)
    BY <1>3 DEF ApplyOffer
  <2>2. OracleType(object.type) \in {"TABLE", "MATERIALIZED VIEW"} => object.type \in {"TABLE", "MVIEW"}
    BY <1>1, TypesFacts
  <2> QED
    BY <1>1, <2>1, <2>2, ByMatchAsks DEF NoteOffer
<1> QED
  BY <1>2, <1>3

(* The detail the server answers with is of the snapshot.                                                  *)
LEMMA DetailNowFacts ==
  ASSUME DrawerShape
  PROVE  DetailNow \in ObjectDetail /\ OfThisObject(DetailNow) /\ DetailNow.differs = snapshot.differs
<1>1. snapshot.type \in ObjectType /\ snapshot.type = object.type
  BY DrawerAssumption DEF DrawerShape, CatalogObject
<1>2. MatchStatus(snapshot) \in {"MATCH", "DIFF", "MISSING", "EXTRA"}
  BY DEF MatchStatus
<1>3. MatchStatus(snapshot) = "DIFF" => snapshot.differs \cap Compared(object.type) # {}
  BY <1>1 DEF MatchStatus
<1>4. OracleType(snapshot.type) \in OracleTypes
  BY <1>1, TypesFacts
<1>5. DetailNow \in ObjectDetail
  BY <1>2, <1>4 DEF DetailNow, ObjectDetail, DrawerShape, CatalogObject
<1> QED
  BY <1>1, <1>3, <1>5 DEF DetailNow, OfThisObject

(* A sync that levels the columns leaves the rest of the object as it is.                                  *)
LEMMA LevelledFacts ==
  ASSUME DrawerShape, NEW kept \in SUBSET (object.differs \cap ColumnGaps)
  PROVE  /\ ColumnsLevelled(kept) \in CatalogObject
         /\ ColumnsLevelled(kept).type = object.type /\ ColumnsLevelled(kept).at = object.at
         /\ ColumnsLevelled(kept).invalid = object.invalid
         /\ ColumnsLevelled(kept).differs \cap ColumnGaps = kept
<1>1. ColumnsLevelled(kept) = [type |-> object.type, at |-> object.at, invalid |-> object.invalid,
                               differs |-> (object.differs \ ColumnGaps) \cup kept]
  BY DEF ColumnsLevelled, DrawerShape, CatalogObject, ColumnGaps
<1>2. (object.differs \ ColumnGaps) \cup kept \in SUBSET Aspects
  BY DEF DrawerShape, CatalogObject
<1> QED
  BY <1>1, <1>2 DEF DrawerShape, CatalogObject

LEMMA DrawerInitInv ==
  ASSUME DrawerInit
  PROVE  DrawerInv
<1>1. PICK ty \in DrawerTypes : object \in {o \in ObjectsOf(ty) : o.invalid \subseteq o.at}
  BY DEF DrawerInit
<1>2. ty \in ObjectType
  BY DrawerAssumption
<1>3. Compared(ty) \cup Uncompared(ty) \subseteq Aspects
  BY <1>2 DEF Aspects
<1>4. ASSUME NEW o \in ObjectsOf(ty)
      PROVE  o \in CatalogObject
  <2>1. CASE o \in {[type |-> ty, at |-> BothSides, invalid |-> i, differs |-> d] :
                      i \in SUBSET BothSides, d \in SUBSET (Compared(ty) \cup Uncompared(ty))}
    BY <1>3, <2>1 DEF CatalogObject
  <2>2. CASE o \in {[type |-> ty, at |-> {s}, invalid |-> i, differs |-> {}] : s \in BothSides, i \in SUBSET BothSides}
    BY <2>2 DEF CatalogObject
  <2> QED
    BY <2>1, <2>2 DEF ObjectsOf
<1>5. DrawerShape
  BY <1>1, <1>4 DEF DrawerInit, DrawerShape
<1> QED
  BY <1>5 DEF DrawerInit, DrawerInv, DetailsOfObject, OfThisObject, ObjectDetail, NoObjectDetail, DataLossConfirmed, SyncReaches

(* Answers on their way are told from none and from a question.                                            *)
LEMMA DetailKinds == NoObjectDetail \notin ObjectDetail /\ Asked \notin ObjectDetail /\ Asked # NoObjectDetail
  BY DEF ObjectDetail, NoObjectDetail, Asked

(* A change of the target or of the snapshot leaves what the drawer holds true of the object.              *)
LEMMA CatalogChanges ==
  ASSUME DrawerInv,
         object' \in CatalogObject, object'.invalid \subseteq object'.at, object'.type = object.type,
         snapshot' \in CatalogObject, snapshot'.invalid \subseteq snapshot'.at, snapshot'.type = object.type,
         synced' => /\ synced /\ object'.differs \cap ColumnGaps = {}
                    /\ syncing = "none" => snapshot'.differs \cap ColumnGaps = {},
         UNCHANGED <<drawerPage, applyBusy, syncing>>, orphan' \in {"none", "columns", "snapshot"},
         packed' \subseteq DdlJob, DataLossConfirmed'
  PROVE  DrawerInv'
<1>1. DrawerShape'
  BY DEF DrawerInv, DrawerShape, drawerPage
<1>2. DetailsOfObject'
  BY DEF DrawerInv, DetailsOfObject, OfThisObject, drawerPage
<1>3. SyncReaches'
  BY DEF DrawerInv, SyncReaches, drawerPage
<1> QED
  BY <1>1, <1>2, <1>3 DEF DrawerInv

(* What is asked for, answered, and shown changes nothing in the catalogue.                                *)
LEMMA PageChanges ==
  ASSUME DrawerInv, UNCHANGED <<object, snapshot>>,
         detailAsk' \in {NoObjectDetail, Asked} \cup ObjectDetail, objDetail' \in {NoObjectDetail} \cup ObjectDetail,
         OfThisObject(detailAsk)', OfThisObject(objDetail)',
         applyBusy' \in BOOLEAN, syncing' \in {"none", "columns", "snapshot"},
         orphan' \in {"none", "columns", "snapshot"}, packed' \subseteq DdlJob, DataLossConfirmed', SyncReaches'
  PROVE  DrawerInv'
  BY DEF DrawerInv, DrawerShape, DetailsOfObject

LEMMA DrawerStepInv ==
  ASSUME DrawerInv, [DrawerNext]_drawerVars
  PROVE  DrawerInv'
<1> USE DEF DrawerInv
<1>0. OfThisObject(NoObjectDetail)' /\ OfThisObject(Asked)'
  BY DetailKinds DEF OfThisObject
<1>1. CASE Open
  <2>1. SyncReaches'
    BY <1>1, DetailKinds DEF Open, SyncReaches
  <2> QED
    BY <1>0, <1>1, <2>1, DetailKinds, PageChanges DEF Open, DrawerShape, DataLossConfirmed, OfThisObject
<1>2. CASE Close
  <2>1. SyncReaches'
    BY <1>2 DEF Close, SyncReaches
  <2> QED
    BY <1>0, <1>2, <2>1, DetailKinds, PageChanges DEF Close, DrawerShape, DataLossConfirmed, OfThisObject
<1>3. CASE ServeObjectDetail
  <2>1. detailAsk' \in ObjectDetail /\ OfThisObject(detailAsk)' /\ detailAsk'.differs = snapshot.differs
    BY <1>3, DetailNowFacts DEF ServeObjectDetail, OfThisObject
  <2>2. SyncReaches'
    BY <1>3, <2>1, DetailKinds DEF ServeObjectDetail, SyncReaches
  <2> QED
    BY <1>3, <2>1, <2>2, PageChanges DEF ServeObjectDetail, DrawerShape, DataLossConfirmed, DetailsOfObject, OfThisObject
<1>4. CASE LandObjectDetail
  <2>1. detailAsk \in ObjectDetail
    BY <1>4 DEF LandObjectDetail, DrawerShape
  <2>2. SyncReaches'
    BY <1>4, <2>1, DetailKinds DEF LandObjectDetail, SyncReaches
  <2> QED
    BY <1>0, <1>4, <2>1, <2>2, PageChanges DEF LandObjectDetail, DrawerShape, DataLossConfirmed, DetailsOfObject, OfThisObject
<1>5. CASE DetailFails
  <2>1. SyncReaches'
    BY <1>5 DEF DetailFails, SyncReaches
  <2> QED
    BY <1>0, <1>5, <2>1, PageChanges DEF DetailFails, DrawerShape, DataLossConfirmed, DetailsOfObject, OfThisObject
<1>6. CASE RunApply
  <2>1. ApplyOffer \in Offers /\ Asks(ApplyOffer)
    BY <1>6, ApplyOfferAsks DEF RunApply
  <2>2. OracleType(ApplyOffer.type) \in OracleTypes
    <3>1. ApplyOffer.type \in ObjectType \cup OracleTypes
      BY <2>1 DEF Offers
    <3> QED
      BY <3>1, TypesFacts DEF OracleTypes
  <2> DEFINE new == [act |-> ApplyOffer.act, type |-> OracleType(ApplyOffer.type), warned |-> ApplyOffer.warned, st |-> "DRAFT"]
  <2>3. new \in DdlJob /\ (new.act = "recreate" /\ new.type \in {"TABLE", "MATERIALIZED VIEW"} => new.warned)
    BY <2>1, <2>2 DEF DdlJob, Offers, Asks
  <2>4. packed' \subseteq packed \cup {new}
    BY <1>6 DEF RunApply, PackAfter
  <2>5. packed' \subseteq DdlJob /\ DataLossConfirmed'
    BY <2>3, <2>4 DEF DrawerShape, DataLossConfirmed
  <2>6. SyncReaches'
    BY <1>6 DEF RunApply, SyncReaches, drawerPage
  <2> QED
    BY <1>6, <2>5, <2>6, PageChanges DEF RunApply, DrawerShape, DetailsOfObject, OfThisObject, drawerPage
<1>7. CASE ApplyAnswered
  <2>1. SyncReaches'
    BY <1>7 DEF ApplyAnswered, SyncReaches, drawerPage
  <2> QED
    BY <1>7, <2>1, PageChanges DEF ApplyAnswered, DrawerShape, DataLossConfirmed, DetailsOfObject, OfThisObject, drawerPage
<1>8. CASE RunColumnSync
  <2>1. SyncReaches'
    BY <1>8 DEF RunColumnSync, SyncReaches, drawerPage
  <2> QED
    BY <1>8, <2>1, PageChanges DEF RunColumnSync, DrawerShape, DataLossConfirmed, DetailsOfObject, OfThisObject, drawerPage
<1>9. CASE ColumnsSynced
  <2>1. PICK kept \in SUBSET (object.differs \cap ColumnGaps) : object' = ColumnsLevelled(kept) /\ synced' = (kept = {})
    BY <1>9 DEF ColumnsSynced, ColumnGaps
  <2>2. DrawerShape'
    BY <1>9, <2>1, LevelledFacts DEF ColumnsSynced, DrawerShape, drawerPage
  <2>3. DetailsOfObject' /\ DataLossConfirmed'
    BY <1>9, <2>1, LevelledFacts DEF ColumnsSynced, DetailsOfObject, OfThisObject, DataLossConfirmed, drawerPage
  <2>4. SyncReaches'
    BY <1>9, <2>1, LevelledFacts DEF ColumnsSynced, SyncReaches
  <2> QED
    BY <2>2, <2>3, <2>4
<1>10. CASE ColumnsFail
  <2>1. SyncReaches'
    BY <1>10 DEF ColumnsFail, SyncReaches, drawerPage
  <2> QED
    BY <1>10, <2>1, PageChanges DEF ColumnsFail, DrawerShape, DataLossConfirmed, DetailsOfObject, OfThisObject, drawerPage
<1>11. CASE SnapshotAnswered
  <2>1. DrawerShape'
    BY <1>11 DEF SnapshotAnswered, DrawerShape
  <2>2. DetailsOfObject' /\ DataLossConfirmed'
    BY <1>0, <1>11 DEF SnapshotAnswered, DetailsOfObject, OfThisObject, DataLossConfirmed
  <2>3. SyncReaches'
    BY <1>11, DetailKinds DEF SnapshotAnswered, SyncReaches
  <2> QED
    BY <2>1, <2>2, <2>3
<1>12. CASE OrphanGoesOn
  <2>1. DataLossConfirmed' /\ packed' \subseteq DdlJob
    BY <1>12 DEF OrphanGoesOn, DataLossConfirmed, DrawerShape
  <2>2. CASE /\ orphan' = "snapshot" /\ UNCHANGED snapshot
             /\ \E kept \in SUBSET (object.differs \cap ColumnGaps) : object' = ColumnsLevelled(kept)
    <3>1. PICK kept \in SUBSET (object.differs \cap ColumnGaps) : object' = ColumnsLevelled(kept)
      BY <2>2
    <3> QED
      BY <1>12, <2>1, <2>2, <3>1, LevelledFacts, CatalogChanges DEF OrphanGoesOn, DrawerShape, SyncReaches
  <2>3. CASE /\ orphan' = "none" /\ snapshot' \in {snapshot, object} /\ UNCHANGED object
    BY <1>12, <2>1, <2>3, CatalogChanges DEF OrphanGoesOn, DrawerShape, SyncReaches
  <2> QED
    BY <1>12, <2>2, <2>3 DEF OrphanGoesOn, ColumnGaps
<1>13. CASE JobDone
  <2>1. PICK j \in packed : packed' = (packed \ {j}) \cup {[j EXCEPT !.st = "DONE"]}
    BY <1>13 DEF JobDone
  <2>2. packed' \subseteq DdlJob /\ DataLossConfirmed'
    BY <2>1 DEF DrawerShape, DdlJob, DataLossConfirmed
  <2> DEFINE done == [object EXCEPT !.at = BothSides, !.differs = {}, !.invalid = @ \ {"target"}]
  <2>3. done = [type |-> object.type, at |-> BothSides, invalid |-> object.invalid \ {"target"}, differs |-> {}]
    <3> DEFINE there == [object EXCEPT !.at = BothSides]
               same  == [there EXCEPT !.differs = {}]
    <3>1. there = [type |-> object.type, at |-> BothSides, invalid |-> object.invalid, differs |-> object.differs]
      BY DEF DrawerShape, CatalogObject
    <3>2. done = [same EXCEPT !.invalid = object.invalid \ {"target"}]
      OBVIOUS
    <3> HIDE DEF there
    <3>3. same = [type |-> object.type, at |-> BothSides, invalid |-> object.invalid, differs |-> {}]
      BY <3>1
    <3> HIDE DEF same, done
    <3> QED
      BY <3>2, <3>3
  <2>4. done \in CatalogObject /\ done.invalid \subseteq done.at /\ done.type = object.type /\ done.differs = {}
    BY <2>3 DEF DrawerShape, CatalogObject
  <2>5. object' \in {object, done}
    BY <1>13 DEF JobDone
  <2>6. /\ object' \in CatalogObject /\ object'.invalid \subseteq object'.at /\ object'.type = object.type
        /\ object'.differs \subseteq object.differs
    BY <2>4, <2>5 DEF DrawerShape
  <2> QED
    BY <1>13, <2>2, <2>6, CatalogChanges DEF JobDone, DrawerShape, SyncReaches
<1>14. CASE TargetChanges
  <2>1. object.type \in ObjectType /\ Compared(object.type) \subseteq Aspects
    BY DrawerAssumption, TypesFacts DEF DrawerShape, CatalogObject
  <2>2. /\ object' \in CatalogObject /\ object'.invalid \subseteq object'.at /\ object'.type = object.type
    BY <1>14, <2>1 DEF TargetChanges, DrawerShape, CatalogObject
  <2> QED
    BY <1>14, <2>2, CatalogChanges DEF TargetChanges, DrawerShape, DataLossConfirmed
<1>15. CASE OthersLoadSnapshot
  <2>1. DataLossConfirmed'
    BY <1>15 DEF OthersLoadSnapshot, DataLossConfirmed
  <2>2. synced' => synced /\ object'.differs \cap ColumnGaps = {} /\ snapshot'.differs \cap ColumnGaps = {}
    BY <1>15 DEF OthersLoadSnapshot, SyncReaches
  <2> QED
    BY <1>15, <2>1, <2>2, CatalogChanges DEF OthersLoadSnapshot, DrawerShape
<1>16. CASE UNCHANGED drawerVars
  <2>1. UNCHANGED <<object, snapshot, drawerPage, detailAsk, objDetail, applyBusy, syncing, orphan, packed, synced>>
    BY <1>16 DEF drawerVars, drawerPage
  <2> QED
    BY <2>1, CatalogChanges DEF DrawerShape, DataLossConfirmed, SyncReaches
<1> QED
  BY <1>1, <1>2, <1>3, <1>4, <1>5, <1>6, <1>7, <1>8, <1>9, <1>10, <1>11, <1>12, <1>13, <1>14, <1>15, <1>16
     DEF DrawerNext

(* DrawerInv is an inductive invariant of the drawer and of the jobs it     *)
(* sends.                                                                   *)
THEOREM DrawerAlways == DrawerSpec => []DrawerInv
<1>1. DrawerInit => DrawerInv
  BY DrawerInitInv
<1>2. DrawerInv /\ [DrawerNext]_drawerVars => DrawerInv'
  BY DrawerStepInv
<1> QED
  BY <1>1, <1>2, PTL DEF DrawerSpec

(* ObjectDrawer.tsx: the object, its detail, the dialogs and the requests   *)
(* keep the types the code gives them.                                      *)
THEOREM DrawerTypeCorrect == DrawerSpec => []DrawerTypeOK
<1>1. DrawerInv => DrawerTypeOK
  <2> SUFFICES ASSUME DrawerInv PROVE DrawerTypeOK
    OBVIOUS
  <2>1. \A o \in {object, snapshot} : o.type \in DrawerTypes /\ o.at \subseteq BothSides /\ o.invalid \subseteq o.at
    BY DEF DrawerInv, DrawerShape, CatalogObject
  <2>2. detailAsk.kind \in {"none", "asked", "ddl", "migration"} /\ objDetail.kind # "asked"
    BY DEF DrawerInv, DrawerShape, ObjectDetail, NoObjectDetail, Asked
  <2>3. \A j \in packed : j.act \in {"create_missing", "sync_diff", "recreate"} /\ j.st \in {"DRAFT", "DONE"}
    BY DEF DrawerInv, DrawerShape, DdlJob
  <2> QED
    BY <2>1, <2>2, <2>3 DEF DrawerTypeOK, DrawerInv, DrawerShape
<1> QED
  BY <1>1, DrawerAlways, PTL

(* ObjectDrawer.tsx: a table or a materialized view is dropped and created  *)
(* again only after its warning was confirmed, from whichever copy of the   *)
(* offer and with whichever name of the type.                               *)
THEOREM DataLossConfirmedHolds == DrawerSpec => []DataLossConfirmed
<1>1. DrawerInv => DataLossConfirmed
  BY DEF DrawerInv
<1> QED
  BY <1>1, DrawerAlways, PTL

(* DiffSections.tsx, ddl_compare.py: what the comparison of any type finds  *)
(* is marked in the drawer of that type, and the banner of a difference     *)
(* never stands over nothing.                                               *)
THEOREM DiffIsDrawnHolds == DrawerSpec => []DiffIsDrawn
<1>1. DrawerInv => DiffIsDrawn
  <2> SUFFICES ASSUME DrawerInv, objDetail # NoObjectDetail
      PROVE  /\ objDetail.differs \cap Compared(object.type) \subseteq Marked(objDetail.type, objDetail.differs)
             /\ Banner(objDetail) = "differs" => Marked(objDetail.type, objDetail.differs) # {}
    BY DEF DiffIsDrawn
  <2>1. object.type \in ObjectType
    BY DrawerAssumption DEF DrawerInv, DrawerShape, CatalogObject
  <2>2. /\ objDetail.type = OracleType(object.type)
        /\ objDetail.match = "DIFF" => objDetail.differs \cap Compared(object.type) # {}
    BY DEF DrawerInv, DrawerShape, DetailsOfObject, OfThisObject
  <2>3. objDetail.differs \cap Compared(object.type) \subseteq Marked(objDetail.type, objDetail.differs)
    BY <2>1, <2>2, DrawsWhatIsCompared
  <2>4. Banner(objDetail) = "differs" => objDetail.match = "DIFF"
    BY DEF Banner
  <2> QED
    BY <2>2, <2>3, <2>4
<1> QED
  BY <1>1, DrawerAlways, PTL

(* ObjectDrawer.tsx: after a sync of columns that went well to its end no   *)
(* missing and no extra column is left to show.                             *)
THEOREM SyncIsShownHolds == DrawerSpec => []SyncIsShown
<1>1. DrawerInv => SyncIsShown
  BY DEF DrawerInv, SyncReaches, SyncIsShown, ColumnGaps
<1> QED
  BY <1>1, DrawerAlways, PTL

-----------------------------------------------------------------------------
(***************************************************************************)
(* The page that prepares the target (TargetPrep).                         *)
(***************************************************************************)
PairStatus == [comparing : BOOLEAN, diff : {"none", "ok", "missing", "extra"}, error : BOOLEAN,
               ddl : {"none", "ok", "missing", "extra"}, ddlLoading : BOOLEAN, syncing : BOOLEAN, syncError : BOOLEAN]
PrepRequestOK(r) ==
  /\ {"do", "tab"} \subseteq DOMAIN r
  /\ r.do # "tables" => r.tab \in PrepTables

PrepShape ==
  /\ pairs \in [PrepTables -> PairStatus] /\ toCompare \subseteq PrepTables /\ swept \subseteq PrepTables
  /\ tableLists.src \subseteq PrepTables /\ tableLists.tgt \subseteq PrepTables
  /\ tableLists \in [loading : BOOLEAN, loaded : BOOLEAN, src : SUBSET PrepTables, tgt : SUBSET PrepTables]
  /\ \A r \in asked : PrepRequestOK(r)

\* A mark in a row, and the request it waits for.
RowAwaits(s, do) ==
  CASE do = "compare" -> s.comparing [] do = "ddl" -> s.ddlLoading [] do = "ensure" -> s.syncing
RowsAwaited ==
  \A t \in PrepTables : \A do \in {"compare", "ddl", "ensure"} :
    RowAwaits(pairs[t], do) => \E r \in asked : r.tab = t /\ r.do = do

\* While a pair of the sweep is left somebody works; the others have a verdict, an error, or a request.
HasVerdict(s) == s.diff # "none" \/ s.error \/ s.comparing
SweepGoesOn ==
  /\ toCompare # {} => workers # 0
  /\ \A t \in swept : t \in toCompare \/ HasVerdict(pairs[t])

PrepInv == PrepShape /\ RowsAwaited /\ SweepGoesOn

LEMMA PatchedShape ==
  ASSUME NEW s \in PairStatus, NEW p, DOMAIN p \subseteq DOMAIN s,
         \A x \in DOMAIN p : IF x \in {"diff", "ddl"} THEN p[x] \in {"none", "ok", "missing", "extra"} ELSE p[x] \in BOOLEAN
  PROVE  /\ Patched(p, s) \in PairStatus
         /\ \A x \in DOMAIN s : Patched(p, s)[x] = IF x \in DOMAIN p THEN p[x] ELSE s[x]
<1>1. DOMAIN s = {"comparing", "diff", "error", "ddl", "ddlLoading", "syncing", "syncError"}
  BY DEF PairStatus
<1>2. Patched(p, s) = [x \in DOMAIN s |-> IF x \in DOMAIN p THEN p[x] ELSE s[x]]
  BY DEF PairStatus, Patched
<1> DEFINE q == Patched(p, s)
<1>3. \A x \in DOMAIN s : q[x] = IF x \in DOMAIN p THEN p[x] ELSE s[x]
  BY <1>2
<1>4. q = [comparing |-> q.comparing, diff |-> q.diff, error |-> q.error, ddl |-> q.ddl,
           ddlLoading |-> q.ddlLoading, syncing |-> q.syncing, syncError |-> q.syncError]
  BY <1>1, <1>2
<1>5. /\ q.comparing \in BOOLEAN /\ q.error \in BOOLEAN /\ q.ddlLoading \in BOOLEAN /\ q.syncing \in BOOLEAN
      /\ q.syncError \in BOOLEAN
      /\ q.diff \in {"none", "ok", "missing", "extra"} /\ q.ddl \in {"none", "ok", "missing", "extra"}
  BY <1>1, <1>3 DEF PairStatus
<1> HIDE DEF q
<1>6. q \in PairStatus
  BY <1>4, <1>5 DEF PairStatus
<1> QED
  BY <1>3, <1>6 DEF q

\* A patch of a row leaves the other rows as they are.
LEMMA SetFacts ==
  ASSUME pairs \in [PrepTables -> PairStatus], NEW t \in PrepTables, NEW p, Set(t, p), DOMAIN p \subseteq DOMAIN DefaultStatus,
         \A x \in DOMAIN p : IF x \in {"diff", "ddl"} THEN p[x] \in {"none", "ok", "missing", "extra"} ELSE p[x] \in BOOLEAN
  PROVE  /\ pairs' \in [PrepTables -> PairStatus]
         /\ \A u \in PrepTables : u # t => pairs'[u] = pairs[u]
         /\ \A x \in DOMAIN DefaultStatus : pairs'[t][x] = IF x \in DOMAIN p THEN p[x] ELSE pairs[t][x]
<1>1. pairs[t] \in PairStatus /\ DOMAIN pairs[t] = DOMAIN DefaultStatus
  BY DEF PairStatus, DefaultStatus
<1>2. pairs' = [pairs EXCEPT ![t] = Patched(p, pairs[t])]
  BY DEF Set
<1>3. /\ Patched(p, pairs[t]) \in PairStatus
      /\ \A x \in DOMAIN pairs[t] : Patched(p, pairs[t])[x] = IF x \in DOMAIN p THEN p[x] ELSE pairs[t][x]
  BY <1>1, PatchedShape
<1> QED
  BY <1>1, <1>2, <1>3

(* A question is added, about the table it is asked for.                   *)
LEMMA AskFacts ==
  ASSUME NEW ask, PrepRequestOK(ask), NEW others
  PROVE  \E q : Ask(ask, others) = others \cup {q} /\ PrepRequestOK(q) /\ q.do = ask.do /\ q.tab = ask.tab
<1> DEFINE q == Numbered(ask, others)
<1>1. ASSUME NEW n
      PROVE  /\ {"do", "tab"} \subseteq DOMAIN Patched(ask, n)
             /\ Patched(ask, n).do = ask.do /\ Patched(ask, n).tab = ask.tab
  BY DEF Patched, PrepRequestOK
<1>2. {"do", "tab"} \subseteq DOMAIN q /\ q.do = ask.do /\ q.tab = ask.tab
  BY <1>1 DEF Numbered
<1> HIDE DEF q
<1>3. PrepRequestOK(q)
  BY <1>2 DEF PrepRequestOK
<1>4. Ask(ask, others) = others \cup {q}
  BY DEF Ask, q
<1> QED
  BY <1>2, <1>3, <1>4

\* What the rows await stays asked, as long as every request that goes has its mark taken away.
LEMMA RowsKept ==
  ASSUME PrepInv,
         \A t \in PrepTables : \A do \in {"compare", "ddl", "ensure"} : RowAwaits(pairs'[t], do) =>
           \/ \E q \in asked' : q.tab = t /\ q.do = do
           \/ RowAwaits(pairs[t], do) /\ \A r \in asked : r.tab = t /\ r.do = do => r \in asked'
  PROVE  RowsAwaited'
<1> SUFFICES ASSUME NEW t \in PrepTables, NEW do \in {"compare", "ddl", "ensure"}, RowAwaits(pairs'[t], do)
    PROVE  \E q \in asked' : q.tab = t /\ q.do = do
  BY DEF RowsAwaited
<1>1. RowAwaits(pairs[t], do) => \E r \in asked : r.tab = t /\ r.do = do
  BY DEF PrepInv, RowsAwaited
<1> QED
  BY <1>1

-----------------------------------------------------------------------------
LEMMA PrepClicksStep ==
  ASSUME PrepInv, \/ \E side \in {"src", "tgt"}, s \in PrepSchemas : ChooseSchema(side, s)
                  \/ LoadTables \/ DoSyncColumns
  PROVE  PrepInv'
<1> USE DEF prepPage
<1>1. ASSUME NEW side, NEW s, ChooseSchema(side, s)
      PROVE  PrepInv'
  <2>1. PrepShape'
    BY <1>1 DEF ChooseSchema, PrepInv, PrepShape, PrepRequestOK
  <2> QED
    BY <1>1, <2>1 DEF ChooseSchema, PrepInv, RowsAwaited, RowAwaits, SweepGoesOn, HasVerdict
<1>2. CASE LoadTables
  <2>1. PICK q : asked' = asked \cup {q} /\ PrepRequestOK(q)
    <3> DEFINE ask == Request("tables", NoKey, "click", FALSE)
    <3>1. asked' = Ask(ask, asked) /\ PrepRequestOK(ask)
      BY <1>2 DEF LoadTables, Request, PrepRequestOK
    <3> QED
      BY <3>1, AskFacts
  <2>2. tableLists' \in [loading : BOOLEAN, loaded : BOOLEAN, src : SUBSET PrepTables, tgt : SUBSET PrepTables]
    BY <1>2 DEF LoadTables, PrepInv, PrepShape
  <2>3. PrepShape'
    BY <1>2, <2>1, <2>2 DEF LoadTables, PrepInv, PrepShape, PrepRequestOK
  <2>4. RowsAwaited'
    BY <1>2, <2>1, RowsKept DEF LoadTables, RowAwaits
  <2> QED
    BY <1>2, <2>3, <2>4 DEF LoadTables, PrepInv, SweepGoesOn, HasVerdict
<1>3. CASE DoSyncColumns
  <2>1. expandedKey \in PrepTables
    BY <1>3 DEF DoSyncColumns, PrepInv, PrepShape
  <2>2. PICK q : asked' = asked \cup {q} /\ PrepRequestOK(q)
    <3> DEFINE ask == Request("columns", expandedKey, "click", TRUE)
    <3>1. asked' = Ask(ask, asked) /\ PrepRequestOK(ask)
      BY <1>3, <2>1 DEF DoSyncColumns, Request, PrepRequestOK
    <3> QED
      BY <3>1, AskFacts
  <2>3. PrepShape'
    BY <1>3, <2>2 DEF DoSyncColumns, PrepInv, PrepShape, PrepRequestOK
  <2>4. RowsAwaited'
    BY <1>3, <2>2, RowsKept DEF DoSyncColumns, RowAwaits
  <2> QED
    BY <1>3, <2>3, <2>4 DEF DoSyncColumns, PrepInv, SweepGoesOn, HasVerdict
<1> QED
  BY <1>1, <1>2, <1>3

LEMMA PairRowStep ==
  ASSUME PrepInv, NEW t \in PrepTables, ComparePair(t) \/ ExpandPair(t) \/ SyncPair(t)
  PROVE  PrepInv'
<1> USE DEF prepPage
<1>1. pairs \in [PrepTables -> PairStatus]
  BY DEF PrepInv, PrepShape
<1>2. CASE ComparePair(t)
  <2>1. PICK q : asked' = asked \cup {q} /\ PrepRequestOK(q) /\ q.do = "compare" /\ q.tab = t
    <3> DEFINE ask == Request("compare", t, "click", FALSE)
    <3>1. asked' = Ask(ask, asked) /\ PrepRequestOK(ask) /\ ask.do = "compare" /\ ask.tab = t
      BY <1>2 DEF ComparePair, Request, PrepRequestOK
    <3> HIDE DEF ask
    <3> QED
      BY <3>1, AskFacts
  <2>2. /\ pairs' \in [PrepTables -> PairStatus] /\ \A u \in PrepTables : u # t => pairs'[u] = pairs[u]
        /\ pairs'[t].comparing /\ pairs'[t].ddlLoading = pairs[t].ddlLoading /\ pairs'[t].syncing = pairs[t].syncing
    <3> DEFINE p == [comparing |-> TRUE, error |-> FALSE]
    <3>1. Set(t, p)
      BY <1>2 DEF ComparePair
    <3>2. p \in [comparing : BOOLEAN, error : BOOLEAN] /\ p.comparing
      OBVIOUS
    <3> HIDE DEF p
    <3>3. DOMAIN p = {"comparing", "error"} /\ \A x \in DOMAIN p : p[x] \in BOOLEAN
      BY <3>2
    <3> QED
      BY <1>1, <3>1, <3>2, <3>3, SetFacts DEF DefaultStatus
  <2>3. PrepShape'
    BY <1>2, <2>1, <2>2 DEF ComparePair, PrepInv, PrepShape, PrepRequestOK
  <2>4. RowsAwaited'
    BY <2>1, <2>2, RowsKept DEF RowAwaits
  <2> QED
    BY <1>2, <2>2, <2>3, <2>4 DEF ComparePair, PrepInv, PrepShape, SweepGoesOn, HasVerdict
<1>3. CASE ExpandPair(t)
  <2>1. CASE UNCHANGED <<pairs, asked>>
    <3>1. PrepShape'
      BY <1>3, <2>1 DEF ExpandPair, PrepInv, PrepShape, PrepRequestOK
    <3> QED
      BY <1>3, <2>1, <3>1 DEF ExpandPair, PrepInv, RowsAwaited, RowAwaits, SweepGoesOn, HasVerdict
  <2>2. CASE Set(t, [ddlLoading |-> TRUE]) /\ asked' = Ask(Request("ddl", t, "click", FALSE), asked)
    <3>1. PICK q : asked' = asked \cup {q} /\ PrepRequestOK(q) /\ q.do = "ddl" /\ q.tab = t
      <4> DEFINE ask == Request("ddl", t, "click", FALSE)
      <4>1. asked' = Ask(ask, asked) /\ PrepRequestOK(ask) /\ ask.do = "ddl" /\ ask.tab = t
        BY <2>2 DEF Request, PrepRequestOK
      <4> HIDE DEF ask
      <4> QED
        BY <4>1, AskFacts
    <3>2. /\ pairs' \in [PrepTables -> PairStatus] /\ \A u \in PrepTables : u # t => pairs'[u] = pairs[u]
          /\ pairs'[t].ddlLoading /\ pairs'[t].comparing = pairs[t].comparing /\ pairs'[t].syncing = pairs[t].syncing
          /\ pairs'[t].diff = pairs[t].diff /\ pairs'[t].error = pairs[t].error
      <4> DEFINE p == [ddlLoading |-> TRUE]
      <4>1. Set(t, p)
        BY <2>2
      <4>2. p \in [ddlLoading : BOOLEAN] /\ p.ddlLoading
        OBVIOUS
      <4> HIDE DEF p
      <4>3. DOMAIN p = {"ddlLoading"} /\ \A x \in DOMAIN p : p[x] \in BOOLEAN
        BY <4>2
      <4> QED
        BY <1>1, <4>1, <4>2, <4>3, SetFacts DEF DefaultStatus
    <3>3. PrepShape'
      BY <1>3, <3>1, <3>2 DEF ExpandPair, PrepInv, PrepShape, PrepRequestOK
    <3>4. RowsAwaited'
      BY <3>1, <3>2, RowsKept DEF RowAwaits
    <3> QED
      BY <1>3, <3>2, <3>3, <3>4 DEF ExpandPair, PrepInv, PrepShape, SweepGoesOn, HasVerdict
  <2> QED
    BY <1>3, <2>1, <2>2 DEF ExpandPair
<1>4. CASE SyncPair(t)
  <2>1. PICK q : asked' = asked \cup {q} /\ PrepRequestOK(q) /\ q.do = "ensure" /\ q.tab = t
    <3> DEFINE ask == Request("ensure", t, "level", expandedKey = t)
    <3>1. asked' = Ask(ask, asked) /\ PrepRequestOK(ask) /\ ask.do = "ensure" /\ ask.tab = t
      BY <1>4 DEF SyncPair, Request, PrepRequestOK
    <3> HIDE DEF ask
    <3> QED
      BY <3>1, AskFacts
  <2>2. /\ pairs' \in [PrepTables -> PairStatus] /\ \A u \in PrepTables : u # t => pairs'[u] = pairs[u]
        /\ pairs'[t].syncing /\ pairs'[t].comparing = pairs[t].comparing /\ pairs'[t].ddlLoading = pairs[t].ddlLoading
        /\ pairs'[t].diff = pairs[t].diff /\ pairs'[t].error = pairs[t].error
    <3> DEFINE p == [syncing |-> TRUE, syncError |-> FALSE]
    <3>1. Set(t, p)
      BY <1>4 DEF SyncPair
    <3>2. p \in [syncing : BOOLEAN, syncError : BOOLEAN] /\ p.syncing
      OBVIOUS
    <3> HIDE DEF p
    <3>3. DOMAIN p = {"syncing", "syncError"} /\ \A x \in DOMAIN p : p[x] \in BOOLEAN
      BY <3>2
    <3> QED
      BY <1>1, <3>1, <3>2, <3>3, SetFacts DEF DefaultStatus
  <2>3. PrepShape'
    BY <1>4, <2>1, <2>2 DEF SyncPair, PrepInv, PrepShape, PrepRequestOK
  <2>4. RowsAwaited'
    BY <2>1, <2>2, RowsKept DEF RowAwaits
  <2> QED
    BY <1>4, <2>2, <2>3, <2>4 DEF SyncPair, PrepInv, PrepShape, SweepGoesOn, HasVerdict
<1> QED
  BY <1>2, <1>3, <1>4

-----------------------------------------------------------------------------
(* Comparing.                                                              *)

\* A pair that is being compared, and one whose comparison has ended.
UnderComparison(s) == [s EXCEPT !.comparing = TRUE, !.error = FALSE]
Ended(s, d) == [s EXCEPT !.comparing = FALSE, !.diff = d]
ComparisonFailed(s) == [s EXCEPT !.comparing = FALSE, !.error = TRUE]
OthersKept(s, m) == m \in PairStatus /\ m.ddlLoading = s.ddlLoading /\ m.syncing = s.syncing

LEMMA StatusFacts ==
  ASSUME NEW s \in PairStatus
  PROVE  /\ OthersKept(s, UnderComparison(s)) /\ UnderComparison(s).comparing
         /\ \A d \in {"ok", "missing", "extra"} : /\ OthersKept(s, Ended(s, d)) /\ ~Ended(s, d).comparing
                                                  /\ Ended(s, d).diff = d
         /\ OthersKept(s, ComparisonFailed(s)) /\ ~ComparisonFailed(s).comparing /\ ComparisonFailed(s).error
<1> DEFINE on  == [s EXCEPT !.comparing = TRUE]
           off == [s EXCEPT !.comparing = FALSE]
<1>1. OthersKept(s, on) /\ on.comparing
  BY DEF OthersKept, PairStatus
<1>2. OthersKept(s, off) /\ ~off.comparing
  BY DEF OthersKept, PairStatus
<1>3. /\ UnderComparison(s) = [on EXCEPT !.error = FALSE] /\ ComparisonFailed(s) = [off EXCEPT !.error = TRUE]
      /\ \A d : Ended(s, d) = [off EXCEPT !.diff = d]
  BY DEF UnderComparison, Ended, ComparisonFailed
<1> HIDE DEF on, off
<1>4. OthersKept(s, UnderComparison(s)) /\ UnderComparison(s).comparing
  BY <1>1, <1>3 DEF OthersKept, PairStatus
<1>5. OthersKept(s, ComparisonFailed(s)) /\ ~ComparisonFailed(s).comparing /\ ComparisonFailed(s).error
  BY <1>2, <1>3 DEF OthersKept, PairStatus
<1>6. ASSUME NEW d \in {"ok", "missing", "extra"}
      PROVE  OthersKept(s, Ended(s, d)) /\ ~Ended(s, d).comparing /\ Ended(s, d).diff = d
  BY <1>2, <1>3 DEF OthersKept, PairStatus
<1> QED
  BY <1>4, <1>5, <1>6

LEMMA DiffNowFacts ==
  ASSUME NEW r
  PROVE  DiffNow(r) \in {"ok", "missing", "extra"}
  BY DEF DiffNow, Diff

LEMMA CompareAllStep ==
  ASSUME PrepInv, CompareAll
  PROVE  PrepInv'
<1> USE DEF prepPage
<1> DEFINE ask(t) == Patched(Request("compare", t, "all", FALSE), [no |-> 0])
<1>1. PICK first \in SUBSET Paired :
       /\ Cardinality(first) = (IF Cardinality(Paired) < Concurrency THEN Cardinality(Paired) ELSE Concurrency)
       /\ toCompare' = Paired \ first /\ workers' = Cardinality(first)
       /\ pairs' = [t \in PrepTables |-> IF t \in first THEN [pairs[t] EXCEPT !.comparing = TRUE, !.error = FALSE]
                                                        ELSE pairs[t]]
       /\ asked' = asked \cup {ask(t) : t \in first}
  BY DEF CompareAll
<1>2. Paired \subseteq PrepTables /\ Paired # {}
  BY DEF CompareAll, Paired, PrepInv, PrepShape
<1>3. workers' # 0
  <2>1. IsFiniteSet(Paired)
    BY <1>2, PrepAssumption, FS_Subset
  <2>2. Cardinality(Paired) \in Nat /\ Cardinality(Paired) # 0
    BY <1>2, <2>1, FS_CardinalityType, FS_EmptySet
  <2> QED
    BY <1>1, <2>2, PrepAssumption
<1>4. ASSUME NEW t \in first
      PROVE  PrepRequestOK(ask(t)) /\ ask(t).do = "compare" /\ ask(t).tab = t
  BY <1>2 DEF Patched, Request, PrepRequestOK
<1> HIDE DEF ask
<1>5. ASSUME NEW t \in PrepTables
      PROVE  /\ pairs'[t] \in PairStatus
             /\ t \notin first => pairs'[t] = pairs[t]
             /\ t \in first => pairs'[t].comparing /\ pairs'[t].ddlLoading = pairs[t].ddlLoading
                               /\ pairs'[t].syncing = pairs[t].syncing
  <2>1. pairs[t] \in PairStatus
    BY DEF PrepInv, PrepShape
  <2>2. pairs'[t] = IF t \in first THEN UnderComparison(pairs[t]) ELSE pairs[t]
    BY <1>1 DEF UnderComparison
  <2> QED
    BY <2>1, <2>2, StatusFacts DEF OthersKept
<1>6. PrepShape'
  <2>1. pairs' \in [PrepTables -> PairStatus]
    BY <1>1, <1>5
  <2>2. toCompare' \subseteq PrepTables /\ swept' \subseteq PrepTables /\ UNCHANGED <<tableLists>>
    BY <1>1, <1>2 DEF CompareAll
  <2>3. \A r \in asked' : PrepRequestOK(r)
    <3>1. \A r \in asked : PrepRequestOK(r)
      BY DEF PrepInv, PrepShape
    <3> QED
      BY <1>1, <1>4, <3>1
  <2> QED
    BY <2>1, <2>2, <2>3 DEF PrepInv, PrepShape, PrepRequestOK
<1>7. \A t \in first : \E q \in asked' : q.tab = t /\ q.do = "compare"
  BY <1>1, <1>4
<1>8. asked \subseteq asked'
  BY <1>1
<1>9. RowsAwaited'
  BY <1>5, <1>7, <1>8, RowsKept DEF RowAwaits
<1>10. SweepGoesOn'
  <2>1. swept' = Paired
    BY DEF CompareAll
  <2> QED
    BY <1>1, <1>2, <1>3, <1>5, <2>1 DEF SweepGoesOn, HasVerdict
<1> QED
  BY <1>6, <1>9, <1>10 DEF PrepInv

\* What a comparison that has ended leaves of the pairs.
LEMMA SettledFacts ==
  ASSUME pairs \in [PrepTables -> PairStatus], NEW r, r.tab \in PrepTables,
         NEW settled \in {[pairs EXCEPT ![r.tab].comparing = FALSE, ![r.tab].diff = DiffNow(r)],
                          [pairs EXCEPT ![r.tab].comparing = FALSE, ![r.tab].error = TRUE]}
  PROVE  /\ settled \in [PrepTables -> PairStatus] /\ ~settled[r.tab].comparing /\ HasVerdict(settled[r.tab])
         /\ settled[r.tab].ddlLoading = pairs[r.tab].ddlLoading /\ settled[r.tab].syncing = pairs[r.tab].syncing
         /\ \A u \in PrepTables : u # r.tab => settled[u] = pairs[u]
<1> DEFINE s == pairs[r.tab]
           ended == Ended(s, DiffNow(r))
           failed == ComparisonFailed(s)
<1>1. settled \in {[pairs EXCEPT ![r.tab] = ended], [pairs EXCEPT ![r.tab] = failed]}
  BY DEF Ended, ComparisonFailed
<1>2. s \in PairStatus
  OBVIOUS
<1>3. /\ ended \in PairStatus /\ ~ended.comparing /\ ended.diff \in {"ok", "missing", "extra"}
      /\ ended.ddlLoading = s.ddlLoading /\ ended.syncing = s.syncing
  BY <1>2, StatusFacts, DiffNowFacts DEF OthersKept
<1>4. /\ failed \in PairStatus /\ ~failed.comparing /\ failed.error
      /\ failed.ddlLoading = s.ddlLoading /\ failed.syncing = s.syncing
  BY <1>2, StatusFacts DEF OthersKept
<1> HIDE DEF ended, failed
<1> QED
  BY <1>1, <1>3, <1>4 DEF HasVerdict

LEMMA LandSummaryStep ==
  ASSUME PrepInv, NEW r \in asked, LandSummary(r)
  PROVE  PrepInv'
<1> USE DEF prepPage
<1>1. r.do = "compare" /\ {"do", "tab"} \subseteq DOMAIN r /\ r.tab \in PrepTables /\ pairs \in [PrepTables -> PairStatus]
  BY DEF LandSummary, PrepInv, PrepShape, PrepRequestOK
<1>2. PICK settled \in {[pairs EXCEPT ![r.tab].comparing = FALSE, ![r.tab].diff = DiffNow(r)],
                        [pairs EXCEPT ![r.tab].comparing = FALSE, ![r.tab].error = TRUE]} :
        \/ r.by = "all" /\ AfterAll(r, settled) /\ UNCHANGED swept
        \/ /\ pairs' = [settled EXCEPT ![r.tab].ddlLoading = TRUE]
           /\ asked' = (asked \ {r}) \cup {[r EXCEPT !.do = "ddl"]} /\ UNCHANGED <<toCompare, workers, swept>>
        \/ pairs' = settled /\ asked' = asked \ {r} /\ UNCHANGED <<toCompare, workers, swept>>
  BY DEF LandSummary
<1>3. /\ settled \in [PrepTables -> PairStatus] /\ ~settled[r.tab].comparing /\ HasVerdict(settled[r.tab])
      /\ settled[r.tab].ddlLoading = pairs[r.tab].ddlLoading /\ settled[r.tab].syncing = pairs[r.tab].syncing
      /\ \A u \in PrepTables : u # r.tab => settled[u] = pairs[u]
  BY <1>1, <1>2, SettledFacts
<1>4. UNCHANGED tableLists /\ \A q \in asked : PrepRequestOK(q)
  BY DEF LandSummary, PrepInv, PrepShape
<1>5. \A t \in PrepTables : \A do \in {"compare", "ddl", "ensure"} : RowAwaits(settled[t], do) =>
        RowAwaits(pairs[t], do) /\ ~(t = r.tab /\ do = "compare")
  BY <1>3 DEF RowAwaits
<1>6. \A t \in swept : t \in toCompare \/ HasVerdict(settled[t])
  BY <1>3 DEF PrepInv, PrepShape, SweepGoesOn
<1>7. ASSUME AfterAll(r, settled), UNCHANGED swept
      PROVE  PrepInv'
  <2>1. CASE toCompare = {}
    <3>1. pairs' = settled /\ asked' = asked \ {r} /\ UNCHANGED toCompare
      BY <1>7, <2>1 DEF AfterAll
    <3>2. PrepShape'
      BY <1>3, <1>4, <1>7, <3>1 DEF PrepInv, PrepShape, PrepRequestOK
    <3>3. RowsAwaited'
      BY <1>1, <1>5, <3>1, RowsKept
    <3> QED
      BY <1>6, <1>7, <2>1, <3>1, <3>2, <3>3 DEF PrepInv, SweepGoesOn
  <2>2. CASE toCompare # {}
    <3>1. PICK t \in toCompare :
             /\ toCompare' = toCompare \ {t} /\ asked' = (asked \ {r}) \cup {[r EXCEPT !.tab = t]}
             /\ pairs' = [settled EXCEPT ![t].comparing = TRUE, ![t].error = FALSE]
             /\ UNCHANGED workers
      BY <1>7, <2>2 DEF AfterAll
    <3>2. t \in PrepTables
      BY DEF PrepInv, PrepShape
    <3>3. pairs' = [settled EXCEPT ![t] = UnderComparison(settled[t])]
      BY <3>1 DEF UnderComparison
    <3>4. /\ pairs' \in [PrepTables -> PairStatus] /\ \A u \in PrepTables : u # t => pairs'[u] = settled[u]
          /\ pairs'[t].comparing /\ pairs'[t].ddlLoading = settled[t].ddlLoading /\ pairs'[t].syncing = settled[t].syncing
      BY <1>3, <3>2, <3>3, StatusFacts DEF OthersKept
    <3> DEFINE q == [r EXCEPT !.tab = t]
    <3>5. PrepRequestOK(q) /\ q.do = "compare" /\ q.tab = t
      BY <1>1, <3>2 DEF PrepRequestOK
    <3>6. asked' = (asked \ {r}) \cup {q}
      BY <3>1
    <3> HIDE DEF q
    <3>7. PrepShape'
      BY <1>4, <1>7, <3>1, <3>4, <3>5, <3>6 DEF PrepInv, PrepShape, PrepRequestOK
    <3>8. \A u \in PrepTables : \A do \in {"compare", "ddl", "ensure"} : RowAwaits(pairs'[u], do) =>
            (u = t /\ do = "compare") \/ RowAwaits(settled[u], do)
      BY <3>4 DEF RowAwaits
    <3>9. RowsAwaited'
      BY <1>1, <1>5, <3>5, <3>6, <3>8, RowsKept
    <3>10. \A u \in swept : u \in toCompare' \/ HasVerdict(pairs'[u])
      BY <1>6, <3>1, <3>4 DEF HasVerdict, PrepInv, PrepShape
    <3> QED
      BY <1>7, <2>2, <3>1, <3>7, <3>9, <3>10 DEF PrepInv, SweepGoesOn
  <2> QED
    BY <2>1, <2>2
<1>8. ASSUME pairs' = [settled EXCEPT ![r.tab].ddlLoading = TRUE], UNCHANGED <<toCompare, workers, swept>>,
             asked' = (asked \ {r}) \cup {[r EXCEPT !.do = "ddl"]}
      PROVE  PrepInv'
  <2> DEFINE q == [r EXCEPT !.do = "ddl"]
             s == [settled[r.tab] EXCEPT !.ddlLoading = TRUE]
  <2>1. PrepRequestOK(q) /\ q.do = "ddl" /\ q.tab = r.tab
    BY <1>1 DEF PrepRequestOK
  <2>2. asked' = (asked \ {r}) \cup {q} /\ pairs' = [settled EXCEPT ![r.tab] = s]
    BY <1>8
  <2>3. /\ s \in PairStatus /\ s.comparing = settled[r.tab].comparing /\ s.syncing = settled[r.tab].syncing
        /\ s.diff = settled[r.tab].diff /\ s.error = settled[r.tab].error
    <3>1. ASSUME NEW c \in PairStatus
          PROVE  LET m == [c EXCEPT !.ddlLoading = TRUE]
                 IN  m \in PairStatus /\ m.comparing = c.comparing /\ m.syncing = c.syncing /\ m.diff = c.diff /\ m.error = c.error
      BY DEF PairStatus
    <3>2. settled[r.tab] \in PairStatus
      BY <1>1, <1>3
    <3> QED
      BY <3>1, <3>2
  <2> HIDE DEF q, s
  <2>4. /\ pairs' \in [PrepTables -> PairStatus] /\ pairs'[r.tab] = s
        /\ \A u \in PrepTables : u # r.tab => pairs'[u] = settled[u]
    BY <1>1, <1>3, <2>2, <2>3
  <2>5. PrepShape'
    BY <1>4, <1>8, <2>1, <2>2, <2>4 DEF PrepInv, PrepShape, PrepRequestOK
  <2>6. \A u \in PrepTables : \A do \in {"compare", "ddl", "ensure"} : RowAwaits(pairs'[u], do) =>
          (u = r.tab /\ do = "ddl") \/ RowAwaits(settled[u], do)
    BY <2>3, <2>4 DEF RowAwaits
  <2>7. RowsAwaited'
    BY <1>1, <1>5, <2>1, <2>2, <2>6, RowsKept
  <2>8. \A u \in swept : u \in toCompare \/ HasVerdict(pairs'[u])
    BY <1>3, <1>6, <2>3, <2>4 DEF HasVerdict, PrepInv, PrepShape
  <2> QED
    BY <1>8, <2>5, <2>7, <2>8 DEF PrepInv, SweepGoesOn
<1>9. ASSUME pairs' = settled, asked' = asked \ {r}, UNCHANGED <<toCompare, workers, swept>>
      PROVE  PrepInv'
  <2>1. PrepShape'
    BY <1>3, <1>4, <1>9 DEF PrepInv, PrepShape, PrepRequestOK
  <2>2. RowsAwaited'
    BY <1>1, <1>5, <1>9, RowsKept
  <2> QED
    BY <1>6, <1>9, <2>1, <2>2 DEF PrepInv, SweepGoesOn
<1> QED
  BY <1>2, <1>7, <1>8, <1>9

-----------------------------------------------------------------------------
(* The server, and the other answers.                                      *)
LEMMA ServeChangeStep ==
  ASSUME PrepInv, NEW r \in asked, ServeChange(r)
  PROVE  PrepInv'
<1> USE DEF prepPage
<1>1. PICK f : asked' = (asked \ {r}) \cup {Patched(r, f)}
  BY DEF ServeChange
<1> DEFINE q == Patched(r, f)
<1>2. PrepRequestOK(r)
  BY DEF PrepInv, PrepShape
<1>3. {"do", "tab"} \subseteq DOMAIN q /\ q.do = r.do /\ q.tab = r.tab
  BY <1>2 DEF Patched, PrepRequestOK
<1>4. asked' = (asked \ {r}) \cup {q}
  BY <1>1
<1> HIDE DEF q
<1>5. PrepShape'
  BY <1>2, <1>3, <1>4 DEF ServeChange, PrepInv, PrepShape, PrepRequestOK
<1>6. RowsAwaited'
  <2>1. UNCHANGED pairs
    BY DEF ServeChange
  <2> SUFFICES ASSUME NEW t \in PrepTables, NEW do \in {"compare", "ddl", "ensure"}, RowAwaits(pairs[t], do)
      PROVE  \E x \in asked' : x.tab = t /\ x.do = do
    BY <2>1 DEF RowsAwaited
  <2>2. PICK x \in asked : x.tab = t /\ x.do = do
    BY DEF PrepInv, RowsAwaited
  <2> QED
    BY <1>3, <1>4, <2>2
<1> QED
  BY <1>5, <1>6 DEF ServeChange, PrepInv, SweepGoesOn, HasVerdict

LEMMA LandListsStep ==
  ASSUME PrepInv, NEW r \in asked, LandLists(r)
  PROVE  PrepInv'
<1> USE DEF prepPage
<1>1. r.do = "tables" /\ asked' = asked \ {r} /\ UNCHANGED workers
  BY DEF LandLists
<1>2. CASE /\ tableLists' = [loading |-> FALSE, loaded |-> TRUE,
                             src |-> TablesOf(SourceCols, r.src), tgt |-> TablesOf(targetCols, r.tgt)]
           /\ pairs' = [t \in PrepTables |-> DefaultStatus] /\ swept' = {} /\ toCompare' = toCompare
  <2>1. \A cols, s : TablesOf(cols, s) \subseteq PrepTables
    BY DEF TablesOf
  <2>2. DefaultStatus \in PairStatus
    BY DEF DefaultStatus, PairStatus
  <2>3. PrepShape'
    BY <1>1, <1>2, <2>1, <2>2 DEF PrepInv, PrepShape, PrepRequestOK
  <2>4. RowsAwaited'
    BY <1>2 DEF RowsAwaited, RowAwaits, DefaultStatus
  <2> QED
    BY <1>1, <1>2, <2>3, <2>4 DEF PrepInv, SweepGoesOn
<1>3. CASE tableLists' = [tableLists EXCEPT !.loading = FALSE] /\ UNCHANGED <<pairs, swept, toCompare>>
  <2>1. tableLists' \in [loading : BOOLEAN, loaded : BOOLEAN, src : SUBSET PrepTables, tgt : SUBSET PrepTables]
    BY <1>3 DEF PrepInv, PrepShape
  <2>2. PrepShape'
    BY <1>1, <1>3, <2>1 DEF PrepInv, PrepShape, PrepRequestOK
  <2>3. RowsAwaited'
    BY <1>1, <1>3, RowsKept DEF RowAwaits
  <2> QED
    BY <1>1, <1>3, <2>2, <2>3 DEF PrepInv, SweepGoesOn, HasVerdict
<1> QED
  BY <1>2, <1>3 DEF LandLists

LEMMA LandDdlStep ==
  ASSUME PrepInv, NEW r \in asked, LandDdl(r)
  PROVE  PrepInv'
<1> USE DEF prepPage
<1>1. r.do = "ddl" /\ r.tab \in PrepTables /\ pairs \in [PrepTables -> PairStatus] /\ asked' = asked \ {r}
  BY DEF LandDdl, PrepInv, PrepShape, PrepRequestOK
<1>2. /\ pairs' \in [PrepTables -> PairStatus] /\ \A u \in PrepTables : u # r.tab => pairs'[u] = pairs[u]
      /\ ~pairs'[r.tab].ddlLoading /\ pairs'[r.tab].comparing = pairs[r.tab].comparing
      /\ pairs'[r.tab].syncing = pairs[r.tab].syncing
      /\ HasVerdict(pairs[r.tab]) => HasVerdict(pairs'[r.tab])
  <2>1. CASE Set(r.tab, [ddl |-> DiffNow(r), ddlLoading |-> FALSE])
    <3> DEFINE p == [ddl |-> DiffNow(r), ddlLoading |-> FALSE]
    <3>1. Set(r.tab, p)
      BY <2>1
    <3>2. p \in [ddl : {"none", "ok", "missing", "extra"}, ddlLoading : BOOLEAN] /\ ~p.ddlLoading
      BY DiffNowFacts
    <3> HIDE DEF p
    <3>3. /\ DOMAIN p = {"ddl", "ddlLoading"}
          /\ \A x \in DOMAIN p : IF x \in {"diff", "ddl"} THEN p[x] \in {"none", "ok", "missing", "extra"} ELSE p[x] \in BOOLEAN
      BY <3>2
    <3> QED
      BY <1>1, <3>1, <3>2, <3>3, SetFacts DEF DefaultStatus, HasVerdict
  <2>2. CASE Set(r.tab, [error |-> TRUE, ddlLoading |-> FALSE])
    <3> DEFINE p == [error |-> TRUE, ddlLoading |-> FALSE]
    <3>1. Set(r.tab, p)
      BY <2>2
    <3>2. p \in [error : BOOLEAN, ddlLoading : BOOLEAN] /\ ~p.ddlLoading /\ p.error
      OBVIOUS
    <3> HIDE DEF p
    <3>3. DOMAIN p = {"error", "ddlLoading"} /\ \A x \in DOMAIN p : p[x] \in BOOLEAN
      BY <3>2
    <3> QED
      BY <1>1, <3>1, <3>2, <3>3, SetFacts DEF DefaultStatus, HasVerdict
  <2> QED
    BY <2>1, <2>2 DEF LandDdl
<1>3. PrepShape'
  BY <1>1, <1>2 DEF LandDdl, PrepInv, PrepShape, PrepRequestOK
<1>4. RowsAwaited'
  BY <1>1, <1>2, RowsKept DEF RowAwaits
<1>5. SweepGoesOn'
  <2>1. \A t \in swept : t \in toCompare \/ HasVerdict(pairs'[t])
    BY <1>2 DEF PrepInv, PrepShape, SweepGoesOn
  <2> QED
    BY <2>1 DEF LandDdl, PrepInv, SweepGoesOn
<1> QED
  BY <1>3, <1>4, <1>5 DEF PrepInv

LEMMA LandEnsureStep ==
  ASSUME PrepInv, NEW r \in asked, LandEnsure(r)
  PROVE  PrepInv'
<1> USE DEF prepPage
<1>1. /\ r.do = "ensure" /\ r.tab \in PrepTables /\ pairs \in [PrepTables -> PairStatus]
      /\ UNCHANGED <<toCompare, workers, swept>> /\ \A q \in asked : PrepRequestOK(q)
  BY DEF LandEnsure, PrepInv, PrepShape, PrepRequestOK
<1>2. CASE r.ok
  <2> DEFINE q == [no |-> r.no, do |-> "compare", tab |-> r.tab, by |-> "level",
                   open |-> r.open, src |-> r.src, tgt |-> r.tgt]
             p == [syncing |-> FALSE, ddl |-> "none", comparing |-> TRUE, error |-> FALSE]
  <2>1. asked' = (asked \ {r}) \cup {q} /\ Set(r.tab, p)
    BY <1>2 DEF LandEnsure
  <2>2. PrepRequestOK(q) /\ q.do = "compare" /\ q.tab = r.tab
    BY <1>1 DEF PrepRequestOK
  <2>3. /\ p \in [syncing : BOOLEAN, ddl : {"none", "ok", "missing", "extra"}, comparing : BOOLEAN, error : BOOLEAN]
        /\ ~p.syncing /\ p.comparing
    OBVIOUS
  <2> HIDE DEF q, p
  <2>4. /\ DOMAIN p = {"syncing", "ddl", "comparing", "error"}
        /\ \A x \in DOMAIN p : IF x \in {"diff", "ddl"} THEN p[x] \in {"none", "ok", "missing", "extra"} ELSE p[x] \in BOOLEAN
    BY <2>3
  <2>5. /\ pairs' \in [PrepTables -> PairStatus] /\ \A u \in PrepTables : u # r.tab => pairs'[u] = pairs[u]
        /\ ~pairs'[r.tab].syncing /\ pairs'[r.tab].comparing /\ pairs'[r.tab].ddlLoading = pairs[r.tab].ddlLoading
    BY <1>1, <2>1, <2>3, <2>4, SetFacts DEF DefaultStatus
  <2>6. tableLists' \in [loading : BOOLEAN, loaded : BOOLEAN, src : SUBSET PrepTables, tgt : SUBSET PrepTables]
    <3>1. tableLists' \in {[tableLists EXCEPT !.tgt = @ \cup {r.tab}], tableLists}
      BY <1>2 DEF LandEnsure
    <3> QED
      BY <1>1, <3>1 DEF PrepInv, PrepShape
  <2>7. PrepShape'
    BY <1>1, <2>1, <2>2, <2>5, <2>6 DEF PrepInv, PrepShape, PrepRequestOK
  <2>8. RowsAwaited'
    BY <1>1, <2>1, <2>2, <2>5, RowsKept DEF RowAwaits
  <2> QED
    BY <1>1, <2>5, <2>7, <2>8 DEF PrepInv, PrepShape, SweepGoesOn, HasVerdict
<1>3. CASE ~r.ok
  <2> DEFINE p == [syncing |-> FALSE, syncError |-> TRUE]
  <2>1. asked' = asked \ {r} /\ Set(r.tab, p) /\ UNCHANGED tableLists
    BY <1>3 DEF LandEnsure
  <2>2. p \in [syncing : BOOLEAN, syncError : BOOLEAN] /\ ~p.syncing
    OBVIOUS
  <2> HIDE DEF p
  <2>3. DOMAIN p = {"syncing", "syncError"} /\ \A x \in DOMAIN p : p[x] \in BOOLEAN
    BY <2>2
  <2>4. /\ pairs' \in [PrepTables -> PairStatus] /\ \A u \in PrepTables : u # r.tab => pairs'[u] = pairs[u]
        /\ ~pairs'[r.tab].syncing /\ pairs'[r.tab].ddlLoading = pairs[r.tab].ddlLoading
        /\ pairs'[r.tab].comparing = pairs[r.tab].comparing
        /\ pairs'[r.tab].diff = pairs[r.tab].diff /\ pairs'[r.tab].error = pairs[r.tab].error
    BY <1>1, <2>1, <2>2, <2>3, SetFacts DEF DefaultStatus
  <2>5. PrepShape'
    BY <1>1, <2>1, <2>4 DEF PrepInv, PrepShape, PrepRequestOK
  <2>6. RowsAwaited'
    BY <1>1, <2>1, <2>4, RowsKept DEF RowAwaits
  <2> QED
    BY <1>1, <2>4, <2>5, <2>6 DEF PrepInv, PrepShape, SweepGoesOn, HasVerdict
<1> QED
  BY <1>2, <1>3

LEMMA LandColumnsStep ==
  ASSUME PrepInv, NEW r \in asked, LandColumns(r)
  PROVE  PrepInv'
<1> USE DEF prepPage
<1>1. /\ r.do = "columns" /\ r.tab \in PrepTables /\ pairs \in [PrepTables -> PairStatus]
      /\ UNCHANGED <<tableLists, toCompare, workers, swept>> /\ \A q \in asked : PrepRequestOK(q)
  BY DEF LandColumns, PrepInv, PrepShape, PrepRequestOK
<1>2. CASE r.ok
  <2> DEFINE again == [no |-> r.no, do |-> "ddl", tab |-> r.tab, by |-> "click", open |-> FALSE,
                       src |-> r.src, tgt |-> r.tgt]
             ask == [x \in DOMAIN again \ {"no"} |-> IF x = "do" THEN "compare" ELSE again[x]]
             p == [ddlLoading |-> TRUE, comparing |-> TRUE, error |-> FALSE]
  <2>1. asked' = Ask(ask, (asked \ {r}) \cup {again}) /\ Set(r.tab, p)
    BY <1>2 DEF LandColumns
  <2>2. PrepRequestOK(again) /\ again.do = "ddl" /\ again.tab = r.tab
    BY <1>1 DEF PrepRequestOK
  <2>3. PrepRequestOK(ask) /\ ask.do = "compare" /\ ask.tab = r.tab
    BY <1>1 DEF PrepRequestOK
  <2>4. p \in [ddlLoading : BOOLEAN, comparing : BOOLEAN, error : BOOLEAN] /\ p.ddlLoading /\ p.comparing
    OBVIOUS
  <2> HIDE DEF again, ask, p
  <2>5. DOMAIN p = {"ddlLoading", "comparing", "error"} /\ \A x \in DOMAIN p : p[x] \in BOOLEAN
    BY <2>4
  <2>6. /\ pairs' \in [PrepTables -> PairStatus] /\ \A u \in PrepTables : u # r.tab => pairs'[u] = pairs[u]
        /\ pairs'[r.tab].ddlLoading /\ pairs'[r.tab].comparing /\ pairs'[r.tab].syncing = pairs[r.tab].syncing
    BY <1>1, <2>1, <2>4, <2>5, SetFacts DEF DefaultStatus
  <2>7. PICK q : asked' = ((asked \ {r}) \cup {again}) \cup {q} /\ PrepRequestOK(q) /\ q.do = "compare" /\ q.tab = r.tab
    BY <2>1, <2>3, AskFacts
  <2>8. PrepShape'
    BY <1>1, <2>2, <2>6, <2>7 DEF PrepInv, PrepShape, PrepRequestOK
  <2>9. RowsAwaited'
    BY <1>1, <2>2, <2>6, <2>7, RowsKept DEF RowAwaits
  <2> QED
    BY <1>1, <2>6, <2>8, <2>9 DEF PrepInv, PrepShape, SweepGoesOn, HasVerdict
<1>3. CASE ~r.ok
  <2>1. asked' = asked \ {r} /\ UNCHANGED pairs
    BY <1>3 DEF LandColumns
  <2>2. PrepShape'
    BY <1>1, <2>1 DEF PrepInv, PrepShape, PrepRequestOK
  <2>3. RowsAwaited'
    BY <1>1, <2>1, RowsKept DEF RowAwaits
  <2> QED
    BY <1>1, <2>1, <2>2, <2>3 DEF PrepInv, SweepGoesOn, HasVerdict
<1> QED
  BY <1>2, <1>3

-----------------------------------------------------------------------------
LEMMA PrepInitInv == PrepInit => PrepInv
<1> SUFFICES ASSUME PrepInit PROVE PrepInv
  OBVIOUS
<1>1. DefaultStatus \in PairStatus
  BY DEF DefaultStatus, PairStatus
<1>2. PrepShape
  BY <1>1 DEF PrepInit, PrepShape
<1>3. RowsAwaited
  BY DEF PrepInit, RowsAwaited, RowAwaits, DefaultStatus
<1> QED
  BY <1>2, <1>3 DEF PrepInit, PrepInv, SweepGoesOn

LEMMA PrepStepInv == PrepInv /\ [PrepNext]_prepVars => PrepInv'
<1> SUFFICES ASSUME PrepInv, [PrepNext]_prepVars PROVE PrepInv'
  OBVIOUS
<1>1. CASE UNCHANGED prepVars
  BY <1>1 DEF prepVars, prepPage, PrepInv, PrepShape, PrepRequestOK, RowsAwaited, RowAwaits, SweepGoesOn, HasVerdict
<1>2. CASE PrepNext
  BY <1>2, PrepClicksStep, PairRowStep, CompareAllStep, ServeChangeStep, LandListsStep, LandSummaryStep, LandDdlStep,
     LandEnsureStep, LandColumnsStep DEF PrepNext
<1> QED
  BY <1>1, <1>2

(* PrepInv is an inductive invariant of the page.                          *)
THEOREM PrepAlways == PrepSpec => []PrepInv
  BY PrepInitInv, PrepStepInv, PTL DEF PrepSpec

(* Nothing waits for an answer nobody gives, and a sweep leaves no pair.   *)
THEOREM RowsSettleHolds == PrepSpec => []RowsSettle
<1>1. PrepInv => RowsSettle
  <2> SUFFICES ASSUME PrepInv PROVE RowsSettle
    OBVIOUS
  <2>1. ASSUME NEW t \in PrepTables
        PROVE  /\ pairs[t].comparing => \E r \in asked : r.tab = t /\ r.do = "compare"
               /\ pairs[t].ddlLoading => \E r \in asked : r.tab = t /\ r.do = "ddl"
               /\ pairs[t].syncing => \E r \in asked : r.tab = t /\ r.do = "ensure"
    BY DEF PrepInv, RowsAwaited, RowAwaits
  <2>2. workers = 0 => \A t \in swept : HasVerdict(pairs[t])
    BY DEF PrepInv, SweepGoesOn
  <2> QED
    BY <2>1, <2>2 DEF RowsSettle, HasVerdict
<1> QED
  BY <1>1, PrepAlways, PTL

-----------------------------------------------------------------------------
\* A set to which an element is added grows by one at most; one that has another instead does not.
LEMMA AddedSize ==
  ASSUME NEW S, IsFiniteSet(S), NEW x
  PROVE  /\ IsFiniteSet(S \cup {x}) /\ Cardinality(S) \in Nat /\ Cardinality(S \cup {x}) \in Nat
         /\ Cardinality(S \cup {x}) <= Cardinality(S) + 1
<1>1. Cardinality(S) \in Nat
  BY FS_CardinalityType
<1>2. IsFiniteSet(S \cup {x})
  BY FS_AddElement
<1>3. Cardinality(S \cup {x}) \in Nat
  BY <1>2, FS_CardinalityType
<1>4. x \in S => Cardinality(S \cup {x}) = Cardinality(S)
  BY FS_AddElement
<1>5. x \notin S => Cardinality(S \cup {x}) = Cardinality(S) + 1
  BY FS_AddElement
<1> QED
  BY <1>1, <1>2, <1>3, <1>4, <1>5

LEMMA ReplacedSize ==
  ASSUME NEW S, IsFiniteSet(S), NEW n \in Nat, Cardinality(S) <= n, NEW a \in S
  PROVE  /\ IsFiniteSet(S \ {a}) /\ Cardinality(S \ {a}) <= n
         /\ \A b : IsFiniteSet((S \ {a}) \cup {b}) /\ Cardinality((S \ {a}) \cup {b}) <= n
<1> DEFINE T == S \ {a}
<1>1. Cardinality(S) \in Nat
  BY FS_CardinalityType
<1>2. IsFiniteSet(T) /\ Cardinality(T) = Cardinality(S) - 1
  BY FS_RemoveElement
<1> HIDE DEF T
<1>3. ASSUME NEW b
      PROVE  IsFiniteSet(T \cup {b}) /\ Cardinality(T \cup {b}) <= n
  <2>1. /\ IsFiniteSet(T \cup {b}) /\ Cardinality(T) \in Nat /\ Cardinality(T \cup {b}) \in Nat
        /\ Cardinality(T \cup {b}) <= Cardinality(T) + 1
    BY <1>2, AddedSize
  <2> QED
    BY <1>1, <1>2, <2>1
<1>4. Cardinality(T) <= n
  BY <1>1, <1>2
<1> QED
  BY <1>2, <1>3, <1>4 DEF T

\* A set grows by one element only while the bound leaves room for it.
LEMMA AddedInBound ==
  ASSUME NEW S, IsFiniteSet(S), NEW n \in Nat, Cardinality(S) <= n, NEW x
  PROVE  LET T == IF Cardinality(S) < n THEN S \cup {x} ELSE S
         IN  IsFiniteSet(T) /\ Cardinality(T) <= n
<1>1. /\ IsFiniteSet(S \cup {x}) /\ Cardinality(S) \in Nat /\ Cardinality(S \cup {x}) \in Nat
      /\ Cardinality(S \cup {x}) <= Cardinality(S) + 1
  BY AddedSize
<1> QED
  BY <1>1

(* TargetPrep.  Every worker of "compare all" waits for one comparison, so  *)
(* that there are never more of those under way than workers.               *)
PrepKinds == {"tables", "compare", "ddl", "ensure", "columns"}
PrepCauses == {"click", "all", "level"}
PrepAskTyped(r) == {"do", "by"} \subseteq DOMAIN r /\ r.do \in PrepKinds /\ r.by \in PrepCauses
AskedTyped == IsFiniteSet(asked) /\ \A r \in asked : PrepAskTyped(r)
Sweepers == {r \in asked : r.by = "all"}
OneEach == workers \in 0..Concurrency /\ Cardinality(Sweepers) <= workers
PrepPages ==
  /\ targetCols \in [PrepSchemas -> [PrepTables -> SUBSET {"k", "x", "y"}]]
  /\ expandedKey \in PrepTables \cup {NoKey} /\ AskedTyped /\ OneEach

\* Requests of other kinds than those of a sweep do not count.
LEMMA SweepKept ==
  ASSUME PrepPages, UNCHANGED workers, AskedTyped', \A q \in asked' : q \in asked \/ q.by # "all"
  PROVE  OneEach'
<1>1. IsFiniteSet(Sweepers)
  BY FS_Subset DEF PrepPages, AskedTyped, Sweepers
<1>2. Sweepers' \subseteq Sweepers
  BY DEF Sweepers
<1>3. Cardinality(Sweepers') <= Cardinality(Sweepers) /\ Cardinality(Sweepers') \in Nat /\ Cardinality(Sweepers) \in Nat
  BY <1>1, <1>2, FS_Subset, FS_CardinalityType
<1> QED
  BY <1>3, PrepAssumption DEF PrepPages, OneEach

\* A question that is added, or put in the place of another.
LEMMA AskedAlso ==
  ASSUME AskedTyped, NEW more, IsFiniteSet(more), \A q \in more : PrepAskTyped(q), asked' \subseteq asked \cup more
  PROVE  AskedTyped'
<1>1. IsFiniteSet(asked \cup more)
  BY FS_Union DEF AskedTyped
<1>2. IsFiniteSet(asked')
  BY <1>1, FS_Subset
<1> QED
  BY <1>2 DEF AskedTyped, PrepAskTyped

LEMMA OneMoreAsked ==
  ASSUME PrepPages, UNCHANGED workers, NEW q, PrepAskTyped(q), q.by # "all", asked' \subseteq asked \cup {q}
  PROVE  AskedTyped' /\ OneEach'
<1>1. AskedTyped'
  <2>1. IsFiniteSet({q}) /\ \A x \in {q} : PrepAskTyped(x)
    BY FS_Singleton
  <2> QED
    BY <2>1, AskedAlso DEF PrepPages
<1>2. \A x \in asked' : x \in asked \/ x.by # "all"
  OBVIOUS
<1> QED
  BY <1>1, <1>2, SweepKept

LEMMA AskTyped ==
  ASSUME NEW ask, PrepAskTyped(ask), ask.by # "all", NEW others
  PROVE  \E q : Ask(ask, others) = others \cup {q} /\ PrepAskTyped(q) /\ q.by # "all"
<1> DEFINE q == Numbered(ask, others)
<1>1. ASSUME NEW n
      PROVE  /\ {"do", "by"} \subseteq DOMAIN Patched(ask, n)
             /\ Patched(ask, n).do = ask.do /\ Patched(ask, n).by = ask.by
  BY DEF Patched, PrepAskTyped
<1>2. {"do", "by"} \subseteq DOMAIN q /\ q.do = ask.do /\ q.by = ask.by
  BY <1>1 DEF Numbered
<1> HIDE DEF q
<1>3. PrepAskTyped(q) /\ q.by # "all"
  BY <1>2 DEF PrepAskTyped
<1>4. Ask(ask, others) = others \cup {q}
  BY DEF Ask, q
<1> QED
  BY <1>3, <1>4

LEMMA RequestAsked ==
  ASSUME PrepPages, UNCHANGED workers, NEW do \in PrepKinds, NEW t, NEW by \in {"click", "level"}, NEW open,
         asked' = Ask(Request(do, t, by, open), asked)
  PROVE  AskedTyped' /\ OneEach'
<1> DEFINE ask == Request(do, t, by, open)
<1>1. PrepAskTyped(ask) /\ ask.by # "all"
  BY DEF Request, PrepAskTyped, PrepCauses
<1> HIDE DEF ask
<1>2. PICK q : Ask(ask, asked) = asked \cup {q} /\ PrepAskTyped(q) /\ q.by # "all"
  BY <1>1, AskTyped
<1>3. asked' \subseteq asked \cup {q}
  BY <1>2 DEF ask
<1> QED
  BY <1>2, <1>3, OneMoreAsked

LEMMA SweepBegins ==
  ASSUME PrepShape, PrepPages, CompareAll PROVE AskedTyped' /\ OneEach'
<1>1. PICK first \in SUBSET Paired :
         /\ Cardinality(first) = (IF Cardinality(Paired) < Concurrency THEN Cardinality(Paired) ELSE Concurrency)
         /\ workers' = Cardinality(first)
         /\ asked' = asked \cup {Patched(Request("compare", t, "all", FALSE), [no |-> 0]) : t \in first}
  BY DEF CompareAll
<1> DEFINE q(t) == Patched(Request("compare", t, "all", FALSE), [no |-> 0])
           new == {q(t) : t \in first}
<1>2. IsFiniteSet(first) /\ Cardinality(first) \in Nat /\ Cardinality(first) <= Concurrency
  <2>1. IsFiniteSet(Paired)
    BY PrepAssumption, FS_Subset DEF PrepShape, Paired
  <2>2. IsFiniteSet(first) /\ Cardinality(first) \in Nat /\ Cardinality(Paired) \in Nat
    BY <2>1, FS_Subset, FS_CardinalityType
  <2> QED
    BY <1>1, <2>2, PrepAssumption
<1>3. ASSUME NEW t \in first PROVE PrepAskTyped(q(t)) /\ q(t).by = "all"
  <2> DEFINE ask == Request("compare", t, "all", FALSE)
  <2>1. {"do", "by"} \subseteq DOMAIN ask /\ ask.do = "compare" /\ ask.by = "all"
    BY DEF Request
  <2> HIDE DEF ask
  <2>2. {"do", "by"} \subseteq DOMAIN Patched(ask, [no |-> 0]) /\ Patched(ask, [no |-> 0]).do = "compare"
        /\ Patched(ask, [no |-> 0]).by = "all"
    BY <2>1 DEF Patched
  <2> QED
    BY <2>2 DEF PrepAskTyped, PrepKinds, PrepCauses, ask
<1>4. IsFiniteSet(new) /\ Cardinality(new) <= Cardinality(first)
  <2> DEFINE f == [t \in first |-> q(t)]
  <2>1. f \in Surjection(first, new)
    BY DEF Surjection
  <2> HIDE DEF f, new, q
  <2> QED
    BY <1>2, <2>1, FS_Surjection
<1>5. AskedTyped'
  <2>1. \A r \in new : PrepAskTyped(r)
    BY <1>3
  <2>2. asked' \subseteq asked \cup new
    BY <1>1
  <2> HIDE DEF new, q
  <2> QED
    BY <1>4, <2>1, <2>2, AskedAlso DEF PrepPages
<1>6. Sweepers = {}
  <2>1. workers = 0 /\ IsFiniteSet(Sweepers) /\ Cardinality(Sweepers) \in Nat
    BY FS_Subset, FS_CardinalityType DEF CompareAll, PrepPages, AskedTyped, Sweepers
  <2>2. Cardinality(Sweepers) = 0
    BY <2>1 DEF PrepPages, OneEach
  <2> QED
    BY <2>1, <2>2, FS_EmptySet
<1>7. Sweepers' = new
  <2>1. \A r \in new : r.by = "all"
    BY <1>3
  <2>2. asked' = asked \cup new
    BY <1>1
  <2> HIDE DEF new, q
  <2> QED
    BY <1>6, <2>1, <2>2 DEF Sweepers
<1> HIDE DEF new, q
<1>8. Cardinality(new) \in Nat
  BY <1>4, FS_CardinalityType
<1> QED
  BY <1>1, <1>2, <1>4, <1>5, <1>7, <1>8 DEF OneEach

LEMMA SummaryLands ==
  ASSUME PrepPages, NEW r \in asked, LandSummary(r) PROVE AskedTyped' /\ OneEach'
<1>1. PrepAskTyped(r) /\ r.do = "compare"
  BY DEF PrepPages, AskedTyped, LandSummary
<1>2. CASE r.by = "all"
  <2>1. /\ IsFiniteSet(Sweepers) /\ r \in Sweepers /\ Cardinality(Sweepers) \in Nat
        /\ IsFiniteSet(asked \ {r}) /\ IsFiniteSet(Sweepers \ {r}) /\ Cardinality(Sweepers \ {r}) = Cardinality(Sweepers) - 1
    BY <1>2, FS_Subset, FS_RemoveElement, FS_CardinalityType DEF PrepPages, AskedTyped, Sweepers
  <2>2. ASSUME NEW t, asked' = (asked \ {r}) \cup {[r EXCEPT !.tab = t]}, UNCHANGED workers
        PROVE  AskedTyped' /\ OneEach'
    <3> DEFINE q == [r EXCEPT !.tab = t]
    <3>1. PrepAskTyped(q) /\ q.by = "all"
      BY <1>1, <1>2 DEF PrepAskTyped
    <3> HIDE DEF q
    <3>2. asked' = (asked \ {r}) \cup {q}
      BY <2>2 DEF q
    <3>3. AskedTyped'
      <4>1. IsFiniteSet({q}) /\ \A x \in {q} : PrepAskTyped(x)
        BY <3>1, FS_Singleton
      <4>2. asked' \subseteq asked \cup {q}
        BY <3>2
      <4> QED
        BY <4>1, <4>2, AskedAlso DEF PrepPages
    <3>4. Sweepers' = (Sweepers \ {r}) \cup {q}
      BY <3>1, <3>2 DEF Sweepers
    <3>5. workers \in Nat /\ Cardinality(Sweepers) <= workers
      BY PrepAssumption DEF PrepPages, OneEach
    <3>6. Cardinality((Sweepers \ {r}) \cup {q}) <= workers
      BY <2>1, <3>5, ReplacedSize
    <3> QED
      BY <2>2, <3>3, <3>4, <3>6 DEF PrepPages, OneEach
  <2>3. ASSUME asked' = asked \ {r}, workers' = workers - 1
        PROVE  AskedTyped' /\ OneEach'
    <3>1. AskedTyped'
      BY <2>1, <2>3 DEF PrepPages, AskedTyped
    <3>2. Sweepers' = Sweepers \ {r}
      BY <2>3 DEF Sweepers
    <3>3. Cardinality(Sweepers \ {r}) \in Nat
      BY <2>1, FS_CardinalityType
    <3> QED
      BY <2>1, <2>3, <3>1, <3>2, <3>3, PrepAssumption DEF PrepPages, OneEach
  <2>4. PICK settled : AfterAll(r, settled)
    BY <1>2 DEF LandSummary
  <2>5. \/ \E t : asked' = (asked \ {r}) \cup {[r EXCEPT !.tab = t]} /\ UNCHANGED workers
        \/ asked' = asked \ {r} /\ workers' = workers - 1
    BY <2>4 DEF AfterAll
  <2> QED
    BY <2>2, <2>3, <2>5
<1>3. CASE r.by # "all"
  <2> DEFINE q == [r EXCEPT !.do = "ddl"]
  <2>1. PrepAskTyped(q) /\ q.by # "all"
    BY <1>1, <1>3 DEF PrepAskTyped, PrepKinds
  <2> HIDE DEF q
  <2>2. UNCHANGED workers /\ asked' \subseteq asked \cup {q}
    BY <1>3 DEF LandSummary, q
  <2> QED
    BY <2>1, <2>2, OneMoreAsked
<1> QED
  BY <1>2, <1>3

LEMMA ChangeServed ==
  ASSUME PrepPages, NEW r \in asked, ServeChange(r) PROVE PrepPages'
<1> DEFINE Target == [PrepSchemas -> [PrepTables -> SUBSET {"k", "x", "y"}]]
<1>1. PICK ok \in BOOLEAN, after \in SUBSET {"k", "x", "y"} :
         /\ targetCols' = [targetCols EXCEPT ![r.tgt][r.tab] = after]
         /\ asked' = (asked \ {r}) \cup
              {Patched(r, [ok |-> ok, created |-> targetCols[r.tgt][r.tab] = {} /\ after # {}])}
  BY DEF ServeChange
<1>2. targetCols' \in Target
  <2>1. targetCols \in Target
    BY DEF PrepPages
  <2> QED
    BY <1>1, <2>1
<1> DEFINE made == targetCols[r.tgt][r.tab] = {} /\ after # {}
           q == Patched(r, [ok |-> ok, created |-> made])
<1> HIDE DEF made
<1>3. PrepAskTyped(q) /\ q.by = r.by
  BY DEF PrepPages, AskedTyped, PrepAskTyped, Patched
<1>4. asked' = (asked \ {r}) \cup {q}
  BY <1>1 DEF made
<1> HIDE DEF q
<1>5. UNCHANGED <<expandedKey, workers>>
  BY DEF ServeChange, prepPage
<1>6. AskedTyped'
  <2>1. IsFiniteSet({q}) /\ (\A x \in {q} : PrepAskTyped(x)) /\ asked' \subseteq asked \cup {q}
    BY <1>3, <1>4, FS_Singleton
  <2> QED
    BY <2>1, AskedAlso DEF PrepPages
<1>7. OneEach'
  <2>1. CASE r.by # "all"
    BY <1>3, <1>4, <1>5, <1>6, <2>1, SweepKept
  <2>2. CASE r.by = "all"
    <3>1. IsFiniteSet(Sweepers) /\ r \in Sweepers
      BY <2>2, FS_Subset DEF PrepPages, AskedTyped, Sweepers
    <3>2. Sweepers' = (Sweepers \ {r}) \cup {q}
      BY <1>3, <1>4, <2>2 DEF Sweepers
    <3>3. workers \in Nat /\ Cardinality(Sweepers) <= workers
      BY PrepAssumption DEF PrepPages, OneEach
    <3>4. Cardinality((Sweepers \ {r}) \cup {q}) <= workers
      BY <3>1, <3>3, ReplacedSize
    <3> QED
      BY <1>5, <3>2, <3>4 DEF PrepPages, OneEach
  <2> QED
    BY <2>1, <2>2
<1> QED
  BY <1>2, <1>5, <1>6, <1>7 DEF PrepPages

LEMMA PrepPagesStep ==
  ASSUME PrepShape, PrepPages, [PrepNext]_prepVars PROVE PrepPages'
<1> USE DEF prepPage
<1>1. CASE UNCHANGED prepVars
  BY <1>1 DEF prepVars, PrepPages, AskedTyped, PrepAskTyped, OneEach, Sweepers
<1>2. ASSUME AskedTyped', OneEach', UNCHANGED targetCols, expandedKey' \in PrepTables \cup {NoKey} PROVE PrepPages'
  BY <1>2 DEF PrepPages
<1>3. expandedKey \in PrepTables \cup {NoKey}
  BY DEF PrepPages
<1>4. ASSUME NEW r, asked' = asked \ {r}, UNCHANGED workers PROVE AskedTyped' /\ OneEach'
  <2>1. AskedTyped'
    BY <1>4, FS_Subset DEF PrepPages, AskedTyped, PrepAskTyped
  <2> QED
    BY <1>4, <2>1, SweepKept
<1>5. ASSUME NEW side, NEW s, ChooseSchema(side, s) PROVE PrepPages'
  BY <1>5 DEF ChooseSchema, PrepPages, AskedTyped, PrepAskTyped, OneEach, Sweepers
<1>6. CASE LoadTables
  BY <1>2, <1>3, <1>6, RequestAsked DEF LoadTables, PrepKinds
<1>7. ASSUME NEW t \in PrepTables, ComparePair(t) PROVE PrepPages'
  BY <1>2, <1>3, <1>7, RequestAsked DEF ComparePair, PrepKinds
<1>8. ASSUME NEW t \in PrepTables, ExpandPair(t) PROVE PrepPages'
  <2>1. UNCHANGED <<targetCols, workers>> /\ expandedKey' \in {NoKey, t}
    BY <1>8 DEF ExpandPair
  <2>2. CASE asked' = Ask(Request("ddl", t, "click", FALSE), asked)
    BY <1>2, <2>1, <2>2, RequestAsked DEF PrepKinds
  <2>3. CASE UNCHANGED asked
    BY <1>2, <2>1, <2>3 DEF PrepPages, AskedTyped, PrepAskTyped, OneEach, Sweepers
  <2> QED
    BY <1>8, <2>2, <2>3 DEF ExpandPair
<1>9. ASSUME NEW t \in PrepTables, SyncPair(t) PROVE PrepPages'
  <2> DEFINE open == expandedKey = t
  <2>1. asked' = Ask(Request("ensure", t, "level", open), asked) /\ UNCHANGED <<targetCols, expandedKey, workers>>
    BY <1>9 DEF SyncPair
  <2> HIDE DEF open
  <2> QED
    BY <1>2, <1>3, <2>1, RequestAsked DEF PrepKinds
<1>10. CASE CompareAll
  BY <1>2, <1>3, <1>10, SweepBegins DEF CompareAll
<1>11. CASE DoSyncColumns
  BY <1>2, <1>3, <1>11, RequestAsked DEF DoSyncColumns, PrepKinds
<1>12. ASSUME NEW r \in asked, LandLists(r) PROVE PrepPages'
  BY <1>2, <1>3, <1>4, <1>12 DEF LandLists
<1>13. ASSUME NEW r \in asked, LandSummary(r) PROVE PrepPages'
  BY <1>2, <1>3, <1>13, SummaryLands DEF LandSummary
<1>14. ASSUME NEW r \in asked, LandDdl(r) PROVE PrepPages'
  BY <1>2, <1>3, <1>4, <1>14 DEF LandDdl
<1>15. ASSUME NEW r \in asked, LandEnsure(r) PROVE PrepPages'
  <2> DEFINE q == [no |-> r.no, do |-> "compare", tab |-> r.tab, by |-> "level", open |-> r.open, src |-> r.src, tgt |-> r.tgt]
  <2>1. PrepAskTyped(q) /\ q.by # "all"
    BY DEF PrepAskTyped, PrepKinds, PrepCauses
  <2>2. asked' = asked \ {r} \/ asked' = (asked \ {r}) \cup {q}
    BY <1>15 DEF LandEnsure
  <2> HIDE DEF q
  <2>3. UNCHANGED <<targetCols, expandedKey, workers>> /\ asked' \subseteq asked \cup {q}
    BY <1>15, <2>2 DEF LandEnsure
  <2> QED
    BY <1>2, <1>3, <2>1, <2>3, OneMoreAsked
<1>16. ASSUME NEW r \in asked, LandColumns(r) PROVE PrepPages'
  <2>1. UNCHANGED <<targetCols, expandedKey, workers>>
    BY <1>16 DEF LandColumns
  <2>2. CASE asked' = asked \ {r}
    BY <1>2, <1>3, <1>4, <2>1, <2>2
  <2>3. CASE r.ok
    <3> DEFINE again == [no |-> r.no, do |-> "ddl", tab |-> r.tab, by |-> "click", open |-> FALSE, src |-> r.src, tgt |-> r.tgt]
               ask == [x \in DOMAIN again \ {"no"} |-> IF x = "do" THEN "compare" ELSE again[x]]
    <3>1. asked' = Ask(ask, (asked \ {r}) \cup {again})
      BY <1>16, <2>3 DEF LandColumns
    <3>2. PrepAskTyped(again) /\ again.by # "all" /\ PrepAskTyped(ask) /\ ask.by # "all"
      BY DEF PrepAskTyped, PrepKinds, PrepCauses
    <3> HIDE DEF again, ask
    <3>3. PICK q : asked' = ((asked \ {r}) \cup {again}) \cup {q} /\ PrepAskTyped(q) /\ q.by # "all"
      BY <3>1, <3>2, AskTyped
    <3>4. IsFiniteSet({again, q})
      <4>1. IsFiniteSet({again}) /\ IsFiniteSet({again} \cup {q}) /\ {again, q} = {again} \cup {q}
        BY FS_Singleton, FS_AddElement
      <4> QED
        BY <4>1
    <3>5. AskedTyped'
      <4>1. \A x \in {again, q} : PrepAskTyped(x)
        BY <3>2, <3>3
      <4>2. asked' \subseteq asked \cup {again, q}
        BY <3>3
      <4> QED
        BY <3>4, <4>1, <4>2, AskedAlso DEF PrepPages
    <3>6. OneEach'
      BY <2>1, <3>2, <3>3, <3>5, SweepKept
    <3> QED
      BY <1>2, <1>3, <2>1, <3>5, <3>6
  <2> QED
    BY <1>16, <2>2, <2>3 DEF LandColumns
<1> QED
  BY <1>1, <1>5, <1>6, <1>7, <1>8, <1>9, <1>10, <1>11, <1>12, <1>13, <1>14, <1>15, <1>16, ChangeServed DEF PrepNext

PrepTyped == PrepInv /\ PrepPages

LEMMA PrepTypedInit == PrepInit => PrepTyped
<1> SUFFICES ASSUME PrepInit PROVE PrepPages
  BY PrepInitInv DEF PrepTyped
<1>1. AskedTyped
  BY FS_EmptySet DEF PrepInit, AskedTyped
<1>2. Sweepers = {} /\ Cardinality({}) = 0
  BY FS_EmptySet DEF PrepInit, Sweepers
<1> QED
  BY <1>1, <1>2, PrepAssumption DEF PrepInit, PrepPages, OneEach

LEMMA PrepTypedStep == PrepTyped /\ [PrepNext]_prepVars => PrepTyped'
  BY PrepStepInv, PrepPagesStep DEF PrepTyped, PrepInv

LEMMA PrepTypes == PrepTyped => PrepTypeOK
  BY DEF PrepTyped, PrepInv, PrepShape, PairStatus, PrepPages, AskedTyped, PrepAskTyped, PrepKinds, PrepCauses, OneEach, PrepTypeOK

(* TargetPrep: however the answers and the failures of the comparisons     *)
(* follow one another, "compare all" never counts a worker too many or too *)
(* few.                                                                    *)
THEOREM PrepTypeCorrect == PrepSpec => []PrepTypeOK
  BY PrepTypedInit, PrepTypedStep, PrepTypes, PTL DEF PrepSpec
=============================================================================
