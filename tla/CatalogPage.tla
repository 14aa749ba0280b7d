---------------------------- MODULE CatalogPage ----------------------------
(***************************************************************************)
(* The DDL catalog (components/DDLCatalog, routes/catalog.py): a snapshot  *)
(* of a pair of schemas, the list of its objects by tabs, the comparison   *)
(* and the levelling of one object.  The list is read by types, each       *)
(* answered in its own time, and whatever set of answers is complete last  *)
(* is what the page holds.  A comparison works on the snapshot, the tab    *)
(* and the schemas of the render it was clicked in.                        *)
(***************************************************************************)
EXTENDS Naturals, Sequences, FiniteSets, Functions

CONSTANTS
  CatPairs,        \* pairs of a source and a target schema
  CatObjects,      \* object -> its type
  FirstCatalogs,   \* pair -> object -> how the target compares, as it may begin
  MaxCatClick,     \* bound: clicks that ask
  MaxSnapshots,    \* bound: loads
  MaxCatTrouble    \* bound: requests that fail, changes of the target from elsewhere, choices of other schemas

CatStatus == {"MATCH", "DIFF", "MISSING", "EXTRA"}
ASSUME CatAssumption == FirstCatalogs \subseteq [CatPairs -> [DOMAIN CatObjects -> CatStatus]]

VARIABLES
  actual,          \* pair -> object -> MATCH, DIFF, MISSING (in the target) or EXTRA (not in the source)
  snapshots,       \* ddl_snapshots: [of, status], status as in ddl_compare_results
  catPair,         \* srcSchema and tgtSchema
  snapshotId,      \* snapshotId, 0: null
  catLoading,      \* loading, the button's
  activeTab,       \* activeTab
  allObjects,      \* allObjects: object -> match_status
  typeLoading,     \* currentTypeLoading
  syncBusy,        \* syncBusy
  calls,           \* requests under way, with the number of the click or effect they come from
  ticket,          \* the last of those numbers
  catTrouble,      \* how many of those there have been
  stray,           \* history: the list was last put by answers overtaken, of an old render or incomplete
  told             \* history: objects that this page has had compared for the snapshot's own schemas

catServer == <<actual, snapshots>>
catList == <<allObjects, typeLoading, stray>>
catVars == <<catServer, catPair, snapshotId, catLoading, activeTab, catList, syncBusy, calls, ticket, catTrouble, told>>

TabOf(type) == CASE type = "TABLE" -> "tables" [] type \in {"VIEW", "MATERIALIZED VIEW"} -> "views"
                 [] type \in {"FUNCTION", "PROCEDURE", "PACKAGE"} -> "code" [] OTHER -> "other"
CatTabs == {"tables", "views", "code", "other"}
TypesOf(g) == {type \in Range(CatObjects) : TabOf(type) = g}
Listed(p) == {o \in DOMAIN CatObjects : actual[p][o] # "EXTRA"}
OfType(list, type) == Restrict(list, {o \in DOMAIN list : CatObjects[o] = type})
NothingListed == [o \in {} |-> "none"]
Joined(f, g) == [o \in DOMAIN f \cup DOMAIN g |-> IF o \in DOMAIN f THEN f[o] ELSE g[o]]

\* groupObjects: a tab has the objects of its own types, whatever the page holds.
Held(g) == {o \in DOMAIN allObjects : TabOf(CatObjects[o]) = g}

\* The rows of the tabs, with the type their buttons name.  A materialized view is called MVIEW.
StatusFilter(f, o) == f = "ALL" \/ allObjects[o] = (IF f = "OK" THEN "MATCH" ELSE f)
TablesTab(f) == {[obj |-> o, type |-> "TABLE"] : o \in {x \in Held("tables") : StatusFilter(f, x)}}
ViewsTab == {[obj |-> o, type |-> IF CatObjects[o] = "VIEW" THEN "VIEW" ELSE "MVIEW"] : o \in Held("views")}
CodeTab(f) == {[obj |-> o, type |-> CatObjects[o]] : o \in {x \in Held("code") : f \in {"ALL", CatObjects[x]}}}
OtherTab == {[obj |-> o, type |-> CatObjects[o]] : o \in Held("other")}

TableFilters == {"ALL", "OK", "DIFF", "MISSING"}
CodeFilters == {"ALL", "FUNCTION", "PROCEDURE", "PACKAGE"}
CatRows ==
  IF typeLoading THEN {}
  ELSE CASE activeTab = "tables" -> UNION {TablesTab(f) : f \in TableFilters}
         [] activeTab = "views"  -> ViewsTab
         [] activeTab = "code"   -> UNION {CodeTab(f) : f \in CodeFilters}
         [] OTHER                -> OtherTab

\* What the row of an object offers.
ObjectActions(type, status) == {"compare"}
  \cup (IF status = "MISSING" THEN {"create"} ELSE {})
  \cup (IF status = "DIFF" THEN (CASE type = "TABLE" -> {"sync_cols", "sync_objects"}
                                  [] type = "SEQUENCE" -> {"sync"} [] OTHER -> {"create"}) ELSE {})

\* list_objects takes MVIEW for what it stands for; the handlers of one object do not know it.
TypeKnown(type) == type # "MVIEW"

CatTypeOK ==
  /\ \A p \in CatPairs : actual[p] \in [DOMAIN CatObjects -> CatStatus]
  /\ catPair \in CatPairs /\ snapshotId \in 0..Len(snapshots) /\ activeTab \in CatTabs
  /\ DOMAIN allObjects \cup syncBusy \cup told \subseteq DOMAIN CatObjects
  /\ {catLoading, typeLoading, stray} \subseteq BOOLEAN
  /\ \A c \in calls : c.n \in 1..ticket /\ c.kind \in {"load", "list", "compare", "create", "sync", "sync_cols", "sync_objects"}

-----------------------------------------------------------------------------
\* A request of the present render.  got is what it was answered with.
CatCall(kind, o) == [kind |-> kind, obj |-> o, type |-> "none", of |-> catPair, snap |-> snapshotId, tab |-> activeTab,
                     n |-> ticket + 1, got |-> NothingListed, left |-> {}, st |-> "sent", fresh |-> TRUE]

\* loadObjectsForTab, for a snapshot and a tab: a set of reads, one for each type.
ListCall(s, g, fresh) == [CatCall("list", "none") EXCEPT !.snap = s, !.tab = g, !.left = TypesOf(g), !.fresh = fresh]
Becomes(c, d) == calls' = (calls \ {c}) \cup {d}
Clicks == ticket < MaxCatClick
Trouble == catTrouble < MaxCatTrouble /\ catTrouble' = catTrouble + 1

ClickLoad ==
  /\ ~catLoading /\ Clicks /\ catLoading' = TRUE /\ calls' = calls \cup {CatCall("load", "none")} /\ ticket' = ticket + 1
  /\ UNCHANGED <<catServer, catPair, snapshotId, activeTab, catList, syncBusy, catTrouble, told>>

\* load_catalog, one transaction.
LoadServed(c) ==
  /\ c \in calls /\ c.kind = "load" /\ c.st = "sent" /\ Len(snapshots) < MaxSnapshots
  /\ snapshots' = Append(snapshots, [of |-> c.of, status |-> Restrict(actual[c.of], Listed(c.of))])
  /\ Becomes(c, [c EXCEPT !.snap = Len(snapshots) + 1, !.st = "ok"])
  /\ UNCHANGED <<actual, catPair, snapshotId, catLoading, activeTab, catList, syncBusy, ticket, catTrouble, told>>

\* The answer empties the list and goes to the tables; the effect on snapshotId and the tab asks for them.
LoadLands(c) ==
  /\ c \in calls /\ c.kind = "load" /\ c.st \in {"ok", "failed"} /\ catLoading' = FALSE
  /\ IF c.st = "ok"
       THEN /\ snapshotId' = c.snap /\ activeTab' = "tables" /\ allObjects' = NothingListed /\ typeLoading' = TRUE
            /\ Becomes(c, ListCall(c.snap, "tables", TRUE)) /\ ticket' = ticket + 1 /\ told' = {} /\ UNCHANGED stray
       ELSE calls' = calls \ {c} /\ UNCHANGED <<snapshotId, activeTab, catList, ticket, told>>
  /\ UNCHANGED <<catServer, catPair, syncBusy, catTrouble>>

ChooseObjectTab(g) ==
  /\ snapshotId # 0 /\ g # activeTab /\ Clicks /\ activeTab' = g /\ typeLoading' = TRUE
  /\ calls' = calls \cup {ListCall(snapshotId, g, TRUE)} /\ ticket' = ticket + 1
  /\ UNCHANGED <<catServer, catPair, snapshotId, catLoading, allObjects, stray, syncBusy, catTrouble, told>>

\* The schemas are chosen anew; the snapshot that is shown stays.
ChooseSchemas(p) ==
  /\ p # catPair /\ catPair' = p /\ Trouble
  /\ UNCHANGED <<catServer, snapshotId, catLoading, activeTab, catList, syncBusy, calls, ticket, told>>

\* list_objects of one type; a read that is refused counts as an empty one.
ListServed(c, type) ==
  /\ c \in calls /\ type \in c.left
  /\ Becomes(c, [c EXCEPT !.left = @ \ {type}, !.got = Joined(OfType(snapshots[c.snap].status, type), @)])
  /\ UNCHANGED <<catServer, catPair, snapshotId, catLoading, activeTab, catList, syncBusy, ticket, catTrouble, told>>
ListRefused(c, type) ==
  /\ c \in calls /\ type \in c.left /\ Trouble
  /\ Becomes(c, [c EXCEPT !.left = @ \ {type}, !.fresh = FALSE])
  /\ UNCHANGED <<catServer, catPair, snapshotId, catLoading, activeTab, catList, syncBusy, ticket, told>>

\* What was asked before what has ended is overtaken.
Without(c) == {[d EXCEPT !.fresh = @ /\ d.n > c.n] : d \in calls \ {c}}

\* Promise.all: the list is what these answers say, for whatever tab and snapshot they were asked.
ListLands(c) ==
  /\ c \in calls /\ c.kind = "list" /\ c.left = {}
  /\ allObjects' = c.got /\ typeLoading' = FALSE /\ stray' = ~c.fresh
  /\ calls' = Without(c)
  /\ UNCHANGED <<catServer, catPair, snapshotId, catLoading, activeTab, syncBusy, ticket, catTrouble, told>>

\* A read that gets no answer at all: the list stays as it was.
ListFails(c) ==
  /\ c \in calls /\ c.left # {} /\ Trouble
  /\ typeLoading' = FALSE /\ stray' = TRUE /\ calls' = Without(c)
  /\ UNCHANGED <<catServer, catPair, snapshotId, catLoading, activeTab, allObjects, syncBusy, ticket, told>>

-----------------------------------------------------------------------------
(* One object.                                                             *)

\* doCompare, doSync: for the schemas that are chosen, be the rows those of others.
ClickObject(r, a) ==
  /\ a \in ObjectActions(r.type, allObjects[r.obj]) /\ r.obj \notin syncBusy /\ Clicks /\ ticket' = ticket + 1
  /\ syncBusy' = syncBusy \cup {r.obj} /\ calls' = calls \cup {[CatCall(a, r.obj) EXCEPT !.type = r.type]}
  /\ UNCHANGED <<catServer, catPair, snapshotId, catLoading, activeTab, catList, catTrouble, told>>

OwnSchemas(c) == c.snap = snapshotId /\ snapshots[c.snap].of = c.of

\* sync_object_to_target, or the routes of target_prep for a table: they create or replace, and may leave
\* differences; the two that level a table do not create it.
SyncServed(c, now) ==
  /\ c \in calls /\ c.kind \in {"create", "sync", "sync_cols", "sync_objects"} /\ c.st = "sent"
  /\ LET was == actual[c.of][c.obj]
         works == /\ TypeKnown(c.type) /\ was # "EXTRA"
                  /\ was = "MISSING" => c.kind \notin {"sync_cols", "sync_objects"}
     IN now \in IF works THEN {"MATCH", "DIFF"} \cup {was} ELSE {was}
  /\ actual' = [actual EXCEPT ![c.of][c.obj] = now]
  /\ told' = CASE OwnSchemas(c) -> told \cup {c.obj}
                [] c.snap # snapshotId /\ snapshots[snapshotId].of = c.of -> told \ {c.obj} [] OTHER -> told
  /\ Becomes(c, [c EXCEPT !.st = "ok"])
  /\ UNCHANGED <<snapshots, catPair, snapshotId, catLoading, activeTab, catList, syncBusy, ticket, catTrouble>>

\* then doCompare, whatever the answer says; finally clears the mark that doCompare has just set.
SyncLands(c) ==
  /\ c \in calls /\ c.kind \in {"create", "sync", "sync_cols", "sync_objects"} /\ c.st = "ok"
  /\ Becomes(c, [c EXCEPT !.kind = "compare", !.st = "sent"]) /\ syncBusy' = syncBusy \ {c.obj}
  /\ UNCHANGED <<catServer, catPair, snapshotId, catLoading, activeTab, catList, ticket, catTrouble, told>>

\* compare_objects asks Oracle for the object by name.  All but a sequence are described, empty, even when
\* there is no such object: a load tells it MISSING, a comparison tells that it differs.
ComparedAs(o, was) == IF was \in {"MISSING", "EXTRA"} /\ CatObjects[o] # "SEQUENCE" THEN "DIFF" ELSE was
CompareServed(c) ==
  /\ c \in calls /\ c.kind = "compare" /\ c.st = "sent"
  /\ snapshots' = IF TypeKnown(c.type)
                    THEN [snapshots EXCEPT ![c.snap].status[c.obj] = ComparedAs(c.obj, actual[c.of][c.obj])]
                    ELSE snapshots
  /\ told' = CASE c.snap # snapshotId -> told [] OwnSchemas(c) -> told \cup {c.obj} [] OTHER -> told \ {c.obj}
  /\ Becomes(c, [c EXCEPT !.st = "ok"])
  /\ UNCHANGED <<actual, catPair, snapshotId, catLoading, activeTab, catList, syncBusy, ticket, catTrouble>>

\* then the list is read again, of the tab and the snapshot of the click.
CompareLands(c) ==
  /\ c \in calls /\ c.kind = "compare" /\ c.st = "ok"
  /\ Becomes(c, ListCall(c.snap, c.tab, c.snap = snapshotId /\ c.tab = activeTab)) /\ typeLoading' = TRUE
  /\ ticket' = ticket + 1 /\ syncBusy' = syncBusy \ {c.obj}
  /\ UNCHANGED <<catServer, catPair, snapshotId, catLoading, activeTab, allObjects, stray, catTrouble, told>>

\* A request that fails, or whose answer is lost: the load says so, the others say nothing and only clear
\* the mark; the list is not read again, and what was read before may be old.
CatRequestFails(c) ==
  /\ c \in calls /\ c.kind # "list" /\ c.st \in {"sent", "ok"} /\ Trouble
  /\ LET unread == c.kind = "compare" /\ c.st = "ok" IN
     /\ IF c.kind = "load" THEN Becomes(c, [c EXCEPT !.st = "failed"]) /\ UNCHANGED <<syncBusy, told>>
        ELSE /\ calls' = {[d EXCEPT !.fresh = @ /\ ~unread] : d \in calls \ {c}}
             /\ syncBusy' = syncBusy \ {c.obj} /\ told' = told \ {c.obj}
     /\ stray' = (stray \/ unread)
  /\ UNCHANGED <<catServer, catPair, snapshotId, catLoading, activeTab, allObjects, typeLoading, ticket>>

CatTargetChanges(p, o, st) ==
  /\ Trouble /\ {st, actual[p][o]} \in {{"MATCH", "DIFF"}, {"DIFF", "MISSING"}}
  /\ actual' = [actual EXCEPT ![p][o] = st] /\ told' = told \ {o}
  /\ UNCHANGED <<snapshots, catPair, snapshotId, catLoading, activeTab, catList, syncBusy, calls, ticket>>

-----------------------------------------------------------------------------
CatInit ==
  /\ actual \in FirstCatalogs /\ snapshots = <<>> /\ catPair \in CatPairs /\ snapshotId = 0 /\ catLoading = FALSE
  /\ activeTab = "tables" /\ allObjects = NothingListed /\ typeLoading = FALSE /\ syncBusy = {} /\ calls = {}
  /\ ticket = 0 /\ catTrouble = 0 /\ stray = FALSE /\ told = {}

CatNext ==
  \/ ClickLoad \/ \E g \in CatTabs : ChooseObjectTab(g)
  \/ \E p \in CatPairs : ChooseSchemas(p) \/ \E o \in DOMAIN CatObjects, st \in {"MATCH", "DIFF", "MISSING"} : CatTargetChanges(p, o, st)
  \/ \E r \in CatRows, a \in {"compare", "create", "sync", "sync_cols", "sync_objects"} : ClickObject(r, a)
  \/ \E c \in calls : \/ LoadServed(c) \/ LoadLands(c) \/ ListLands(c) \/ ListFails(c) \/ SyncLands(c) \/ CompareServed(c)
                      \/ CompareLands(c) \/ CatRequestFails(c)
                      \/ \E type \in c.left : ListServed(c, type) \/ ListRefused(c, type)
                      \/ \E now \in CatStatus : SyncServed(c, now)

CatSpec == CatInit /\ [][CatNext]_catVars

-----------------------------------------------------------------------------
\* Once nothing is under way, and unless the list was last put by answers that were overtaken, asked by an
\* old render or incomplete: the page lists every object of the tab and of the snapshot, with the status the
\* server keeps; and that of an object which was levelled or compared, for the schemas of the snapshot,
\* tells how the target is.  A materialized view is never compared, and an object that is not in the target
\* is told to differ from it.
CatalogIsShown ==
  (calls = {} /\ snapshotId # 0 /\ ~stray) =>
     LET shot == snapshots[snapshotId] IN
     /\ {<<r.obj, allObjects[r.obj]>> : r \in CatRows} =
          {<<o, shot.status[o]>> : o \in {x \in DOMAIN shot.status : TabOf(CatObjects[x]) = activeTab}}
     /\ \A r \in CatRows : (r.obj \in told /\ TypeKnown(r.type)) =>
                             allObjects[r.obj] = ComparedAs(r.obj, actual[shot.of][r.obj])
=============================================================================
