---------------------------- MODULE ObjectDrawer ----------------------------
(***************************************************************************)
(* The drawer of one object of the schema (dashboard/ObjectDrawer.tsx,     *)
(* DiffSections.tsx): what it offers to put into the DDL pack, the sync of *)
(* a table's columns, and the differences it draws.  It decides on three   *)
(* copies of the catalogue snapshot: the row of the list it was opened     *)
(* from, the answer about its detail, and the diff of a migration's table.  *)
(* Two programs say what a difference is: services/ddl_compare.py finds    *)
(* them, DiffSections.tsx draws them.                                      *)
(*                                                                         *)
(* An object is its type, where it is, which sides of it are INVALID, and  *)
(* the set of aspects in which the two sides differ.                       *)
(***************************************************************************)
EXTENDS Naturals

CONSTANTS
  DrawerTypes,     \* types of objects, by the names of the page
  MaxOpen,         \* bound: times the drawer is opened
  MaxClick,        \* bound: clicks in it
  MaxDdl           \* bound: changes others make in the target, snapshots others load

\* The types of objects the page knows, by its own names.
ObjectType == {"TABLE", "INDEX", "MVIEW", "SEQUENCE", "VIEW", "PACKAGE", "PROCEDURE", "FUNCTION", "TRIGGER",
               "TYPE", "SYNONYM", "GRANT", "DBLINK", "JOB"}

ASSUME DrawerAssumption == DrawerTypes \subseteq ObjectType

VARIABLES
  object,          \* the object as it is: [type, at, invalid, differs]
  snapshot,        \* the same in the latest DDL snapshot
  rowId,           \* what the row of the list is of: a migration or a DDL object
  openedNote,      \* the drawer: "closed", or the note of the row it was opened from
  objDetail,       \* detail.data
  detailAsk,       \* the request of the detail: NoObjectDetail, Asked or the answer on its way
  applyBusy,       \* the drawer's request to the DDL pack is under way
  syncing,         \* runColumnSync: "none" or the step it waits for
  orphan,          \* the same of a drawer that was closed meanwhile (bound: one)
  packed,          \* ddl_apply_jobs made from the drawer
  synced,          \* history: this drawer's sync of the columns went well to its end
  drawerCounts     \* [open, click, ddl], for the bounds

drawerPage == <<openedNote, objDetail, detailAsk>>
drawerVars == <<object, snapshot, rowId, drawerPage, applyBusy, syncing, orphan, packed, synced, drawerCounts>>

BothSides == {"source", "target"}
NoObjectDetail == [kind |-> "none"]
Asked == [kind |-> "asked"]
NoOffer == [act |-> "none", type |-> "none", warned |-> FALSE]
\* _DDL_TYPE_MAP, _FE_TYPE_TO_ORACLE, _resolve_object_type: the names that differ.
OracleType(ty) == CASE ty = "MVIEW" -> "MATERIALIZED VIEW" [] ty = "DBLINK" -> "DATABASE LINK" [] OTHER -> ty
\* REPLACEABLE_TYPES.
ReplaceableTypes == {"VIEW", "PROCEDURE", "FUNCTION", "PACKAGE", "TRIGGER", "TYPE", "SYNONYM"}

-----------------------------------------------------------------------------
(* The server: the snapshot and what is read from it.                      *)

\* compare_object: the aspects that are compared.
Compared(ty) ==
  CASE ty = "TABLE" -> {"cols_missing", "cols_extra", "cols_type", "indexes", "constraints", "triggers"}
    [] ty = "VIEW" -> {"sql", "status"}
    [] ty = "MVIEW" -> {"sql", "refresh"}
    [] ty = "PACKAGE" -> {"spec", "body"}
    [] ty \in {"PROCEDURE", "FUNCTION"} -> {"code"}
    [] ty = "TYPE" -> {"source", "body"}
    [] ty = "TRIGGER" -> {"fields", "when", "body"}
    [] ty = "INDEX" -> {"fields", "cols"}
    [] ty = "JOB" -> {"fields", "action"}
    [] OTHER -> {"fields"}

\* Fields of the metadata that are not, and that the drawer draws all the same.
Uncompared(ty) == IF "fields" \in Compared(ty) THEN {"other"} ELSE {}

\* load_catalog: match_status of the snapshot.
MatchStatus(o) == CASE o.at = BothSides -> IF o.differs \cap Compared(o.type) = {} THEN "MATCH" ELSE "DIFF"
                    [] o.at = {"source"} -> "MISSING"
                    [] OTHER -> "EXTRA"

\* _build_ddl_object: the beginning of the row's note.
Note(o) ==
  CASE o.invalid = BothSides -> "invalid_both"
    [] o.invalid = {"source"} -> "invalid_source"
    [] o.invalid = {"target"} -> "invalid_target"
    [] OTHER -> MatchStatus(o)

\* get_object_detail: of a DDL object, or of a migration with the diff of its table.
DetailNow == [kind |-> IF rowId = "ddl" THEN "ddl" ELSE "migration", type |-> OracleType(snapshot.type),
              match |-> MatchStatus(snapshot), invalid |-> snapshot.invalid, differs |-> snapshot.differs]

-----------------------------------------------------------------------------
(* What the drawer offers.                                                 *)

Offer(act, ty, loses) == [act |-> act, type |-> ty, warned |-> act = "recreate" /\ ty \in loses]
ByMatch(match, ty, loses) ==
  CASE match = "MISSING" -> Offer("create_missing", ty, loses)
    [] match = "DIFF" -> Offer(IF ty \in ReplaceableTypes THEN "sync_diff" ELSE "recreate", ty, loses)
    [] OTHER -> NoOffer

\* detectApplyAction: from the detail of a DDL object, from that of a migration, or from the note.
DetailOffer(d) ==
  LET byMatch == ByMatch(d.match, d.type, {"TABLE", "MATERIALIZED VIEW"})
  IN  IF byMatch = NoOffer /\ d.kind = "ddl" /\ d.invalid = {"target"}
        THEN Offer("recreate", d.type, {"TABLE", "MATERIALIZED VIEW"}) ELSE byMatch
\* Mutant of NoteOffer: the types that hold data are named as Oracle does.
NoteOfferByOracle(note) ==
  IF note = "invalid_target" THEN Offer("recreate", object.type, {"TABLE", "MATERIALIZED VIEW"})
                             ELSE ByMatch(note, object.type, {"TABLE", "MATERIALIZED VIEW"})

NoteOffer(note) ==
  IF note = "invalid_target" THEN Offer("recreate", object.type, {"TABLE", "MVIEW"})
                             ELSE ByMatch(note, object.type, {"TABLE", "MVIEW"})
ApplyOffer == IF objDetail # NoObjectDetail THEN DetailOffer(objDetail)
              ELSE IF rowId = "ddl" THEN NoteOffer(openedNote) ELSE NoOffer

\* tableColumnDiffDetail.
ColumnAspects == {"cols_missing", "cols_extra", "cols_type"}
CanSyncColumns == objDetail # NoObjectDetail /\ objDetail.type = "TABLE" /\ objDetail.differs \cap ColumnAspects # {}

-----------------------------------------------------------------------------
(* What it draws: the aspects that carry the mark of a difference.         *)

TableDiff(ds) == ds \cap {"cols_missing", "cols_extra", "cols_type", "indexes", "constraints", "triggers"}
\* Mutant of SqlTextDiff: how a materialized view is refreshed is not drawn.
SqlTextOnly(ds) == ds \cap {"sql", "status"}

SqlTextDiff(ds) == ds \cap {"sql", "status", "refresh"}
PackageDiff(ds) == ds \cap {"spec", "body"}
CodeDiff(ds) == ds \cap {"code"}
TypeDiff(ds) == ds \cap {"source", "body"}
\* It compares the fields again, and more of them than the server does.
FieldDiff(ds) == ds \cap {"fields", "other"}
TriggerDiff(ds) == FieldDiff(ds) \cup (ds \cap {"when", "body"})
IndexDiff(ds) == FieldDiff(ds) \cup (ds \cap {"cols"})
JobDiff(ds) == FieldDiff(ds) \cup (ds \cap {"action"})

\* DiffSections.
Marked(ty, ds) ==
  CASE ty = "TABLE" -> TableDiff(ds)
    [] ty \in {"VIEW", "MATERIALIZED VIEW"} -> SqlTextDiff(ds)
    [] ty = "PACKAGE" -> PackageDiff(ds)
    [] ty \in {"PROCEDURE", "FUNCTION"} -> CodeDiff(ds)
    [] ty = "TRIGGER" -> TriggerDiff(ds)
    [] ty = "INDEX" -> IndexDiff(ds)
    [] ty = "TYPE" -> TypeDiff(ds)
    [] ty \in {"SEQUENCE", "SYNONYM", "DATABASE LINK"} -> FieldDiff(ds)
    [] ty = "JOB" -> JobDiff(ds)
    [] OTHER -> ds

\* StatusBanner; the block of a migration leaves a diff that matches out.
Banner(d) == CASE d.match = "DIFF" -> "differs" [] d.match = "MATCH" /\ d.kind = "ddl" -> "same" [] OTHER -> "none"

DrawerTypeOK ==
  /\ \A o \in {object, snapshot} : o.type \in DrawerTypes /\ o.at \subseteq BothSides /\ o.invalid \subseteq o.at
  /\ detailAsk.kind \in {"none", "asked", "ddl", "migration"} /\ objDetail.kind # "asked"
  /\ {syncing, orphan} \subseteq {"none", "columns", "snapshot"} /\ applyBusy \in BOOLEAN
  /\ \A j \in packed : j.act \in {"create_missing", "sync_diff", "recreate"} /\ j.st \in {"DRAFT", "DONE"}

-----------------------------------------------------------------------------
Count(k, max) == drawerCounts[k] < max /\ drawerCounts' = [drawerCounts EXCEPT ![k] = @ + 1]

\* handleOpen: the row as the list shows it; the detail is asked for when the drawer is mounted.
Open ==
  /\ openedNote = "closed" /\ Count("open", MaxOpen)
  /\ openedNote' = Note(snapshot) /\ objDetail' = NoObjectDetail /\ detailAsk' = Asked
  /\ UNCHANGED <<object, snapshot, rowId, applyBusy, syncing, orphan, packed, synced>>

\* onClose, or a table added to a pack: the request is aborted; a sync goes on, and nobody sees its end.
Close ==
  /\ openedNote # "closed" /\ openedNote' = "closed"
  /\ objDetail' = NoObjectDetail /\ detailAsk' = NoObjectDetail /\ applyBusy' = FALSE /\ synced' = FALSE
  /\ IF syncing = "none" THEN UNCHANGED <<syncing, orphan>>
                         ELSE orphan = "none" /\ orphan' = syncing /\ syncing' = "none"
  /\ UNCHANGED <<object, snapshot, rowId, packed, drawerCounts>>

ServeObjectDetail ==
  /\ detailAsk = Asked /\ detailAsk' = DetailNow
  /\ UNCHANGED <<object, snapshot, rowId, openedNote, objDetail, applyBusy, syncing, orphan, packed, synced, drawerCounts>>

\* useApi: the answer, or an error, after which the detail before it stays.
LandObjectDetail ==
  /\ detailAsk \notin {NoObjectDetail, Asked} /\ objDetail' = detailAsk /\ detailAsk' = NoObjectDetail
  /\ UNCHANGED <<object, snapshot, rowId, openedNote, applyBusy, syncing, orphan, packed, synced, drawerCounts>>
DetailFails ==
  /\ detailAsk # NoObjectDetail /\ detailAsk' = NoObjectDetail /\ synced' = FALSE
  /\ UNCHANGED <<object, snapshot, rowId, openedNote, objDetail, applyBusy, syncing, orphan, packed, drawerCounts>>

\* submit_jobs: an object with an active job is skipped.
PackAfter(offer) ==
  IF \E j \in packed : j.st = "DRAFT" THEN packed
  ELSE packed \cup {[act |-> offer.act, type |-> OracleType(offer.type), warned |-> offer.warned, st |-> "DRAFT"]}

\* runApply, confirmed: the job is there whether or not the answer comes; the detail is not asked again.
RunApply ==
  /\ openedNote # "closed" /\ ~applyBusy /\ ApplyOffer # NoOffer /\ Count("click", MaxClick)
  /\ applyBusy' = TRUE /\ packed' = PackAfter(ApplyOffer)
  /\ UNCHANGED <<object, snapshot, rowId, drawerPage, syncing, orphan, synced>>
ApplyAnswered ==
  /\ applyBusy /\ applyBusy' = FALSE
  /\ UNCHANGED <<object, snapshot, rowId, drawerPage, syncing, orphan, packed, synced, drawerCounts>>

\* runColumnSync, confirmed: first the columns, then the snapshot, then the detail.
RunColumnSync ==
  /\ openedNote # "closed" /\ syncing = "none" /\ CanSyncColumns /\ Count("click", MaxClick)
  /\ syncing' = "columns" /\ synced' = FALSE
  /\ UNCHANGED <<object, snapshot, rowId, drawerPage, applyBusy, orphan, packed>>

\* sync_target_columns: what cannot be added or dropped is reported; types are left as they are.
ColumnsLevelled(kept) == [object EXCEPT !.differs = (@ \ {"cols_missing", "cols_extra"}) \cup kept]
ColumnsSynced ==
  /\ syncing = "columns" /\ syncing' = "snapshot"
  /\ \E kept \in SUBSET (object.differs \cap {"cols_missing", "cols_extra"}) :
       object' = ColumnsLevelled(kept) /\ synced' = (kept = {})
  /\ UNCHANGED <<snapshot, rowId, drawerPage, applyBusy, orphan, packed, drawerCounts>>
ColumnsFail ==
  /\ syncing = "columns" /\ syncing' = "none"
  /\ UNCHANGED <<object, snapshot, rowId, drawerPage, applyBusy, orphan, packed, synced, drawerCounts>>

\* loadCatalogSnapshot; its failure is added to the feedback and the detail is asked for all the same.
SnapshotAnswered ==
  /\ syncing = "snapshot" /\ syncing' = "none" /\ detailAsk' = Asked
  /\ \/ snapshot' = object /\ UNCHANGED synced
     \/ synced' = FALSE /\ UNCHANGED snapshot
  /\ UNCHANGED <<object, rowId, openedNote, objDetail, applyBusy, orphan, packed, drawerCounts>>

\* The sync of a drawer that was closed goes on, and the detail it asks for is nobody's.
OrphanGoesOn ==
  /\ \/ /\ orphan = "columns" /\ orphan' = "snapshot" /\ UNCHANGED snapshot
        /\ \E kept \in SUBSET (object.differs \cap {"cols_missing", "cols_extra"}) : object' = ColumnsLevelled(kept)
     \/ /\ orphan = "snapshot" /\ orphan' = "none" /\ snapshot' \in {snapshot, object} /\ UNCHANGED object
     \/ /\ orphan = "columns" /\ orphan' = "none" /\ UNCHANGED <<object, snapshot>>
  /\ UNCHANGED <<rowId, drawerPage, applyBusy, syncing, packed, synced, drawerCounts>>

\* The worker; others change the target, or load a snapshot.
JobDone ==
  /\ \E j \in packed : j.st = "DRAFT" /\ packed' = (packed \ {j}) \cup {[j EXCEPT !.st = "DONE"]}
  /\ object' \in {object, [object EXCEPT !.at = BothSides, !.differs = {}, !.invalid = @ \ {"target"}]}
  /\ UNCHANGED <<snapshot, rowId, drawerPage, applyBusy, syncing, orphan, synced, drawerCounts>>
TargetChanges ==
  /\ object.at = BothSides /\ Count("ddl", MaxDdl) /\ synced' = FALSE
  /\ \E a \in Compared(object.type) \ object.differs : object' = [object EXCEPT !.differs = @ \cup {a}]
  /\ UNCHANGED <<snapshot, rowId, drawerPage, applyBusy, syncing, orphan, packed>>
OthersLoadSnapshot ==
  /\ snapshot # object /\ Count("ddl", MaxDdl) /\ snapshot' = object
  /\ UNCHANGED <<object, rowId, drawerPage, applyBusy, syncing, orphan, packed, synced>>

-----------------------------------------------------------------------------
\* An object that is on one side only has nothing to differ in.
ObjectsOf(ty) ==
  {[type |-> ty, at |-> BothSides, invalid |-> i, differs |-> d] :
     i \in SUBSET BothSides, d \in SUBSET (Compared(ty) \cup Uncompared(ty))}
  \cup {[type |-> ty, at |-> {s}, invalid |-> i, differs |-> {}] : s \in BothSides, i \in SUBSET BothSides}

DrawerInit ==
  /\ \E ty \in DrawerTypes :
       /\ object \in {o \in ObjectsOf(ty) : o.invalid \subseteq o.at}
       /\ rowId \in IF ty = "TABLE" THEN {"ddl", "migration"} ELSE {"ddl"}
  /\ snapshot = object
  /\ openedNote = "closed" /\ objDetail = NoObjectDetail /\ detailAsk = NoObjectDetail
  /\ applyBusy = FALSE /\ syncing = "none" /\ orphan = "none" /\ packed = {} /\ synced = FALSE
  /\ drawerCounts = [open |-> 0, click |-> 0, ddl |-> 0]

DrawerNext ==
  \/ Open \/ Close \/ ServeObjectDetail \/ LandObjectDetail \/ DetailFails
  \/ RunApply \/ ApplyAnswered \/ RunColumnSync \/ ColumnsSynced \/ ColumnsFail \/ SnapshotAnswered \/ OrphanGoesOn
  \/ JobDone \/ TargetChanges \/ OthersLoadSnapshot

DrawerSpec == DrawerInit /\ [][DrawerNext]_drawerVars

-----------------------------------------------------------------------------
(* Properties.                                                             *)

\* An object that holds data is dropped and created again only after the operator has confirmed the
\* loss of its data, whichever of the three copies the offer was made from, with the names of types
\* the page uses or with Oracle's.
DataLossConfirmed ==
  \A j \in packed : (j.act = "recreate" /\ j.type \in {"TABLE", "MATERIALIZED VIEW"}) => j.warned

\* Every difference the server has found is marked in the drawer, and an object under the banner of a
\* difference has a mark: what DiffSections.tsx draws of each type is no less than what ddl_compare.py
\* compares, of a migration's table as of a DDL object.
DiffIsDrawn ==
  objDetail # NoObjectDetail =>
    /\ objDetail.differs \cap Compared(object.type) \subseteq Marked(objDetail.type, objDetail.differs)
    /\ Banner(objDetail) = "differs" => Marked(objDetail.type, objDetail.differs) # {}

\* After a sync of the columns that went well to its end, the drawer has no missing and no extra column
\* left to show: the detail is read after the snapshot, and the snapshot after the columns.
SyncIsShown ==
  (synced /\ syncing = "none" /\ detailAsk = NoObjectDetail /\ objDetail # NoObjectDetail)
    => objDetail.differs \cap {"cols_missing", "cols_extra"} = {}
=============================================================================
