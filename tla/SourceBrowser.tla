--------------------------- MODULE SourceBrowser ---------------------------
(***************************************************************************)
(* The browser of source tables that stands in for the dashboard while a   *)
(* schema migration has no objects, or while there is no migration at all  *)
(* (dashboard/SourceTablesBrowser.tsx), above the banner that loads the    *)
(* catalogue snapshot.  The list of tables comes from a query whose        *)
(* address follows the chosen schema: useApi keeps the rows of the schema  *)
(* before until the new answer lands, and after a failure.                 *)
(***************************************************************************)
EXTENDS Naturals, FiniteSets

CONSTANTS
  Catalogue,       \* the source: schema -> its tables
  MaxSend          \* bound: requests sent from the browser

ASSUME BrowserAssumption == MaxSend \in Nat

BrowserSchemas == DOMAIN Catalogue
NoSchema == "no schema"

VARIABLES
  createEnabled,   \* no migration yet: the button creates one
  sourceSchema, targetSchema, targetEdited,
  listed,          \* tablesApi.data: the schema it was asked for and its tables
  listing,         \* tablesApi.loading, error: "idle", "loading", "done", "error"
  found,           \* the search box: the tables whose name matches
  picked,          \* selected
  sending,         \* the request under way: creating or adding
  sends

browserVars ==
  <<createEnabled, sourceSchema, targetSchema, targetEdited, listed, listing, found, picked, sending, sends>>

AllTables == UNION {Catalogue[s] : s \in BrowserSchemas}
NoRequest == [st |-> "none"]
Tables == listed.tables
Filtered == Tables \cap found
SelectedSource == picked \cap Tables

BrowserTypeOK ==
  /\ sourceSchema \in BrowserSchemas \cup {NoSchema} /\ targetSchema \in BrowserSchemas \cup {NoSchema}
  /\ listed.tables \subseteq AllTables /\ listing \in {"idle", "loading", "done", "error"}
  /\ found \subseteq AllTables /\ picked \subseteq AllTables /\ sends \in 0..MaxSend

-----------------------------------------------------------------------------
\* The schema is chosen, by the effects on the configured one or by hand: the query moves to
\* it, the target follows until it was edited, the search and the selection are cleared.
ChooseSource(s) ==
  /\ s # sourceSchema /\ sourceSchema' = s
  /\ targetSchema' = IF targetEdited THEN targetSchema ELSE s
  /\ listing' = "loading" /\ found' = AllTables /\ picked' = {}
  /\ UNCHANGED <<createEnabled, targetEdited, listed, sending, sends>>

ChooseTarget(s) ==
  /\ createEnabled /\ targetSchema' = s /\ targetEdited' = TRUE
  /\ UNCHANGED <<createEnabled, sourceSchema, listed, listing, found, picked, sending, sends>>

ReloadTables ==
  /\ sourceSchema # NoSchema /\ listing' = "loading"
  /\ UNCHANGED <<createEnabled, sourceSchema, targetSchema, targetEdited, listed, found, picked, sending, sends>>

\* The answer, and the effect on tables: what is not in the new list is no longer selected.
LandTables ==
  /\ listing = "loading" /\ listing' = "done"
  /\ listed' = [schema |-> sourceSchema, tables |-> Catalogue[sourceSchema]]
  /\ picked' = picked \cap Catalogue[sourceSchema]
  /\ UNCHANGED <<createEnabled, sourceSchema, targetSchema, targetEdited, found, sending, sends>>

TablesFail ==
  /\ listing = "loading" /\ listing' = "error"
  /\ UNCHANGED <<createEnabled, sourceSchema, targetSchema, targetEdited, listed, found, picked, sending, sends>>

SearchTables(q) ==
  /\ q # found /\ found' = q
  /\ UNCHANGED <<createEnabled, sourceSchema, targetSchema, targetEdited, listed, listing, picked, sending, sends>>

\* The rows are drawn only with an answer for the chosen schema.
ToggleTable(t) ==
  /\ listing = "done" /\ t \in Filtered
  /\ picked' = IF t \in picked THEN picked \ {t} ELSE picked \cup {t}
  /\ UNCHANGED <<createEnabled, sourceSchema, targetSchema, targetEdited, listed, listing, found, sending, sends>>

\* The box in the head of the list is enabled by what is listed, drawn or not.
ToggleVisible ==
  /\ Filtered # {}
  /\ picked' = IF Filtered \subseteq picked THEN picked \ Filtered ELSE picked \cup Filtered
  /\ UNCHANGED <<createEnabled, sourceSchema, targetSchema, targetEdited, listed, listing, found, sending, sends>>

\* handleCreate, handleAddSelected: creating needs no table, adding does.
SendTables ==
  /\ sends < MaxSend /\ sends' = sends + 1
  /\ sending = NoRequest /\ sourceSchema # NoSchema /\ targetSchema # NoSchema
  /\ ~ createEnabled => SelectedSource # {}
  /\ sending' = [st |-> "sent", schema |-> sourceSchema, tables |-> SelectedSource, drawn |-> listing = "done"]
  /\ UNCHANGED <<createEnabled, sourceSchema, targetSchema, targetEdited, listed, listing, found, picked>>

\* Adding opens the pack dialog and clears what is selected by now; creating replaces the page.
SendAnswered(ok) ==
  /\ sending.st = "sent" /\ sending' = NoRequest
  /\ picked' = IF ok THEN {} ELSE picked
  /\ createEnabled' = (createEnabled /\ ~ ok)
  /\ UNCHANGED <<sourceSchema, targetSchema, targetEdited, listed, listing, found, sends>>

BrowserInit ==
  /\ createEnabled \in BOOLEAN /\ sourceSchema = NoSchema /\ targetSchema = NoSchema /\ targetEdited = FALSE
  /\ listed = [schema |-> NoSchema, tables |-> {}] /\ listing = "idle" /\ found = AllTables
  /\ picked = {} /\ sending = NoRequest /\ sends = 0

BrowserNext ==
  \/ \E s \in BrowserSchemas : ChooseSource(s) \/ ChooseTarget(s)
  \/ ReloadTables \/ LandTables \/ TablesFail \/ ToggleVisible \/ SendTables
  \/ \E q \in SUBSET AllTables : SearchTables(q)
  \/ \E t \in AllTables : ToggleTable(t)
  \/ \E ok \in BOOLEAN : SendAnswered(ok)

BrowserSpec == BrowserInit /\ [][BrowserNext]_browserVars

-----------------------------------------------------------------------------
\* A request sent from a list that is drawn names tables of its own schema
\* only, although the box in the head can tick the rows of the schema before.
SentBelongsToSchema ==
  sending.st = "sent" /\ sending.drawn => sending.tables \subseteq Catalogue[sending.schema]
=============================================================================
