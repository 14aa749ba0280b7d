---------------------------- MODULE TableWizard ----------------------------
(***************************************************************************)
(* The dialog that puts selected tables into a pack                        *)
(* (dashboard/TablePackModal.tsx) and the request it sends                 *)
(* (add_plan_items).  The dialog reads the keys and the supplemental       *)
(* logging of each table from the source once and checks them itself; the  *)
(* server reads them again.  For a CDC pack it also announces the list of  *)
(* tables Debezium will capture afterwards, from the pack the dashboard    *)
(* polled last, which may be that of the schema migration chosen before.   *)
(*                                                                         *)
(* The numbers (chunk size, workers, tablespace) pass through unread.      *)
(***************************************************************************)
EXTENDS Naturals, FiniteSets

CONSTANTS
  WizTables,       \* tables of the source schema
  WizInfos,        \* what the source says of a table: its key, the columns of its unique key, its columns, its logging
  MaxChange        \* bound: changes by others while the dialog is open

VARIABLES
  source,          \* the source: table -> info
  smGroup,         \* the CDC pack of the schema migration: one of its own, that of another, or none
  packTables,      \* group_tables of the two packs
  activeCdc,       \* the tables of either with a CDC migration that has not ended
  held,            \* tables with an item of the plan that has not ended
  changes,         \* changes by others so far
  mode, strategy, sequential, truncate,
  rows,            \* the tables property: what is selected in the dashboard
  infos,           \* tableInfos
  infoLoading,
  keys,            \* keyColumns
  seen,            \* cdcGroup as last read: whose it is, and its tables
  choice,          \* cdcPackAction
  payload          \* the request and what became of it

wizServer == <<source, smGroup, packTables, activeCdc, held, changes>>
wizForm == <<mode, strategy, sequential, truncate, choice>>
wizVars == <<wizServer, wizForm, rows, infos, infoLoading, keys, seen, payload>>

NoPayload == [st |-> "none"]
Busy == payload.st # "none"
Stage == strategy \in {"BULK_STAGE", "CDC_STAGE"}
Unread == [t \in {} |-> 0]
Failed == [key |-> "error", uk |-> {}, cols |-> {}, supp |-> "error"]
WizPacks == {"own", "other"}
WizColumns == UNION {i.cols \cup i.uk : i \in WizInfos}

Strategies(m) == IF m = "cdc" THEN {"CDC_DIRECT", "CDC_STAGE"} ELSE {"BULK_DIRECT", "BULK_STAGE"}
\* truncateLocked: the box is drawn ticked and disabled.
TruncateLocked == Stage \/ strategy = "CDC_DIRECT"

WizTypeOK ==
  /\ source \in [WizTables -> WizInfos] /\ smGroup \in WizPacks \cup {"none"} /\ held \subseteq WizTables
  /\ packTables \in [WizPacks -> SUBSET WizTables] /\ activeCdc \in [WizPacks -> SUBSET WizTables]
  /\ mode \in {"historical", "cdc"} /\ strategy \in Strategies(mode)
  /\ rows \subseteq WizTables /\ DOMAIN infos \subseteq WizTables
  /\ DOMAIN keys \subseteq WizTables /\ \A t \in DOMAIN keys : keys[t] \subseteq WizColumns
  /\ seen \in [st : {"loading", "error", "read"}, id : WizPacks \cup {"none"}, tables : SUBSET WizTables]
  /\ payload.st \in {"none", "sent", "accepted", "refused", "failed"}

-----------------------------------------------------------------------------
(* What the dialog works out from the pack it was given.                   *)

Others == seen.tables \ rows
\* shouldPruneCdcPack.
Prunes == mode = "cdc" /\ choice = "replace" /\ Others # {}
\* Mutant of Projected: the pack is announced as if nothing were replaced.
ProjectedAppended == seen.tables \cup rows

\* projectedIncludeList.
Projected == IF Prunes THEN rows ELSE seen.tables \cup rows

\* Mutant of FormOk: a table without a key passes.
FormOkWithoutKeys ==
  mode = "cdc" => \A t \in rows : t \in DOMAIN infos /\ infos[t].supp = "yes"

\* submit: what the dialog refuses by itself.
FormOk ==
  mode = "cdc" =>
    \A t \in rows :
      /\ t \in DOMAIN infos /\ infos[t].supp = "yes"
      /\ infos[t].key = "none" => t \in DOMAIN keys /\ keys[t] # {}
CanSubmit == ~ Busy /\ (mode = "cdc" => ~ infoLoading /\ seen.st = "read")

-----------------------------------------------------------------------------
(* The dialog.                                                             *)

\* The selection behind the dialog shrinks; the effect on tablesKey reads the tables anew.
RowsChange(rs) ==
  /\ rs # {} /\ rs # rows /\ rs \subseteq rows
  /\ rows' = rs /\ infoLoading' = (mode = "cdc")
  /\ UNCHANGED <<wizServer, wizForm, infos, keys, seen, payload>>

\* All answers are in: what was chosen by hand survives, be it nothing or a column the table has no
\* more; otherwise a unique key is taken over.
LandInfos(failed) ==
  /\ infoLoading /\ failed \subseteq rows
  /\ infoLoading' = FALSE
  /\ infos' = [t \in rows |-> IF t \in failed THEN Failed ELSE source[t]]
  /\ keys' = [t \in {u \in rows : infos'[u].key # "pk"} |-> IF t \in DOMAIN keys THEN keys[t] ELSE infos'[t].uk]
  /\ UNCHANGED <<wizServer, wizForm, rows, seen, payload>>

\* The boxes of a table that is drawn without a key are those of its columns.
ToggleKey(t, col) ==
  /\ mode = "cdc" /\ ~ infoLoading /\ t \in rows \cap DOMAIN infos /\ t \in DOMAIN keys
  /\ infos[t].key = "none" /\ col \in infos[t].cols
  /\ keys' = [keys EXCEPT ![t] = IF col \in @ THEN @ \ {col} ELSE @ \cup {col}]
  /\ UNCHANGED <<wizServer, wizForm, rows, infos, infoLoading, seen, payload>>

\* The effect on truncateLocked ticks the box for good.
ChooseStrategy(s) ==
  /\ s \in Strategies(mode) \ {strategy}
  /\ strategy' = s /\ truncate' = (truncate \/ s # "BULK_DIRECT")
  /\ UNCHANGED <<wizServer, mode, sequential, choice, rows, infos, infoLoading, keys, seen, payload>>

ToggleOptions ==
  /\ \/ ~ TruncateLocked /\ truncate' = ~ truncate /\ UNCHANGED sequential
     \/ mode # "cdc" /\ sequential' = ~ sequential /\ UNCHANGED truncate
  /\ UNCHANGED <<wizServer, mode, strategy, choice, rows, infos, infoLoading, keys, seen, payload>>

\* The two buttons are drawn while the pack holds other tables.
ChooseAction(c) ==
  /\ mode = "cdc" /\ ~ Busy /\ Others # {} /\ choice' = c /\ choice' # choice
  /\ UNCHANGED <<wizServer, mode, strategy, sequential, truncate, rows, infos, infoLoading, keys, seen, payload>>

\* The dashboard's polls of the pack; a pack once read is kept while a later one is under way or fails.
PollPack(st) ==
  /\ mode = "cdc"
  /\ \/ st = "read" /\ seen' = [st |-> "read", id |-> smGroup, tables |-> IF smGroup = "none" THEN {} ELSE packTables[smGroup]]
     \/ st # "read" /\ seen.id = "none" /\ seen' = [seen EXCEPT !.st = st]
  /\ UNCHANGED <<wizServer, wizForm, rows, infos, infoLoading, keys, payload>>

\* key_columns are sent for a table that was drawn without a key.
KeysSent == [t \in rows |-> IF mode = "cdc" /\ infos[t].key = "none" THEN keys[t] ELSE {}]
SubmitWizard ==
  /\ CanSubmit /\ FormOk
  /\ payload' = [st |-> "sent", rows |-> rows, strategy |-> strategy, prune |-> Prunes,
                 truncate |-> TruncateLocked \/ truncate, keys |-> KeysSent, id |-> seen.id,
                 infos |-> [t \in rows |-> IF t \in DOMAIN infos THEN infos[t] ELSE Failed],
                 seen |-> seen.tables, projected |-> Projected]
  /\ UNCHANGED <<wizServer, wizForm, rows, infos, infoLoading, keys, seen>>

-----------------------------------------------------------------------------
(* add_plan_items: all tables or none, in one transaction.                 *)

Cdc(p) == p.strategy \in {"CDC_DIRECT", "CDC_STAGE"}
\* _resolve_cdc_connector_group_id: the pack of the schema migration, else the one the request names,
\* else a new one.
JoinedPack(p) == IF smGroup # "none" THEN smGroup ELSE IF p.id # "none" THEN p.id ELSE "own"
PackMismatch(p) == smGroup # "none" /\ p.id \notin {"none", smGroup}
\* Columns chosen by hand are for a table without a key, and must be there.
KeyAccepted(t, p) ==
  IF p.keys[t] = {} THEN source[t].key # "none"
                    ELSE source[t].key = "none" /\ p.keys[t] \subseteq source[t].cols
AddAccepted(p) ==
  /\ p.strategy \in {"BULK_STAGE", "CDC_STAGE"} => p.truncate
  /\ p.rows \cap held = {}
  /\ Cdc(p) =>
       /\ ~ PackMismatch(p)
       /\ p.rows \cap activeCdc[JoinedPack(p)] = {}
       /\ \A t \in p.rows : source[t].supp = "yes" /\ KeyAccepted(t, p)
       /\ p.prune => (packTables[JoinedPack(p)] \ p.rows) \cap activeCdc[JoinedPack(p)] = {}

RowsAdded(p) ==
  /\ held' = held \cup p.rows
  /\ IF Cdc(p)
       THEN /\ smGroup' = JoinedPack(p)
            /\ packTables' = [packTables EXCEPT ![JoinedPack(p)] = (IF p.prune THEN {} ELSE @) \cup p.rows]
            /\ activeCdc' = [activeCdc EXCEPT ![JoinedPack(p)] = @ \cup p.rows]
       ELSE UNCHANGED <<smGroup, packTables, activeCdc>>

\* The database may fail before the commit, and the answer may be lost after it.
ServeWizard ==
  /\ payload.st = "sent"
  /\ \/ /\ AddAccepted(payload) /\ RowsAdded(payload)
        /\ \E st \in {"accepted", "failed"} : payload' = [payload EXCEPT !.st = st]
     \/ /\ ~ AddAccepted(payload) /\ payload' = [payload EXCEPT !.st = "refused"]
        /\ UNCHANGED <<smGroup, packTables, activeCdc, held>>
     \/ /\ payload' = [payload EXCEPT !.st = "failed"]
        /\ UNCHANGED <<smGroup, packTables, activeCdc, held>>
  /\ UNCHANGED <<source, changes, wizForm, rows, infos, infoLoading, keys, seen>>

\* Accepted: the dialog closes.  Otherwise it shows why, and can be submitted again.
WizardAnswered ==
  /\ payload.st \in {"accepted", "refused", "failed"} /\ payload' = NoPayload
  /\ rows' = IF payload.st = "accepted" THEN {} ELSE rows
  /\ UNCHANGED <<wizServer, wizForm, infos, infoLoading, keys, seen>>

\* Others: a source table is altered; an item of the plan ends; a table joins the pack of the schema
\* migration, or that of the other, or leaves one of them.
Elsewhere ==
  /\ changes < MaxChange /\ changes' = changes + 1
  /\ \/ \E t \in WizTables, i \in WizInfos : source' = [source EXCEPT ![t] = i] /\ UNCHANGED <<smGroup, packTables, activeCdc, held>>
     \/ \E t \in held :
          /\ held' = held \ {t} /\ activeCdc' = [g \in WizPacks |-> IF g = smGroup THEN activeCdc[g] \ {t} ELSE activeCdc[g]]
          /\ UNCHANGED <<source, smGroup, packTables>>
     \/ \E t \in WizTables \ held, g \in WizPacks :
          /\ t \notin activeCdc[g]
          /\ \/ smGroup \in {"none", g} /\ g = "own" /\ smGroup' = g /\ held' = held \cup {t}
             \/ g = "other" /\ UNCHANGED <<smGroup, held>>
          /\ packTables' = [packTables EXCEPT ![g] = @ \cup {t}] /\ activeCdc' = [activeCdc EXCEPT ![g] = @ \cup {t}]
          /\ UNCHANGED source
     \/ \E g \in WizPacks : \E t \in packTables[g] \ activeCdc[g] :
          packTables' = [packTables EXCEPT ![g] = @ \ {t}] /\ UNCHANGED <<source, smGroup, activeCdc, held>>
  /\ UNCHANGED <<wizForm, rows, infos, infoLoading, keys, seen, payload>>

\* setPackMode(initialMode) when the dialog opens.  The dashboard may still hold the pack of the schema
\* migration that was chosen before.
WizInit ==
  /\ source \in [WizTables -> WizInfos] /\ packTables \in [WizPacks -> SUBSET WizTables]
  /\ smGroup \in {"none", "own"} /\ (smGroup = "none" => packTables["own"] = {})
  /\ activeCdc \in [WizPacks -> SUBSET WizTables] /\ (\A g \in WizPacks : activeCdc[g] \subseteq packTables[g])
  /\ held = activeCdc["own"] /\ changes = 0
  /\ mode \in {"historical", "cdc"} /\ strategy = (IF mode = "cdc" THEN "CDC_DIRECT" ELSE "BULK_DIRECT")
  /\ sequential = TRUE /\ truncate = TRUE /\ choice = "append"
  /\ rows = WizTables /\ infos = Unread /\ infoLoading = (mode = "cdc") /\ keys = Unread
  /\ seen \in {[st |-> "loading", id |-> "none", tables |-> {}], [st |-> "read", id |-> "other", tables |-> packTables["other"]]}
  /\ payload = NoPayload

WizNext ==
  /\ rows # {}
  /\ \/ \E rs \in SUBSET WizTables : RowsChange(rs)
     \/ \E fs \in SUBSET WizTables : LandInfos(fs)
     \/ \E t \in WizTables, col \in WizColumns : ToggleKey(t, col)
     \/ \E s \in {"BULK_DIRECT", "BULK_STAGE", "CDC_DIRECT", "CDC_STAGE"} : ChooseStrategy(s)
     \/ \E c \in {"append", "replace"} : ChooseAction(c)
     \/ ToggleOptions \/ (\E st \in {"read", "loading", "error"} : PollPack(st))
     \/ SubmitWizard \/ ServeWizard \/ WizardAnswered \/ Elsewhere

WizSpec == WizInit /\ [][WizNext]_wizVars

-----------------------------------------------------------------------------
(* Properties.                                                             *)

\* What others did since the dialog looked, or what it cannot know of: the items of the plan.
TakenSince ==
  \/ payload.rows \cap held # {}
  \/ Cdc(payload) /\ payload.rows \cap activeCdc[JoinedPack(payload)] # {}
  \/ Cdc(payload) /\ payload.prune /\ (packTables[JoinedPack(payload)] \ payload.rows) \cap activeCdc[JoinedPack(payload)] # {}
Overtaken == TakenSince \/ (Cdc(payload) /\ \E t \in payload.rows : source[t] # payload.infos[t])

\* What the dialog keeps from before: a column of a key that the table had lost when it was read anew,
\* and the pack of the schema migration that was chosen before.
KeptTooLong ==
  /\ Cdc(payload)
  /\ \/ payload.id = "other" /\ smGroup # payload.id
     \/ \E t \in payload.rows : ~(payload.keys[t] \subseteq payload.infos[t].cols)

\* A form that the dialog lets through is refused only for what others did since
\* it looked, for the items of the plan, and for the two things it keeps too
\* long: its own checks of the keys and the logging, and the boxes it locks,
\* leave the server nothing else to refuse.
RefusedOnlyIfOvertaken ==
  [][payload.st = "sent" /\ payload'.st = "refused" => Overtaken \/ KeptTooLong]_wizVars

\* The list of tables the dialog announces is the pack Debezium is configured
\* from afterwards, when nobody changed the pack between the poll and the request,
\* be it the pack of another schema migration that the request joins.
IncludeListAsShown ==
  [][payload.st = "sent" /\ payload'.st = "accepted" /\ Cdc(payload) /\ payload.seen = packTables[JoinedPack(payload)]
       => packTables'[smGroup'] = payload.projected]_wizVars
=============================================================================
