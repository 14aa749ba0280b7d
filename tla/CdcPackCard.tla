---------------------------- MODULE CdcPackCard ----------------------------
(***************************************************************************)
(* The page of the CDC packs (components/ConnectorGroupsPanel): the list   *)
(* of packs, the card of the one that is opened (its tables, its rows of   *)
(* the queue, how Kafka Connect's configuration compares), and what can be *)
(* done from the card.  A card is requested when a pack is opened, and the *)
(* one before it is kept until an answer lands, whatever pack it is of.    *)
(* The life of a pack itself is ConnectorGroup.                            *)
(***************************************************************************)
EXTENDS Naturals, FiniteSets

CONSTANTS
  PackTables,      \* the packs, each with the tables that may be in it: a function
  MaxCardAsk,      \* bound: requests for a card under way
  MaxCompare,      \* bound: requests for a comparison under way
  MaxOrder,        \* bound: clicks that change something
  MaxElsewhere     \* bound: what others do meanwhile

ASSUME CardAssumption ==
  {MaxCardAsk, MaxCompare} \subseteq Nat /\ PackTables = [g \in DOMAIN PackTables |-> PackTables[g]]

Packs == DOMAIN PackTables
AnyTable == UNION {PackTables[g] : g \in Packs}
NoPack == "no pack"

VARIABLES
  members,         \* group_tables; {} of a pack that was deleted
  working,         \* tables with a migration that has not ended
  captured,        \* table.include.list in Kafka Connect
  existing,        \* connector_groups
  listedPacks,     \* groups: the packs on the page
  expanded,        \* the pack that is opened
  card,            \* detail: the pack it is of, its tables and those with an active migration
  cardAsks,        \* requests for a card: for which pack, whether the pack was just opened, the answer
  compared,        \* syncStatus: the pack it is of, missing and extra tables
  compareAsks,     \* requests for a comparison, with the answer
  orders,          \* removals, synchronisations and deletions under way
  ordered,         \* how many there were
  elsewhere        \* what others did so far

packServer == <<members, working, captured, existing>>
cardVars == <<packServer, listedPacks, expanded, card, cardAsks, compared, compareAsks, orders, ordered, elsewhere>>

NoCard == [group |-> NoPack, tables |-> {}, working |-> {}]
NotCompared == [group |-> NoPack, missing |-> {}, extra |-> {}]
Pending == [st |-> "pending"]

CardTypeOK ==
  /\ existing \subseteq Packs /\ listedPacks \subseteq Packs /\ expanded \in Packs \cup {NoPack}
  /\ \A g \in Packs : members[g] \cup working[g] \cup captured[g] \subseteq PackTables[g]
  /\ card.group \in Packs \cup {NoPack} /\ compared.group \in Packs \cup {NoPack}
  /\ Cardinality(cardAsks) <= MaxCardAsk /\ Cardinality(compareAsks) <= MaxCompare

-----------------------------------------------------------------------------
(* The card and its parts.                                                 *)

\* At the bound a request is one whose answer never comes.
AskCard(g, how) ==
  cardAsks' = IF Cardinality(cardAsks) < MaxCardAsk
                THEN cardAsks \cup {[group |-> g, how |-> how, answer |-> Pending]} ELSE cardAsks

\* loadDebeziumSyncStatus forgets the comparison that is shown.
Compare(g) ==
  /\ compared' = NotCompared
  /\ compareAsks' = IF Cardinality(compareAsks) < MaxCompare
                      THEN compareAsks \cup {[group |-> g, answer |-> Pending]} ELSE compareAsks

\* toggleExpand: the card of the pack before stays until the answer lands.
ToggleExpand(g) ==
  /\ g \in listedPacks
  /\ IF expanded = g
       THEN expanded' = NoPack /\ card' = NoCard /\ compared' = NotCompared /\ UNCHANGED cardAsks
       ELSE expanded' = g /\ AskCard(g, "opened") /\ UNCHANGED <<card, compared>>
  /\ UNCHANGED <<packServer, listedPacks, compareAsks, orders, ordered, elsewhere>>

ServeCard(a) ==
  /\ a \in cardAsks /\ a.answer = Pending
  /\ cardAsks' = (cardAsks \ {a}) \cup {[a EXCEPT !.answer =
        IF a.group \in existing THEN [st |-> "ok", tables |-> members[a.group], working |-> working[a.group]]
                                ELSE [st |-> "gone"]]}
  /\ UNCHANGED <<packServer, listedPacks, expanded, card, compared, compareAsks, orders, ordered, elsewhere>>

\* A failure clears the card, but for the request after a removal, which only reports it.
LandCard(a) ==
  /\ a \in cardAsks /\ a.answer # Pending
  /\ cardAsks' = cardAsks \ {a}
  /\ card' = IF a.answer.st = "ok" THEN [group |-> a.group, tables |-> a.answer.tables, working |-> a.answer.working]
             ELSE IF a.how = "removed" THEN card ELSE NoCard
  /\ IF a.how = "opened" /\ a.answer.st = "ok" THEN Compare(a.group) ELSE UNCHANGED <<compared, compareAsks>>
  /\ UNCHANGED <<packServer, listedPacks, expanded, orders, ordered, elsewhere>>

\* get_debezium_sync_status; of a pack that is gone there is none.
ServeCompare(a) ==
  /\ a \in compareAsks /\ a.answer = Pending
  /\ compareAsks' = (compareAsks \ {a}) \cup {[a EXCEPT !.answer =
        IF a.group \in existing
          THEN [group |-> a.group, missing |-> members[a.group] \ captured[a.group],
                extra |-> captured[a.group] \ members[a.group]]
          ELSE NotCompared]}
  /\ UNCHANGED <<packServer, listedPacks, expanded, card, cardAsks, compared, orders, ordered, elsewhere>>

LandCompare(a) ==
  /\ a \in compareAsks /\ a.answer # Pending
  /\ compareAsks' = compareAsks \ {a}
  /\ compared' = a.answer
  /\ UNCHANGED <<packServer, listedPacks, expanded, card, cardAsks, orders, ordered, elsewhere>>

\* load: every ten seconds.
LoadPacks ==
  /\ listedPacks' = existing
  /\ UNCHANGED <<packServer, expanded, card, cardAsks, compared, compareAsks, orders, ordered, elsewhere>>

\* The effect on sseEvents: the opened card is requested and compared again.
SeePackEvent ==
  /\ listedPacks' = existing
  /\ IF expanded # NoPack THEN AskCard(expanded, "event") /\ Compare(expanded)
                          ELSE UNCHANGED <<cardAsks, compared, compareAsks>>
  /\ UNCHANGED <<packServer, expanded, card, orders, ordered, elsewhere>>

-----------------------------------------------------------------------------
(* The buttons.                                                            *)

\* The card is drawn under the opened pack, and only if it is of that pack.
Drawn(g) == g \in listedPacks /\ expanded = g /\ card.group = g
\* tableMigrationMap and hasActive: a table at work cannot be removed.
Removable == card.tables \ card.working

\* opened: what the closure of the click knows as expanded.
Order(o) ==
  /\ ordered < MaxOrder /\ ordered' = ordered + 1
  /\ orders' = orders \cup {[o EXCEPT !.n = ordered]}
  /\ UNCHANGED <<packServer, listedPacks, expanded, card, cardAsks, compared, compareAsks, elsewhere>>

RemoveTableClicked(g, tb) ==
  /\ Drawn(g) /\ tb \in Removable
  /\ Order([kind |-> "remove", group |-> g, table |-> tb, opened |-> expanded, st |-> "sent", n |-> 0])
SyncClicked(g) ==
  /\ Drawn(g)
  /\ Order([kind |-> "sync", group |-> g, table |-> "none", opened |-> expanded, st |-> "sent", n |-> 0])
DeleteClicked(g) ==
  /\ g \in listedPacks
  /\ Order([kind |-> "delete", group |-> g, table |-> "none", opened |-> expanded, st |-> "sent", n |-> 0])

Answer(o, st) == orders' = (orders \ {o}) \cup {[o EXCEPT !.st = st]}

\* remove_table, then refresh_connector_tables, which may fail.
ServeRemove(o) ==
  /\ o \in orders /\ o.kind = "remove" /\ o.st = "sent"
  /\ IF o.table \in working[o.group]
       THEN Answer(o, "refused") /\ UNCHANGED <<members, captured>>
       ELSE /\ members' = [members EXCEPT ![o.group] = @ \ {o.table}]
            /\ captured' \in {captured, [captured EXCEPT ![o.group] = members'[o.group]]}
            /\ Answer(o, "ok")
  /\ UNCHANGED <<working, existing, listedPacks, expanded, card, cardAsks, compared, compareAsks, ordered, elsewhere>>

ServeSync(o) ==
  /\ o \in orders /\ o.kind = "sync" /\ o.st = "sent"
  /\ \/ captured' = [captured EXCEPT ![o.group] = members[o.group]] /\ Answer(o, "ok")
     \/ UNCHANGED captured /\ Answer(o, "refused")
  /\ UNCHANGED <<members, working, existing, listedPacks, expanded, card, cardAsks, compared, compareAsks, ordered, elsewhere>>

\* delete_group: an active migration needs force.
ServeDelete(o) ==
  /\ o \in orders /\ o.kind \in {"delete", "force"} /\ o.st = "sent"
  /\ IF o.group \notin existing \/ (o.kind = "delete" /\ working[o.group] # {})
       THEN Answer(o, IF o.group \in existing THEN "active" ELSE "refused") /\ UNCHANGED <<members, working, captured, existing>>
       ELSE /\ existing' = existing \ {o.group} /\ Answer(o, "ok")
            /\ members' = [members EXCEPT ![o.group] = {}]
            /\ working' = [working EXCEPT ![o.group] = {}]
            /\ captured' = [captured EXCEPT ![o.group] = {}]
  /\ UNCHANGED <<listedPacks, expanded, card, cardAsks, compared, compareAsks, ordered, elsewhere>>

\* reloadGroupDetail, or the card alone after a removal; a deletion closes what was open at the
\* click, even if another pack has been opened since.
OrderAnswered(o) ==
  /\ o \in orders /\ o.st \in {"ok", "refused"} /\ orders' = orders \ {o}
  /\ listedPacks' = IF o.st = "ok" THEN existing ELSE listedPacks
  /\ IF o.st = "ok" /\ (o.kind = "remove" \/ (o.kind = "sync" /\ o.opened = o.group))
       THEN AskCard(o.group, IF o.kind = "remove" THEN "removed" ELSE "reload") ELSE UNCHANGED cardAsks
  /\ IF o.st = "ok" /\ o.kind = "sync" THEN Compare(o.group) ELSE UNCHANGED <<compared, compareAsks>>
  /\ IF o.st = "ok" /\ o.kind \in {"delete", "force"} /\ o.opened = o.group
       THEN expanded' = NoPack /\ card' = NoCard ELSE UNCHANGED <<expanded, card>>
  /\ UNCHANGED <<packServer, ordered, elsewhere>>

\* The operator is asked whether to force the deletion.
ForceAnswered(o, yes) ==
  /\ o \in orders /\ o.st = "active"
  /\ orders' = (orders \ {o}) \cup IF yes THEN {[o EXCEPT !.kind = "force", !.st = "sent"]} ELSE {}
  /\ UNCHANGED <<packServer, listedPacks, expanded, card, cardAsks, compared, compareAsks, ordered, elsewhere>>

-----------------------------------------------------------------------------
\* The schema migration's page: a table joins with its migration; migrations end.
PackChanges ==
  /\ elsewhere < MaxElsewhere /\ elsewhere' = elsewhere + 1
  /\ \E g \in existing, tb \in AnyTable :
       \/ /\ tb \in PackTables[g] \ working[g]
          /\ members' = [members EXCEPT ![g] = @ \cup {tb}] /\ working' = [working EXCEPT ![g] = @ \cup {tb}]
       \/ tb \in working[g] /\ working' = [working EXCEPT ![g] = @ \ {tb}] /\ UNCHANGED members
  /\ UNCHANGED <<captured, existing, listedPacks, expanded, card, cardAsks, compared, compareAsks, orders, ordered>>

CardInit ==
  /\ members = PackTables /\ captured = PackTables /\ existing = Packs /\ listedPacks = {}
  /\ working \in {w \in [Packs -> SUBSET AnyTable] : \A g \in Packs : w[g] \subseteq PackTables[g]}
  /\ expanded = NoPack /\ card = NoCard /\ cardAsks = {} /\ compared = NotCompared /\ compareAsks = {}
  /\ orders = {} /\ ordered = 0 /\ elsewhere = 0

CardNext ==
  \/ \E g \in Packs : ToggleExpand(g) \/ SyncClicked(g) \/ DeleteClicked(g)
  \/ \E g \in Packs, tb \in AnyTable : RemoveTableClicked(g, tb)
  \/ \E a \in cardAsks : ServeCard(a) \/ LandCard(a)
  \/ \E a \in compareAsks : ServeCompare(a) \/ LandCompare(a)
  \/ LoadPacks \/ SeePackEvent \/ PackChanges
  \/ \E o \in orders : ServeRemove(o) \/ ServeSync(o) \/ ServeDelete(o) \/ OrderAnswered(o)
  \/ \E o \in orders, yes \in BOOLEAN : ForceAnswered(o, yes)

CardSpec == CardInit /\ [][CardNext]_cardVars

-----------------------------------------------------------------------------
\* However late the answers are and whatever is opened meanwhile, a removal names a table of
\* the pack it is sent to: the table was in that pack, and is drawn in the card of that pack.
RemovesOwnTable == \A o \in orders : o.kind = "remove" => o.table \in PackTables[o.group]
=============================================================================
