----------------------------- MODULE TargetPrep -----------------------------
(***************************************************************************)
(* The page that prepares the target (components/TargetPrep, the routes of *)
(* target_prep.py): the tables of a source schema paired by name with      *)
(* those of a target schema, the comparison of a pair, of all pairs by a   *)
(* few workers, and the levelling of a pair.  Everything is asked of       *)
(* Oracle for the schemas chosen when it was asked for; answers are kept   *)
(* by the table's name alone and land in any order.  A read answers with   *)
(* what it finds at the moment its answer lands.                           *)
(*                                                                         *)
(* A table is the set of its columns, of two or three; the other objects   *)
(* of a table (indexes, constraints, triggers) are left out.               *)
(***************************************************************************)
EXTENDS Naturals, FiniteSets

CONSTANTS
  PrepSchemas,     \* schemas, the same names in the source and in the target
  PrepTables,      \* table names
  SourceCols,      \* the source: columns of each table of each schema, {} when there is no table
  FirstTargets,    \* the same of the target, as it may begin
  Concurrency,     \* CONCURRENCY: workers of compareAll
  MaxPrep          \* bound: clicks

ASSUME PrepAssumption == /\ IsFiniteSet(PrepTables) /\ Concurrency \in Nat \ {0}
                         /\ FirstTargets \subseteq [PrepSchemas -> [PrepTables -> SUBSET {"k", "x", "y"}]]

VARIABLES
  targetCols,      \* the target, as it is
  chosen,          \* srcSchema, tgtSchema
  tableLists,      \* the lists: loading, loaded, srcTables, tgtTablesSet
  pairs,           \* pairStatus
  expandedKey,     \* expandedKey
  toCompare, workers,   \* compareAll: pairs left, how many workers run (0 unless compareAllBusy)
  asked,           \* requests under way
  swept,           \* history: pairs of the last compareAll, {} after a reload of the lists
  prepClicks

prepPage == <<chosen, tableLists, expandedKey>>
prepVars == <<targetCols, prepPage, pairs, toCompare, workers, asked, swept, prepClicks>>

NoKey == "none"
DefaultStatus == [comparing |-> FALSE, diff |-> "none", error |-> FALSE, ddl |-> "none", ddlLoading |-> FALSE,
                  syncing |-> FALSE, syncError |-> FALSE]
TablesOf(cols, s) == {t \in PrepTables : cols[s][t] # {}}

\* _diff_summary, colDiff: the target lacks columns, has extra ones, or is the same.
Diff(src, tgt) == IF tgt \ src # {} THEN "extra" ELSE IF src \ tgt # {} THEN "missing" ELSE "ok"
DiffNow(r) == Diff(SourceCols[r.src][r.tab], targetCols[r.tgt][r.tab])

\* Pairs with a table on both sides, and what the filters of the page leave.
Paired == tableLists.src \cap tableLists.tgt
FilteredPairs(f) ==
  {t \in tableLists.src : CASE f = "diff" -> pairs[t].diff \in {"missing", "extra"}
                              [] f = "ok" -> pairs[t].diff = "ok"
                              [] f = "error" -> pairs[t].error
                              [] f = "no_target" -> t \notin tableLists.tgt
                              [] OTHER -> TRUE}
RowsDrawn == UNION {FilteredPairs(f) : f \in {"all", "diff", "ok", "error", "no_target"}}

\* What the row of a pair offers.
PairActions(t) ==
  IF t \notin tableLists.tgt THEN (IF pairs[t].syncing THEN {} ELSE {"create"})
  ELSE (IF pairs[t].comparing THEN {} ELSE {"compare"})
       \cup (IF pairs[t].diff \in {"missing", "extra"} /\ ~pairs[t].syncing THEN {"level"} ELSE {})

PrepTypeOK ==
  /\ \A s \in PrepSchemas, t \in PrepTables : targetCols[s][t] \subseteq {"k", "x", "y"}
  /\ \A t \in PrepTables : pairs[t].diff \in {"none", "ok", "missing", "extra"}
  /\ expandedKey \in PrepTables \cup {NoKey} /\ workers \in 0..Concurrency
  /\ \A r \in asked : r.do \in {"tables", "compare", "ddl", "ensure", "columns"} /\ r.by \in {"click", "all", "level"}

-----------------------------------------------------------------------------
(* Requests: they carry the schemas of the moment they are sent.           *)

Request(do, t, by, open) ==
  [do |-> do, tab |-> t, by |-> by, open |-> open, src |-> chosen.src, tgt |-> chosen.tgt]
\* A record with the fields of another that has the first say.
Patched(patch, f) == [x \in DOMAIN patch \cup DOMAIN f |-> IF x \in DOMAIN patch THEN patch[x] ELSE f[x]]
\* Numbered, for there may be several of a kind.
Numbered(r, others) ==
  Patched(r, [no |-> CHOOSE n \in 1..(Cardinality(others) + 1) : \A o \in others : o.no # n])
Ask(r, others) == others \cup {Numbered(r, others)}
PrepClick == prepClicks < MaxPrep /\ prepClicks' = prepClicks + 1
Set(t, patch) == pairs' = [pairs EXCEPT ![t] = Patched(patch, @)]

ChooseSchema(side, s) ==
  /\ chosen[side] # s /\ PrepClick /\ chosen' = [chosen EXCEPT ![side] = s]
  /\ UNCHANGED <<targetCols, tableLists, expandedKey, pairs, toCompare, workers, asked, swept>>

LoadTables ==
  /\ ~tableLists.loading /\ PrepClick /\ tableLists' = [tableLists EXCEPT !.loading = TRUE]
  /\ asked' = Ask(Request("tables", NoKey, "click", FALSE), asked)
  /\ UNCHANGED <<targetCols, chosen, expandedKey, pairs, toCompare, workers, swept>>

\* comparePair.
ComparePair(t) ==
  /\ t \in RowsDrawn /\ "compare" \in PairActions(t) /\ PrepClick
  /\ Set(t, [comparing |-> TRUE, error |-> FALSE])
  /\ asked' = Ask(Request("compare", t, "click", FALSE), asked)
  /\ UNCHANGED <<targetCols, prepPage, toCompare, workers, swept>>

\* compareAll: the workers take the pairs one after the other.
CompareAll ==
  /\ tableLists.loaded /\ workers = 0 /\ Paired # {} /\ PrepClick
  /\ \E first \in SUBSET Paired :
       /\ Cardinality(first) = (IF Cardinality(Paired) < Concurrency THEN Cardinality(Paired) ELSE Concurrency)
       /\ toCompare' = Paired \ first /\ workers' = Cardinality(first)
       /\ pairs' = [t \in PrepTables |-> IF t \in first THEN [pairs[t] EXCEPT !.comparing = TRUE, !.error = FALSE]
                                                        ELSE pairs[t]]
       /\ asked' = asked \cup {Patched(Request("compare", t, "all", FALSE), [no |-> 0]) : t \in first}
  /\ swept' = Paired
  /\ UNCHANGED <<targetCols, prepPage>>

\* toggleExpand, loadDdl.
ExpandPair(t) ==
  /\ t \in RowsDrawn /\ PrepClick /\ expandedKey' = IF expandedKey = t THEN NoKey ELSE t
  /\ IF expandedKey # t /\ t \in tableLists.tgt /\ pairs[t].ddl = "none" /\ ~pairs[t].ddlLoading
       THEN Set(t, [ddlLoading |-> TRUE]) /\ asked' = Ask(Request("ddl", t, "click", FALSE), asked)
       ELSE UNCHANGED <<pairs, asked>>
  /\ UNCHANGED <<targetCols, chosen, tableLists, toCompare, workers, swept>>

\* syncPair: nobody is asked to confirm it.
SyncPair(t) ==
  /\ t \in RowsDrawn /\ PairActions(t) \cap {"level", "create"} # {} /\ PrepClick
  /\ Set(t, [syncing |-> TRUE, syncError |-> FALSE])
  /\ asked' = Ask(Request("ensure", t, "level", expandedKey = t), asked)
  /\ UNCHANGED <<targetCols, prepPage, toCompare, workers, swept>>

\* doSyncColumns of the expanded pair, confirmed when columns are to be dropped.
DoSyncColumns ==
  /\ expandedKey \in tableLists.tgt /\ pairs[expandedKey].ddl \in {"missing", "extra"} /\ PrepClick
  /\ ~\E r \in asked : r.do = "columns" /\ r.tab = expandedKey
  /\ asked' = Ask(Request("columns", expandedKey, "click", TRUE), asked)
  /\ UNCHANGED <<targetCols, prepPage, pairs, toCompare, workers, swept>>

-----------------------------------------------------------------------------
(* The server, and what the page does with its answers.                    *)

\* sync_target_columns: Oracle keeps the last column of a table; a statement may fail, and what
\* was dropped before it stays dropped.
Levelled(src, tgt) ==
  {src \cup kept : kept \in {k \in SUBSET (tgt \ src) : (src \cap tgt) \cup k # {}}}
Broken(src, tgt) == {(src \cap tgt) \cup kept : kept \in SUBSET (tgt \ src)} \ {{}}

\* ensure_table creates a table the target does not have; a table the source does not have is an error.
ServeChange(r) ==
  /\ r \in asked /\ r.do \in {"ensure", "columns"} /\ ~("ok" \in DOMAIN r)
  /\ LET src == SourceCols[r.src][r.tab]
         now == targetCols[r.tgt][r.tab]
         tgt == IF now = {} /\ r.do = "ensure" THEN src ELSE now
     IN  \E ok \in BOOLEAN, after \in SUBSET {"k", "x", "y"} :
           /\ after \in IF tgt = {} THEN {{}} ELSE IF ok THEN Levelled(src, tgt) ELSE {now} \cup Broken(src, tgt)
           /\ ok => tgt # {}
           /\ targetCols' = [targetCols EXCEPT ![r.tgt][r.tab] = after]
           /\ asked' = (asked \ {r}) \cup {Patched(r, [ok |-> ok, created |-> now = {} /\ after # {}])}
  /\ UNCHANGED <<prepPage, pairs, toCompare, workers, swept, prepClicks>>

\* Two lists; the statuses of the pairs are dropped with the lists they were of.
LandLists(r) ==
  /\ r.do = "tables" /\ asked' = asked \ {r}
  /\ \/ /\ tableLists' = [loading |-> FALSE, loaded |-> TRUE,
                          src |-> TablesOf(SourceCols, r.src), tgt |-> TablesOf(targetCols, r.tgt)]
        /\ pairs' = [t \in PrepTables |-> DefaultStatus] /\ expandedKey' = NoKey /\ swept' = {}
        /\ toCompare' = toCompare
     \/ /\ tableLists' = [tableLists EXCEPT !.loading = FALSE]
        /\ UNCHANGED <<pairs, expandedKey, swept, toCompare>>
  /\ UNCHANGED <<targetCols, chosen, workers, prepClicks>>

\* A worker of compareAll takes the next pair whatever became of the one before; the last one ends it.
AfterAll(r, settled) ==
  IF toCompare # {} THEN \E t \in toCompare :
       /\ toCompare' = toCompare \ {t} /\ asked' = (asked \ {r}) \cup {[r EXCEPT !.tab = t]}
       /\ pairs' = [settled EXCEPT ![t].comparing = TRUE, ![t].error = FALSE]
       /\ UNCHANGED workers
  ELSE workers' = workers - 1 /\ asked' = asked \ {r} /\ pairs' = settled /\ UNCHANGED toCompare

LandSummary(r) ==
  /\ r.do = "compare"
  /\ \E settled \in {[pairs EXCEPT ![r.tab].comparing = FALSE, ![r.tab].diff = DiffNow(r)],
                  [pairs EXCEPT ![r.tab].comparing = FALSE, ![r.tab].error = TRUE]} :
       IF r.by = "all" THEN AfterAll(r, settled) /\ UNCHANGED swept
       ELSE /\ IF r.open THEN pairs' = [settled EXCEPT ![r.tab].ddlLoading = TRUE]
                              /\ asked' = (asked \ {r}) \cup {[r EXCEPT !.do = "ddl"]}
                         ELSE pairs' = settled /\ asked' = asked \ {r}
            /\ UNCHANGED <<toCompare, workers, swept>>
  /\ UNCHANGED <<targetCols, prepPage, prepClicks>>

\* Mutant of LandDdl: an error leaves the mark of the request.
LandDdlErrorOnly(r) ==
  /\ r.do = "ddl" /\ asked' = asked \ {r}
  /\ \/ Set(r.tab, [ddl |-> DiffNow(r), ddlLoading |-> FALSE])
     \/ Set(r.tab, [error |-> TRUE])
  /\ UNCHANGED <<targetCols, prepPage, toCompare, workers, swept, prepClicks>>

LandDdl(r) ==
  /\ r.do = "ddl" /\ asked' = asked \ {r}
  /\ \/ Set(r.tab, [ddl |-> DiffNow(r), ddlLoading |-> FALSE])
     \/ Set(r.tab, [error |-> TRUE, ddlLoading |-> FALSE])
  /\ UNCHANGED <<targetCols, prepPage, toCompare, workers, swept, prepClicks>>

\* syncPair goes on: it compares the pair, then reads the DDL of the row that was expanded at the click.
LandEnsure(r) ==
  /\ r.do = "ensure" /\ "ok" \in DOMAIN r
  /\ IF r.ok
       THEN /\ tableLists' = IF r.created THEN [tableLists EXCEPT !.tgt = @ \cup {r.tab}] ELSE tableLists
            /\ Set(r.tab, [syncing |-> FALSE, ddl |-> "none", comparing |-> TRUE, error |-> FALSE])
            /\ asked' = (asked \ {r}) \cup {[no |-> r.no, do |-> "compare", tab |-> r.tab, by |-> "level",
                                             open |-> r.open, src |-> r.src, tgt |-> r.tgt]}
       ELSE Set(r.tab, [syncing |-> FALSE, syncError |-> TRUE]) /\ asked' = asked \ {r} /\ UNCHANGED tableLists
  /\ UNCHANGED <<targetCols, chosen, expandedKey, toCompare, workers, swept, prepClicks>>

\* handleRefresh after the columns: the DDL and the comparison at once.
LandColumns(r) ==
  /\ r.do = "columns" /\ "ok" \in DOMAIN r
  /\ IF r.ok
       THEN LET again == [no |-> r.no, do |-> "ddl", tab |-> r.tab, by |-> "click", open |-> FALSE,
                          src |-> r.src, tgt |-> r.tgt]
            IN  /\ Set(r.tab, [ddlLoading |-> TRUE, comparing |-> TRUE, error |-> FALSE])
                /\ asked' = Ask([x \in DOMAIN again \ {"no"} |-> IF x = "do" THEN "compare" ELSE again[x]],
                                (asked \ {r}) \cup {again})
       ELSE asked' = asked \ {r} /\ UNCHANGED pairs
  /\ UNCHANGED <<targetCols, prepPage, toCompare, workers, swept, prepClicks>>

-----------------------------------------------------------------------------
PrepInit ==
  /\ targetCols \in FirstTargets
  /\ \E s \in PrepSchemas : chosen = [src |-> s, tgt |-> s]
  /\ tableLists = [loading |-> FALSE, loaded |-> FALSE, src |-> {}, tgt |-> {}]
  /\ pairs = [t \in PrepTables |-> DefaultStatus] /\ expandedKey = NoKey
  /\ toCompare = {} /\ workers = 0 /\ asked = {} /\ swept = {} /\ prepClicks = 0

PrepNext ==
  \/ (\E side \in {"src", "tgt"}, s \in PrepSchemas : ChooseSchema(side, s)) \/ LoadTables
  \/ (\E t \in PrepTables : ComparePair(t) \/ ExpandPair(t) \/ SyncPair(t)) \/ CompareAll \/ DoSyncColumns
  \/ \E r \in asked : \/ ServeChange(r) \/ LandLists(r) \/ LandSummary(r) \/ LandDdl(r)
                      \/ LandEnsure(r) \/ LandColumns(r)

PrepSpec == PrepInit /\ [][PrepNext]_prepVars

-----------------------------------------------------------------------------
(* Properties.                                                             *)

\* No row waits for an answer nobody is going to give, and when "compare all" has ended every pair it
\* was for has a verdict or an error, however many of the comparisons failed.
RowsSettle ==
  /\ \A t \in PrepTables :
       /\ pairs[t].comparing => \E r \in asked : r.tab = t /\ r.do = "compare"
       /\ pairs[t].ddlLoading => \E r \in asked : r.tab = t /\ r.do = "ddl"
       /\ pairs[t].syncing => \E r \in asked : r.tab = t /\ r.do = "ensure"
  /\ workers = 0 => \A t \in swept : pairs[t].diff # "none" \/ pairs[t].error \/ pairs[t].comparing
=============================================================================
