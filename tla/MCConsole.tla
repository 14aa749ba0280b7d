------------------------------- MODULE MCConsole -------------------------------
(* The parts of the console with liveness properties, for TLC: one use of the   *)
(* hook useApi, or the list of migrations (screen); the other stays as it       *)
(* begins.  The list has a draft and a migration that is being chunked and may  *)
(* complete at any moment.                                                      *)
EXTENDS LiveQuery, MigrationListView

VARIABLE screen

consoleVars == <<screen, queryVars, listVars>>

Row(p) == [phase |-> p, paused |-> FALSE, error |-> None, cdc |-> TRUE, gen |-> 0]
NoRows == [m \in Mig |-> Row(Gone)]
MCFirstRows == {NoRows, [m \in Mig |-> IF m = "a" THEN Row("DRAFT") ELSE Row("CHUNKING")]}
MCMoves == {<<"CHUNKING", "COMPLETED">>}

ConsoleInit ==
  /\ screen \in {"query", "list"}
  /\ QueryInit /\ (screen = "list" => url = NoUrl)
  /\ ListInit /\ (screen = "query" => row = NoRows)

\* A step of the part that is open.
OfQuery(A) == screen = "query" /\ A /\ UNCHANGED <<screen, listVars>>
OfList(A) == screen = "list" /\ A /\ UNCHANGED <<screen, queryVars>>

QueryStep == OfQuery(QueryNext)
ListStep == OfList(ListNext)

\* QueryFairness and ListFairness, of the part that is open.
ConsoleFairness ==
  /\ WF_consoleVars(OfQuery(PollReload))
  /\ SF_consoleVars(OfQuery(QueryServed)) /\ SF_consoleVars(OfQuery(QueryLands))
  /\ WF_consoleVars(OfList(Poll)) /\ WF_consoleVars(OfList(ServeList))
  /\ WF_consoleVars(OfList(\E a \in answered : LandList(a)))
  /\ \A m \in Mig : /\ WF_consoleVars(OfList(BulkSend(m)))
                    /\ WF_consoleVars(OfList(BulkServe(m)))
                    /\ WF_consoleVars(OfList(BulkAnswered(m)))
  /\ WF_consoleVars(OfList(BulkEnd))

ConsoleSpec == ConsoleInit /\ [][QueryStep \/ ListStep]_consoleVars /\ ConsoleFairness

\* The type invariants of the two parts.
ConsoleTypeOK == QueryTypeOK /\ ListTypeOK
=============================================================================
