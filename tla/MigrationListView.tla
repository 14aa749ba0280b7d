------------------------- MODULE MigrationListView -------------------------
(***************************************************************************)
(* The list of migrations of the web console (components/MigrationList)    *)
(* and the server behind it. The list shows what some GET /api/migrations  *)
(* answered; it asks again when it sees a migration_phase event, after an  *)
(* action and every ten seconds, never cancels an older request and takes  *)
(* the answers in whatever order they come. A row action is one request;   *)
(* a bulk action is one request per migration, six at a time.              *)
(***************************************************************************)
EXTENDS MigrationApi, FiniteSets

CONSTANTS
  Mig,          \* the migrations
  FirstRows,    \* the tables the server may start with
  Moves,        \* the phase changes of the orchestrator that the instance allows
  Filters,      \* the filter pills the operator uses
  Concurrency,  \* CONCURRENCY of _runBulk
  MaxLoad,      \* bound: list requests under way
  MaxClick,     \* bound: actions of the operator
  MaxFault      \* bound: requests that fail or whose answer is lost

VARIABLES
  row,          \* the server's rows; gen counts the changes of a row
  unseen,       \* a migration_phase event is on its way to the browser
  asked,        \* list requests the server has not answered
  answered,     \* answers on their way, in no order
  shown,        \* migrations
  view,         \* loading, error, or the rows are drawn
  filter,       \* the filter pill
  bulkIds, actionBusy,
  posts,        \* row actions under way
  bulkOp,       \* the bulk action that runs (bulkBusy), or None
  call,         \* what became of the request of each migration in it
  clicks, faults

listVars == <<row, unseen, asked, answered, shown, view, filter, bulkIds,
              actionBusy, posts, bulkOp, call, clicks, faults>>

serverVars == <<row, unseen>>
loadVars == <<asked, answered, shown, view>>
bulkVars == <<bulkOp, call>>

None == "none"

\* A row of the server; gen counts its changes. Of the error codes some are told apart.
RowType ==
  [phase : ValidPhases \cup {Gone}, paused : BOOLEAN,
   error : BaselineErrors \cup {"INDEXES_ENABLE_ERROR", "another", None}, cdc : BOOLEAN,
   gen : Nat]

ASSUME ListAssumption ==
  /\ FirstRows \subseteq [Mig -> RowType]
  /\ Moves \subseteq ValidPhases \X ValidPhases
  /\ "all" \in Filters
  /\ MaxLoad \in Nat \ {0} /\ MaxClick \in Nat /\ MaxFault \in Nat

BulkOps == {"stop", "pause", "resume", "delete"}
CallState == {"-", "queued", "sent", "accepted", "refused", "good", "failed"}

ListTypeOK ==
  /\ \A m \in Mig : row[m].gen \in Nat /\ shown[m].gen \in Nat
  /\ unseen \in BOOLEAN /\ asked \in 0..MaxLoad
  /\ view \in {"loading", "error", "rows"} /\ filter \in Filters
  /\ bulkIds \subseteq Mig /\ actionBusy \in Mig \cup {None}
  /\ bulkOp \in BulkOps \cup {None} /\ call \in [Mig -> CallState]
  /\ clicks \in 0..MaxClick /\ faults \in 0..MaxFault

-----------------------------------------------------------------------------
(* The server.                                                             *)

Changed(r) == [r EXCEPT !.gen = @ + 1]

\* A request is served: the row changes if it is accepted; every change but a deletion is announced.
Serve(m, act) ==
  IF Accepts(act, row[m])
    THEN /\ row' = [row EXCEPT ![m] = Changed(Effect(act, @))]
         /\ unseen' = (unseen \/ act # "delete")
    ELSE UNCHANGED serverVars

\* The orchestrator moves a migration on.
Orchestrate(m) ==
  /\ \E move \in Moves :
       /\ row[m].phase = move[1]
       /\ row' = [row EXCEPT ![m] = Changed([@ EXCEPT !.phase = move[2]])]
  /\ unseen' = TRUE
  /\ UNCHANGED <<loadVars, filter, bulkIds, actionBusy, posts, bulkVars, clicks, faults>>

-----------------------------------------------------------------------------
(* Loading the list.                                                       *)

\* load(): one more request; nothing stops the ones under way. MaxLoad is the bound on these.
Load == asked' = IF asked + Cardinality(answered) < MaxLoad THEN asked + 1 ELSE asked

Listed(rows) == {m \in Mig : rows[m].phase # Gone}

\* The effect on sseEvents: only the newest event of a batch is looked at.
SeeEvent ==
  /\ unseen /\ unseen' = FALSE
  /\ Load
  /\ UNCHANGED <<row, answered, shown, view, filter, bulkIds, actionBusy, posts,
                 bulkVars, clicks, faults>>

\* The event is never the newest one when the list is drawn, or the stream was down.
MissEvent ==
  /\ unseen /\ unseen' = FALSE
  /\ UNCHANGED <<row, loadVars, filter, bulkIds, actionBusy, posts, bulkVars,
                 clicks, faults>>

\* setInterval(load, 10_000); the reload button does the same.
Poll ==
  /\ Load
  /\ UNCHANGED <<serverVars, answered, shown, view, filter, bulkIds, actionBusy,
                 posts, bulkVars, clicks, faults>>

ServeList ==
  /\ asked > 0 /\ asked' = asked - 1
  /\ answered' = answered \cup {row}
  /\ UNCHANGED <<serverVars, shown, view, filter, bulkIds, actionBusy, posts,
                 bulkVars, clicks, faults>>

\* The effect on migrations: ids that are no longer listed leave the selection.
Pruned(ids, rows) == ids \cap Listed(rows)

\* An answer replaces the list, however old it is.
LandList(a) ==
  /\ a \in answered /\ answered' = answered \ {a}
  /\ shown' = a /\ view' = "rows"
  /\ bulkIds' = Pruned(bulkIds, a)
  /\ UNCHANGED <<serverVars, asked, filter, actionBusy, posts, bulkVars, clicks, faults>>

ListFails ==
  /\ asked > 0 /\ asked' = asked - 1
  /\ faults < MaxFault /\ faults' = faults + 1
  /\ view' = "error"
  /\ UNCHANGED <<serverVars, answered, shown, filter, bulkIds, actionBusy, posts,
                 bulkVars, clicks>>

-----------------------------------------------------------------------------
(* What is drawn.                                                          *)

Matches(key, r) ==
  CASE key = "active" -> r.phase \in ConsoleActive
    [] key = "paused" -> r.paused
    [] key = "done"   -> r.phase \in {"COMPLETED", "STEADY_STATE"}
    [] key = "error"  -> r.phase = "FAILED" \/ r.error # None
    [] key = "draft"  -> r.phase = "DRAFT"
    [] OTHER          -> TRUE

Visible == {m \in Listed(shown) : Matches(filter, shown[m])}

\* A pill without migrations is not drawn.
Pills == {key \in Filters : key = "all" \/ \E m \in Listed(shown) : Matches(key, shown[m])}

\* The rows are drawn while the list is neither loading nor in error.
Drawn == IF view = "rows" THEN Visible ELSE {}

\* The buttons of a row; all are disabled while the row is busy.
RowOffers(m) ==
  IF m \in Drawn /\ actionBusy # m /\ bulkOp = None THEN RowActions(shown[m]) ELSE {}

ChooseFilter ==
  /\ \E key \in Pills : filter' = key
  /\ UNCHANGED <<serverVars, loadVars, bulkIds, actionBusy, posts, bulkVars,
                 clicks, faults>>

ToggleBulk(m) ==
  /\ m \in Drawn
  /\ bulkIds' = IF m \in bulkIds THEN bulkIds \ {m} ELSE bulkIds \cup {m}
  /\ UNCHANGED <<serverVars, loadVars, filter, actionBusy, posts, bulkVars,
                 clicks, faults>>

\* The checkbox of the head takes what is visible, without what was selected under another filter.
SelectVisible ==
  /\ Visible # {}
  /\ bulkIds' \in {Visible, {}}
  /\ UNCHANGED <<serverVars, loadVars, filter, actionBusy, posts, bulkVars,
                 clicks, faults>>

-----------------------------------------------------------------------------
(* Row actions: handleAction.                                              *)

\* saw is the version of the row the button was drawn for.
ClickRow(m, act) ==
  /\ act \in RowOffers(m)
  /\ clicks < MaxClick /\ clicks' = clicks + 1
  /\ actionBusy' = m
  /\ posts' = posts \cup {[id |-> m, act |-> act, saw |-> shown[m].gen, n |-> clicks,
                           st |-> "sent"]}
  /\ UNCHANGED <<serverVars, loadVars, filter, bulkIds, bulkVars, faults>>

ServePost(p) ==
  /\ p \in posts /\ p.st = "sent"
  /\ Serve(p.id, p.act)
  /\ posts' = (posts \ {p}) \cup
              {[p EXCEPT !.st = IF Accepts(p.act, row[p.id]) THEN "accepted" ELSE "refused"]}
  /\ UNCHANGED <<loadVars, filter, bulkIds, actionBusy, bulkVars, clicks, faults>>

\* The answer, whatever it says, is followed by load(); any row stops being busy.
PostAnswered(p) ==
  /\ p \in posts /\ p.st # "sent"
  /\ posts' = posts \ {p} /\ actionBusy' = None
  /\ Load
  /\ UNCHANGED <<serverVars, answered, shown, view, filter, bulkIds, bulkVars, clicks, faults>>

\* fetch throws, before or after the server had the request: only the finally clause runs.
PostLost(p) ==
  /\ p \in posts
  /\ faults < MaxFault /\ faults' = faults + 1
  /\ posts' = posts \ {p} /\ actionBusy' = None
  /\ UNCHANGED <<serverVars, loadVars, filter, bulkIds, bulkVars, clicks>>

-----------------------------------------------------------------------------
(* Bulk actions: _runBulk.                                                 *)

\* The migrations the bulk buttons act on: pause and resume take those whose row offers it.
BulkTargets(op) ==
  CASE op \in {"pause", "resume"} -> {m \in bulkIds : op \in RowActions(shown[m])}
    [] OTHER -> bulkIds

\* The bar is drawn while something is selected; its buttons are disabled during a bulk action.
ClickBulk(op) ==
  /\ bulkIds # {} /\ bulkOp = None
  /\ BulkTargets(op) # {}
  /\ clicks < MaxClick /\ clicks' = clicks + 1
  /\ bulkOp' = op
  /\ call' = [m \in Mig |-> IF m \in BulkTargets(op) THEN "queued" ELSE "-"]
  /\ UNCHANGED <<serverVars, loadVars, filter, bulkIds, actionBusy, posts, faults>>

InFlight == {m \in Mig : call[m] \in {"sent", "accepted", "refused"}}

\* queue.shift(): one of the workers takes the next migration.
BulkSend(m) ==
  /\ call[m] = "queued" /\ Cardinality(InFlight) < Concurrency
  /\ call' = [call EXCEPT ![m] = "sent"]
  /\ UNCHANGED <<serverVars, loadVars, filter, bulkIds, actionBusy, posts, bulkOp,
                 clicks, faults>>

BulkServe(m) ==
  /\ call[m] = "sent"
  /\ Serve(m, bulkOp)
  /\ call' = [call EXCEPT ![m] = IF Accepts(bulkOp, row[m]) THEN "accepted" ELSE "refused"]
  /\ UNCHANGED <<loadVars, filter, bulkIds, actionBusy, posts, bulkOp, clicks, faults>>

BulkAnswered(m) ==
  /\ call[m] \in {"accepted", "refused"}
  /\ call' = [call EXCEPT ![m] = IF @ = "accepted" THEN "good" ELSE "failed"]
  /\ UNCHANGED <<serverVars, loadVars, filter, bulkIds, actionBusy, posts, bulkOp,
                 clicks, faults>>

BulkLost(m) ==
  /\ call[m] \in {"sent", "accepted", "refused"}
  /\ faults < MaxFault /\ faults' = faults + 1
  /\ call' = [call EXCEPT ![m] = "failed"]
  /\ UNCHANGED <<serverVars, loadVars, filter, bulkIds, actionBusy, posts, bulkOp, clicks>>

\* Mutant of BulkEnd: it waits for as many successes as there were requests.
BulkEndWhenGood ==
  /\ bulkOp # None /\ \A m \in Mig : call[m] \in {"-", "good"}
  /\ bulkOp' = None /\ call' = [m \in Mig |-> "-"]
  /\ bulkIds' = IF bulkOp = "pause" THEN bulkIds ELSE {}
  /\ Load
  /\ UNCHANGED <<serverVars, answered, shown, view, filter, actionBusy, posts, clicks, faults>>

\* All workers are done: the selection is cleared (a pause keeps it) and the list loaded.
BulkEnd ==
  /\ bulkOp # None /\ \A m \in Mig : call[m] \in {"-", "good", "failed"}
  /\ bulkOp' = None /\ call' = [m \in Mig |-> "-"]
  /\ bulkIds' = IF bulkOp = "pause" THEN bulkIds ELSE {}
  /\ Load
  /\ UNCHANGED <<serverVars, answered, shown, view, filter, actionBusy, posts, clicks, faults>>

-----------------------------------------------------------------------------
ListInit ==
  /\ row \in FirstRows /\ unseen = FALSE
  /\ asked = 1 /\ answered = {} /\ view = "loading"
  /\ shown = [m \in Mig |-> [phase |-> Gone, paused |-> FALSE, error |-> None, cdc |-> TRUE, gen |-> 0]]
  /\ filter = "all" /\ bulkIds = {} /\ actionBusy = None
  /\ posts = {} /\ bulkOp = None /\ call = [m \in Mig |-> "-"]
  /\ clicks = 0 /\ faults = 0

ListNext ==
  \/ \E m \in Mig : Orchestrate(m) \/ ToggleBulk(m)
  \/ \E m \in Mig, act \in {"run", "pause", "resume", "stop", "delete"} : ClickRow(m, act)
  \/ \E p \in posts : ServePost(p) \/ PostAnswered(p) \/ PostLost(p)
  \/ \E op \in BulkOps : ClickBulk(op)
  \/ \E m \in Mig : BulkSend(m) \/ BulkServe(m) \/ BulkAnswered(m) \/ BulkLost(m)
  \/ SeeEvent \/ MissEvent \/ Poll \/ ServeList \/ ListFails
  \/ \E a \in answered : LandList(a)
  \/ ChooseFilter \/ SelectVisible \/ BulkEnd

\* The interval fires, the server answers and the browser runs its callbacks; the operator
\* and the orchestrator owe nothing.
ListFairness ==
  /\ WF_listVars(Poll) /\ WF_listVars(ServeList) /\ WF_listVars(\E a \in answered : LandList(a))
  /\ \A m \in Mig : WF_listVars(BulkSend(m)) /\ WF_listVars(BulkServe(m)) /\ WF_listVars(BulkAnswered(m))
  /\ WF_listVars(BulkEnd)

ListSpec == ListInit /\ [][ListNext]_listVars /\ ListFairness

-----------------------------------------------------------------------------
(* Properties.                                                             *)

\* The server refuses a row action only when the row has changed since its button was drawn: the
\* console's tables of phases (helpers.ts) offer nothing that the server's tables
\* (routes/migrations.py) refuse, although the two differ.
RefusedOnlyIfStale ==
  [][\A p \in posts : (p.st = "sent" /\ [p EXCEPT !.st = "refused"] \in posts')
                        => row[p.id].gen # p.saw]_listVars

\* A bulk action comes to its end, whatever its requests meet, and the bar works again.
BulkComesBack == bulkOp # None ~> bulkOp = None
=============================================================================
