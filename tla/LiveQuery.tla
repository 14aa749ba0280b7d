----------------------------- MODULE LiveQuery -----------------------------
(***************************************************************************)
(* The data layer of the web console: one use of the hook useApi           *)
(* (hooks/useApi.ts) and the event stream that makes it reload             *)
(* (hooks/useSSE.ts). A new request, from a poll, an event, a button or a  *)
(* change of the url, aborts the one under way. What the server answers is *)
(* abstracted to a version of what the url names. The stream delivers      *)
(* events in order, but a panel looks only at the newest one each time it  *)
(* is drawn, and nothing is sent again.                                    *)
(*                                                                         *)
(* The button is that of BulkProgressPanel (MigrationPanels.tsx): it posts *)
(* and reloads when the answer is there, with the url it was drawn for.    *)
(***************************************************************************)
EXTENDS Naturals, Sequences

CONSTANTS
  Urls,        \* what the panel may be asked to show
  NoUrl,       \* a url of null: nothing is fetched
  Polled,      \* whether intervalMs is given
  MaxEvents,   \* maxEvents of useSSE
  MaxVersion,  \* bound: changes of what a url names
  MaxWire,     \* the size of the server's queue of a subscriber
  MaxSwitch    \* bound: changes of the url

ASSUME QueryAssumption ==
  /\ NoUrl \notin Urls /\ Polled \in BOOLEAN
  /\ MaxEvents \in Nat \ {0} /\ MaxVersion \in Nat /\ MaxWire \in Nat /\ MaxSwitch \in Nat

VARIABLES
  version,     \* the server: the version of what each url names
  url,         \* the url given to the hook
  data,        \* what the hook returns: the url it was asked of and the version; or NoData
  error,       \* whether it returns an error
  loading,
  live,        \* the requests that are not aborted
  wire,        \* the server's queue of this browser and what is on its way
  subscribed,  \* the server still puts events into that queue
  events,      \* useSSE's events, the newest first
  status,      \* useSSE's status
  retry,       \* retryFailed: not yet clicked, the url it was clicked for, or over
  switches

queryVars == <<version, url, data, error, loading, live, wire, subscribed, events, status,
               retry, switches>>
hookVars == <<url, data, error, loading, live>>
streamVars == <<wire, subscribed, events, status>>

NoData == [url |-> NoUrl, ver |-> 0]
Request == [url : Urls, st : {"sent", "served"}, ver : 0..MaxVersion]
Asked(u) == [url |-> u, st |-> "sent", ver |-> 0]

\* A message of the stream: about this panel's data, or of another type or migration.
Message == {"mine", "other"}

QueryTypeOK ==
  /\ version \in [Urls -> 0..MaxVersion]
  /\ url \in Urls \cup {NoUrl}
  /\ data \in [url : Urls, ver : 0..MaxVersion] \cup {NoData}
  /\ error \in BOOLEAN /\ loading \in BOOLEAN
  /\ live \subseteq Request
  /\ wire \in Seq(Message) /\ subscribed \in BOOLEAN /\ events \in Seq(Message)
  /\ status \in {"connecting", "connected", "error"}
  /\ retry \in Urls \cup {"unclicked", "over"} /\ switches \in 0..MaxSwitch

-----------------------------------------------------------------------------
(* useApi.                                                                 *)

\* Mutant of Reload: a url of null is fetched like any other.
ReloadNull(u) == live' = {Asked(u)} /\ loading' = TRUE

\* Mutant of Reload: the request under way is not aborted.
ReloadBeside(u) ==
  IF u = NoUrl
    THEN UNCHANGED <<live, loading>>
    ELSE live' = live \cup {Asked(u)} /\ loading' = TRUE

\* reload() of the render whose url is u: the request under way is aborted, its answer ignored.
Reload(u) ==
  IF u = NoUrl
    THEN UNCHANGED <<live, loading>>
    ELSE live' = {Asked(u)} /\ loading' = TRUE

\* Mutant of ChangeUrl: the effect aborts and does not reload.
ChangeUrlOnly(u) ==
  /\ u # url /\ switches < MaxSwitch /\ switches' = switches + 1
  /\ url' = u /\ live' = {}
  /\ UNCHANGED <<version, data, error, loading, streamVars, retry>>

\* The url changes: the cleanup of the effect aborts, the effect reloads. data and error stay.
ChangeUrl(u) ==
  /\ u # url /\ switches < MaxSwitch /\ switches' = switches + 1
  /\ url' = u
  /\ IF u = NoUrl THEN live' = {} /\ UNCHANGED loading ELSE Reload(u)
  /\ UNCHANGED <<version, data, error, streamVars, retry>>

\* Mutant of PollReload: the interval only stands in for a stream that is down.
PollReloadOffline ==
  /\ Polled /\ url # NoUrl /\ status # "connected"
  /\ Reload(url)
  /\ UNCHANGED <<version, url, data, error, streamVars, retry, switches>>

\* setInterval(reload, intervalMs).
PollReload ==
  /\ Polled /\ url # NoUrl
  /\ Reload(url)
  /\ UNCHANGED <<version, url, data, error, streamVars, retry, switches>>

\* The server reads what the url names.
ServeQuery(q) ==
  /\ q \in live /\ q.st = "sent"
  /\ live' = (live \ {q}) \cup {[q EXCEPT !.st = "served", !.ver = version[q.url]]}
  /\ UNCHANGED <<version, url, data, error, loading, streamVars, retry, switches>>

LandQuery(q) ==
  /\ q \in live /\ q.st = "served"
  /\ data' = [url |-> q.url, ver |-> q.ver] /\ error' = FALSE
  /\ loading' = FALSE /\ live' = live \ {q}
  /\ UNCHANGED <<version, url, streamVars, retry, switches>>

\* An HTTP error or no answer: what was shown stays.
QueryFails(q) ==
  /\ q \in live
  /\ error' = TRUE /\ loading' = FALSE /\ live' = live \ {q}
  /\ UNCHANGED <<version, url, data, streamVars, retry, switches>>

\* retryFailed, drawn with data that is not loading; it is clicked once at most.
RetryClicked ==
  /\ retry = "unclicked" /\ ~loading /\ data # NoData /\ url # NoUrl
  /\ retry' = url
  /\ UNCHANGED <<version, hookVars, streamVars, switches>>

\* The POST is answered: what failed starts again, and reload() is the one of that render.
RetryAnswered ==
  /\ retry \in Urls /\ retry' = "over"
  /\ version' \in {version} \cup {[version EXCEPT ![retry] = v] :
                                  v \in {version[retry] + 1} \cap 0..MaxVersion}
  /\ Reload(retry)
  /\ UNCHANGED <<url, data, error, streamVars, switches>>

-----------------------------------------------------------------------------
(* useSSE and the effects on sseEvents.                                    *)

\* broadcast: a subscriber whose queue is full is taken off the list; its stream stays open.
Announce(m) ==
  IF subscribed /\ Len(wire) < MaxWire
    THEN wire' = Append(wire, m) /\ UNCHANGED subscribed
    ELSE subscribed' = FALSE /\ UNCHANGED wire

ServerChanges(u) ==
  /\ version[u] < MaxVersion
  /\ version' = [version EXCEPT ![u] = @ + 1]
  /\ Announce(IF u = url THEN "mine" ELSE "other")
  /\ UNCHANGED <<hookVars, events, status, retry, switches>>

ServerTalks ==
  /\ Announce("other")
  /\ UNCHANGED <<version, hookVars, events, status, retry, switches>>

\* The newest first, at most MaxEvents of them.
Newest(older, batch) ==
  LET all == [i \in 1..(Len(batch) + Len(older)) |->
                IF i <= Len(batch) THEN batch[Len(batch) + 1 - i] ELSE older[i - Len(batch)]]
  IN  SubSeq(all, 1, IF Len(all) < MaxEvents THEN Len(all) ELSE MaxEvents)

\* Messages that arrive together are drawn together; the panel's effect looks at events[0].
Receive(n) ==
  /\ n \in 1..Len(wire)
  /\ events' = Newest(events, SubSeq(wire, 1, n))
  /\ wire' = SubSeq(wire, n + 1, Len(wire)) /\ status' = "connected" /\ UNCHANGED subscribed
  /\ IF wire[n] = "mine" THEN Reload(url) ELSE UNCHANGED <<live, loading>>
  /\ UNCHANGED <<version, url, data, error, retry, switches>>

\* The stream breaks: what is on it is lost, and what is sent until it is there again.
StreamBreaks ==
  /\ status # "error" /\ status' = "error" /\ wire' = <<>> /\ subscribed' = FALSE
  /\ UNCHANGED <<version, hookVars, events, retry, switches>>

\* The browser's EventSource connects again after an error, or the operator presses reconnect: a
\* new queue. A stream that was taken off the list reports no error and is not connected again.
StreamConnects ==
  /\ status' = "connected" /\ wire' = <<>> /\ subscribed' = TRUE
  /\ UNCHANGED <<version, hookVars, events, retry, switches>>

-----------------------------------------------------------------------------
\* The first effect has run: with a url of null loading is TRUE all the same (enabled).
QueryInit ==
  /\ version = [u \in Urls |-> 0]
  /\ url \in Urls \cup {NoUrl}
  /\ data = NoData /\ error = FALSE /\ loading = TRUE
  /\ live = IF url = NoUrl THEN {} ELSE {Asked(url)}
  /\ wire = <<>> /\ subscribed = FALSE /\ events = <<>> /\ status = "connecting"
  /\ retry = "unclicked" /\ switches = 0

QueryNext ==
  \/ \E u \in Urls \cup {NoUrl} : ChangeUrl(u)
  \/ PollReload \/ RetryClicked \/ RetryAnswered
  \/ \E q \in live : ServeQuery(q) \/ LandQuery(q) \/ QueryFails(q)
  \/ \E u \in Urls : ServerChanges(u)
  \/ ServerTalks \/ StreamBreaks \/ StreamConnects
  \/ \E n \in 1..MaxWire : Receive(n)

\* The interval fires. An answer that is given up for the next poll comes in time once at last:
\* the intervals, five and ten seconds, are longer than a request takes.
QueryServed == \E q \in live : ServeQuery(q)
QueryLands == \E q \in live : LandQuery(q)
QueryFairness == WF_queryVars(PollReload) /\ SF_queryVars(QueryServed) /\ SF_queryVars(QueryLands)

QuerySpec == QueryInit /\ [][QueryNext]_queryVars /\ QueryFairness

-----------------------------------------------------------------------------
(* Properties.                                                             *)

\* What is shown of one url never becomes older, however polls, events, the button and changes of
\* the url overlap: a request that is not the last one is aborted and cannot land any more.
NeverGoesBack ==
  [][data'.url = data.url => data'.ver >= data.ver]_queryVars

\* The data of a url the panel no longer has (the hook keeps it) is on the screen only while the
\* request for the present url is under way, or after an error that is shown with it. The button
\* is the exception: its reload() may abort that request and ask for the url before.
ForeignOnlyWhileLoading ==
  (url # NoUrl /\ data # NoData /\ data.url # url)
    => (error \/ retry = "over" \/ \E q \in live : q.url = url)

\* When the server and the operator rest, a polled panel ends up with what the server has of its
\* own url: events that were lost, batched or dropped with the subscription, and a reload() of an
\* older url, cost time and nothing else.
QuerySettles == <>[](url # NoUrl => (data.url = url /\ data.ver = version[url]))
=============================================================================
