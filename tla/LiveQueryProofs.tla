--------------------------- MODULE LiveQueryProofs ---------------------------
(***************************************************************************)
(* Theorems about the parts of the console that read the server on their   *)
(* own: LiveQuery, for any urls, polled or not, with event lists and       *)
(* queues of any length; MigrationListView, for any migrations, phases the *)
(* orchestrator moves them to and number of requests under way.            *)
(***************************************************************************)
EXTENDS MCConsole, SequenceTheorems, FiniteSetTheorems, TLAPS

LEMMA Bounds ==
  /\ NoUrl \notin Urls
  /\ MaxEvents \in Nat /\ MaxEvents > 0
  /\ MaxVersion \in Nat /\ MaxWire \in Nat /\ MaxSwitch \in Nat
BY QueryAssumption

USE Bounds

-----------------------------------------------------------------------------
(* Why the hook never goes back: there is one request at most, what was      *)
(* served of a url is not older than what is shown of it and not newer than  *)
(* the server, and only the button asks for another url than the present.    *)
OneRequest == \A p, q \in live : p = q
ShownIsPast == data.url \in Urls => data.ver <= version[data.url]
ServedIsNewer ==
  \A q \in live : q.st = "served" =>
    /\ q.ver <= version[q.url]
    /\ q.url = data.url => data.ver <= q.ver
AskedIsPresent == \A q \in live : q.url = url \/ retry = "over"

QueryInv ==
  /\ QueryTypeOK /\ OneRequest /\ ShownIsPast /\ ServedIsNewer /\ AskedIsPresent
  /\ ForeignOnlyWhileLoading

(* A batch of messages on top of older ones, cut to size, is a list of      *)
(* messages.                                                                *)
LEMMA NewestType ==
  ASSUME NEW older \in Seq(Message), NEW batch \in Seq(Message)
  PROVE  Newest(older, batch) \in Seq(Message)
<1> DEFINE all == [i \in 1..(Len(batch) + Len(older)) |->
                     IF i <= Len(batch) THEN batch[Len(batch) + 1 - i] ELSE older[i - Len(batch)]]
           n == IF Len(all) < MaxEvents THEN Len(all) ELSE MaxEvents
<1>1. Len(batch) \in Nat /\ Len(older) \in Nat
  OBVIOUS
<1>2. \A i \in 1..(Len(batch) + Len(older)) : all[i] \in Message
  <2>1. ASSUME NEW i \in 1..(Len(batch) + Len(older)), i <= Len(batch)
        PROVE  all[i] \in Message
    <3>1. Len(batch) + 1 - i \in 1..Len(batch)
      BY <1>1, <2>1
    <3>2. batch[Len(batch) + 1 - i] \in Message
      BY <3>1, ElementOfSeq
    <3> QED
      BY <2>1, <3>2
  <2>2. ASSUME NEW i \in 1..(Len(batch) + Len(older)), ~(i <= Len(batch))
        PROVE  all[i] \in Message
    <3>1. i - Len(batch) \in 1..Len(older)
      BY <1>1, <2>2
    <3>2. older[i - Len(batch)] \in Message
      BY <3>1, ElementOfSeq
    <3> QED
      BY <2>2, <3>2
  <2> QED
    BY <2>1, <2>2
<1>3. Len(batch) + Len(older) \in Nat
  BY <1>1
<1>4. all \in Seq(Message) /\ Len(all) = Len(batch) + Len(older)
  <2> HIDE DEF all
  <2>1. all = [i \in 1..(Len(batch) + Len(older)) |-> all[i]]
    BY DEF all
  <2> QED
    BY <1>2, <1>3, <2>1, IsASeq
<1>5. n \in Int /\ n <= Len(all)
  BY <1>3, <1>4
<1>6. \A i \in 1..n : all[i] \in Message
  <2> HIDE DEF all
  <2> QED
    BY <1>2, <1>3, <1>4, <1>5
<1>7. SubSeq(all, 1, n) \in Seq(Message)
  <2> HIDE DEF all, n
  <2> QED
    BY <1>5, <1>6, SubSeqProperties
<1> QED
  BY <1>7 DEF Newest

(* So is a part of the queue.                                               *)
LEMMA PartType ==
  ASSUME NEW w \in Seq(Message), NEW a \in Nat \ {0}, NEW b \in Nat, b <= Len(w)
  PROVE  SubSeq(w, a, b) \in Seq(Message)
<1>1. \A i \in a..b : w[i] \in Message
  BY ElementOfSeq
<1> QED
  BY <1>1, SubSeqProperties

(* A message that is announced is put on the queue or is lost.              *)
LEMMA AnnounceType ==
  ASSUME QueryTypeOK, NEW m \in Message, Announce(m)
  PROVE  wire' \in Seq(Message) /\ subscribed' \in BOOLEAN
<1>1. CASE subscribed /\ Len(wire) < MaxWire
  <2>1. wire' = Append(wire, m) /\ wire \in Seq(Message)
    BY <1>1 DEF Announce, QueryTypeOK
  <2>2. wire' \in Seq(Message)
    BY <2>1, AppendProperties
  <2> QED
    BY <1>1, <2>2 DEF Announce, QueryTypeOK
<1>2. CASE ~(subscribed /\ Len(wire) < MaxWire)
  BY <1>2 DEF Announce, QueryTypeOK
<1> QED
  BY <1>1, <1>2

(* A reload asks for a url, and nothing else is left of what was asked.     *)
LEMMA ReloadType ==
  ASSUME QueryTypeOK, NEW u \in Urls \cup {NoUrl}, Reload(u)
  PROVE  /\ live' \subseteq Request /\ loading' \in BOOLEAN
         /\ live' = IF u = NoUrl THEN live ELSE {Asked(u)}
<1>1. CASE u = NoUrl
  BY <1>1 DEF Reload, QueryTypeOK
<1>2. CASE u # NoUrl
  <2>1. Asked(u) \in Request
    BY <1>2 DEF Asked, Request
  <2> QED
    BY <1>2, <2>1 DEF Reload
<1> QED
  BY <1>1, <1>2

-----------------------------------------------------------------------------
(* Every variable of the hook and of the stream keeps its type.             *)
LEMMA TypeInit == QueryInit => QueryTypeOK
<1> SUFFICES ASSUME QueryInit PROVE QueryTypeOK
  OBVIOUS
<1>1. live \subseteq Request
  BY DEF QueryInit, Asked, Request
<1>2. <<>> \in Seq(Message)
  OBVIOUS
<1>3. version \in [Urls -> 0..MaxVersion] /\ switches \in 0..MaxSwitch
  BY DEF QueryInit
<1> QED
  BY <1>1, <1>2, <1>3 DEF QueryInit, QueryTypeOK

LEMMA TypeStep == QueryTypeOK /\ [QueryNext]_queryVars => QueryTypeOK'
<1> SUFFICES ASSUME QueryTypeOK, [QueryNext]_queryVars PROVE QueryTypeOK'
  OBVIOUS
<1>1. ASSUME NEW u \in Urls \cup {NoUrl}, ChangeUrl(u) PROVE QueryTypeOK'
  <2>1. live' \subseteq Request /\ loading' \in BOOLEAN
    BY <1>1, ReloadType DEF ChangeUrl, QueryTypeOK
  <2>2. switches' \in 0..MaxSwitch
    BY <1>1 DEF ChangeUrl, QueryTypeOK
  <2> QED
    BY <1>1, <2>1, <2>2 DEF ChangeUrl, QueryTypeOK, streamVars
<1>2. CASE PollReload
  <2>1. live' \subseteq Request /\ loading' \in BOOLEAN
    BY <1>2, ReloadType DEF PollReload, QueryTypeOK
  <2> QED
    BY <1>2, <2>1 DEF PollReload, QueryTypeOK, streamVars
<1>3. CASE RetryClicked
  BY <1>3 DEF RetryClicked, QueryTypeOK, hookVars, streamVars
<1>4. CASE RetryAnswered
  <2>1. live' \subseteq Request /\ loading' \in BOOLEAN
    BY <1>4, ReloadType DEF RetryAnswered
  <2>2. version' \in [Urls -> 0..MaxVersion]
    BY <1>4 DEF RetryAnswered, QueryTypeOK
  <2> QED
    BY <1>4, <2>1, <2>2 DEF RetryAnswered, QueryTypeOK, streamVars
<1>5. ASSUME NEW q \in live, ServeQuery(q) PROVE QueryTypeOK'
  <2>1. [q EXCEPT !.st = "served", !.ver = version[q.url]] \in Request
    BY <1>5 DEF QueryTypeOK, Request
  <2>2. live' \subseteq Request
    BY <1>5, <2>1 DEF ServeQuery, QueryTypeOK
  <2> QED
    BY <1>5, <2>2 DEF ServeQuery, QueryTypeOK, streamVars
<1>6. ASSUME NEW q \in live, LandQuery(q) PROVE QueryTypeOK'
  <2>1. [url |-> q.url, ver |-> q.ver] \in [url : Urls, ver : 0..MaxVersion]
    BY <1>6 DEF QueryTypeOK, Request
  <2> QED
    BY <1>6, <2>1 DEF LandQuery, QueryTypeOK, streamVars
<1>7. ASSUME NEW q \in live, QueryFails(q) PROVE QueryTypeOK'
  BY <1>7 DEF QueryFails, QueryTypeOK, streamVars
<1>8. ASSUME NEW u \in Urls, ServerChanges(u) PROVE QueryTypeOK'
  <2>1. wire' \in Seq(Message) /\ subscribed' \in BOOLEAN
    BY <1>8, AnnounceType DEF ServerChanges, Message
  <2>2. version' \in [Urls -> 0..MaxVersion]
    BY <1>8 DEF ServerChanges, QueryTypeOK
  <2> QED
    BY <1>8, <2>1, <2>2 DEF ServerChanges, QueryTypeOK, hookVars
<1>9. CASE ServerTalks
  <2>1. wire' \in Seq(Message) /\ subscribed' \in BOOLEAN
    BY <1>9, AnnounceType DEF ServerTalks, Message
  <2> QED
    BY <1>9, <2>1 DEF ServerTalks, QueryTypeOK, hookVars
<1>10. CASE StreamBreaks
  <2>1. <<>> \in Seq(Message)
    OBVIOUS
  <2> QED
    BY <1>10, <2>1 DEF StreamBreaks, QueryTypeOK, hookVars
<1>11. CASE StreamConnects
  <2>1. <<>> \in Seq(Message)
    OBVIOUS
  <2> QED
    BY <1>11, <2>1 DEF StreamConnects, QueryTypeOK, hookVars
<1>12. ASSUME NEW n \in 1..MaxWire, Receive(n) PROVE QueryTypeOK'
  <2>1. n \in Nat \ {0} /\ n <= Len(wire) /\ Len(wire) \in Nat
    BY <1>12 DEF Receive, QueryTypeOK
  <2>2. SubSeq(wire, 1, n) \in Seq(Message) /\ SubSeq(wire, n + 1, Len(wire)) \in Seq(Message)
    BY <2>1, PartType DEF QueryTypeOK
  <2>3. events' \in Seq(Message)
    BY <1>12, <2>2, NewestType DEF Receive, QueryTypeOK
  <2>4. live' \subseteq Request /\ loading' \in BOOLEAN
    BY <1>12, ReloadType DEF Receive, QueryTypeOK
  <2> QED
    BY <1>12, <2>2, <2>3, <2>4 DEF Receive, QueryTypeOK
<1>13. CASE UNCHANGED queryVars
  BY <1>13 DEF queryVars, hookVars, streamVars, QueryTypeOK
<1> QED
  BY <1>1, <1>2, <1>3, <1>4, <1>5, <1>6, <1>7, <1>8, <1>9, <1>10, <1>11, <1>12, <1>13 DEF QueryNext

(* useApi.ts and useSSE.ts: whatever urls, versions and messages there are, *)
(* the hook holds a request, an answer and messages of its own kind.        *)
THEOREM QueryTypeCorrect == QuerySpec => []QueryTypeOK
<1> QED
  BY TypeInit, TypeStep, PTL DEF QuerySpec

-----------------------------------------------------------------------------
(* What a version or the button adds only ever moves the server forward.    *)
Forward == \A u \in Urls : version[u] \in Nat /\ version'[u] \in Nat /\ version[u] <= version'[u]

(* A reload keeps the invariant, of the present url or of the button's.     *)
LEMMA ReloadKeeps ==
  ASSUME QueryInv, QueryTypeOK', NEW u \in Urls \cup {NoUrl}, Reload(u), Forward,
         url' = url, data' = data, error' = error,
         (u = url /\ retry' = retry) \/ retry' = "over"
  PROVE  QueryInv'
<1>1. CASE u = NoUrl
  <2>1. live' = live
    BY <1>1 DEF Reload
  <2>2. OneRequest'
    BY <2>1 DEF QueryInv, OneRequest
  <2>3. ShownIsPast'
    BY DEF QueryInv, ShownIsPast, QueryTypeOK, NoData, Forward
  <2>4. ServedIsNewer'
    <3> SUFFICES ASSUME NEW q \in live, q.st = "served"
                 PROVE  q.ver <= version'[q.url] /\ (q.url = data.url => data.ver <= q.ver)
      BY <2>1 DEF ServedIsNewer
    <3>1. q.url \in Urls /\ q.ver \in Nat
      BY DEF QueryInv, QueryTypeOK, Request
    <3> QED
      BY <3>1 DEF QueryInv, ServedIsNewer, Forward
  <2>5. AskedIsPresent'
    BY <2>1 DEF QueryInv, AskedIsPresent
  <2>6. ForeignOnlyWhileLoading'
    BY <2>1, <1>1 DEF QueryInv, ForeignOnlyWhileLoading
  <2> QED
    BY <2>2, <2>3, <2>4, <2>5, <2>6 DEF QueryInv
<1>2. CASE u # NoUrl
  <2>1. live' = {Asked(u)} /\ Asked(u).st = "sent" /\ Asked(u).url = u
    BY <1>2 DEF Reload, Asked
  <2>2. OneRequest'
    BY <2>1 DEF OneRequest
  <2>3. ShownIsPast'
    BY DEF QueryInv, ShownIsPast, QueryTypeOK, NoData, Forward
  <2>4. ServedIsNewer'
    BY <2>1 DEF ServedIsNewer
  <2>5. AskedIsPresent'
    BY <2>1 DEF AskedIsPresent
  <2>6. ForeignOnlyWhileLoading'
    BY <2>1 DEF ForeignOnlyWhileLoading
  <2> QED
    BY <2>2, <2>3, <2>4, <2>5, <2>6 DEF QueryInv
<1> QED
  BY <1>1, <1>2

(* So does a step that leaves the hook, the url and the button's end alone. *)
LEMMA IdleKeeps ==
  ASSUME QueryInv, QueryTypeOK', Forward, live' = live, url' = url, data' = data,
         error' = error, retry = "over" => retry' = "over"
  PROVE  QueryInv'
<1>1. OneRequest'
  BY DEF QueryInv, OneRequest
<1>2. ShownIsPast'
  BY DEF QueryInv, ShownIsPast, QueryTypeOK, NoData, Forward
<1>3. ServedIsNewer'
  <2> SUFFICES ASSUME NEW q \in live, q.st = "served"
               PROVE  q.ver <= version'[q.url] /\ (q.url = data.url => data.ver <= q.ver)
    BY DEF ServedIsNewer
  <2>1. q.url \in Urls /\ q.ver \in Nat
    BY DEF QueryInv, QueryTypeOK, Request
  <2> QED
    BY <2>1 DEF QueryInv, ServedIsNewer, Forward
<1>4. AskedIsPresent'
  BY DEF QueryInv, AskedIsPresent
<1>5. ForeignOnlyWhileLoading'
  BY DEF QueryInv, ForeignOnlyWhileLoading
<1> QED
  BY <1>1, <1>2, <1>3, <1>4, <1>5 DEF QueryInv

LEMMA InvInit == QueryInit => QueryInv
<1> SUFFICES ASSUME QueryInit PROVE QueryInv
  OBVIOUS
<1>1. QueryTypeOK
  BY TypeInit
<1>2. OneRequest /\ AskedIsPresent
  BY DEF QueryInit, OneRequest, AskedIsPresent, Asked
<1>3. ServedIsNewer
  BY DEF QueryInit, ServedIsNewer, Asked
<1>4. ShownIsPast /\ ForeignOnlyWhileLoading
  BY DEF QueryInit, ShownIsPast, ForeignOnlyWhileLoading, NoData
<1> QED
  BY <1>1, <1>2, <1>3, <1>4 DEF QueryInv

LEMMA InvStep == QueryInv /\ [QueryNext]_queryVars => QueryInv'
<1> SUFFICES ASSUME QueryInv, [QueryNext]_queryVars PROVE QueryInv'
  OBVIOUS
<1>0. QueryTypeOK /\ QueryTypeOK'
  BY TypeStep DEF QueryInv
<1>a. ASSUME version' = version PROVE Forward
  BY <1>0, <1>a DEF Forward, QueryTypeOK
<1>1. ASSUME NEW u \in Urls \cup {NoUrl}, ChangeUrl(u) PROVE QueryInv'
  <2>1. live' = IF u = NoUrl THEN {} ELSE {Asked(u)}
    BY <1>1 DEF ChangeUrl, Reload
  <2>2. OneRequest'
    BY <2>1 DEF OneRequest
  <2>3. ServedIsNewer'
    BY <2>1 DEF ServedIsNewer, Asked
  <2>4. AskedIsPresent' /\ ForeignOnlyWhileLoading'
    <3>1. Asked(u).url = u /\ url' = u
      BY <1>1 DEF Asked, ChangeUrl
    <3>2. AskedIsPresent'
      BY <2>1, <3>1 DEF AskedIsPresent
    <3>3. ForeignOnlyWhileLoading'
      BY <2>1, <3>1 DEF ForeignOnlyWhileLoading
    <3> QED
      BY <3>2, <3>3
  <2>5. ShownIsPast'
    BY <1>1 DEF ChangeUrl, QueryInv, ShownIsPast
  <2> QED
    BY <1>0, <2>2, <2>3, <2>4, <2>5 DEF QueryInv
<1>2. CASE PollReload
  BY <1>0, <1>2, <1>a, ReloadKeeps DEF PollReload, QueryTypeOK
<1>3. CASE RetryClicked
  BY <1>0, <1>3, <1>a, IdleKeeps DEF RetryClicked, hookVars
<1>4. CASE RetryAnswered
  <2>1. Forward
    <3>1. CASE version' = version
      BY <3>1, <1>a
    <3>2. ASSUME NEW v \in {version[retry] + 1} \cap 0..MaxVersion,
                 version' = [version EXCEPT ![retry] = v]
          PROVE  Forward
      BY <1>0, <3>2 DEF Forward, QueryTypeOK
    <3> QED
      BY <1>4, <3>1, <3>2 DEF RetryAnswered
  <2> QED
    BY <1>0, <1>4, <2>1, ReloadKeeps DEF RetryAnswered
<1>5. ASSUME NEW q \in live, ServeQuery(q) PROVE QueryInv'
  <2> DEFINE r == [q EXCEPT !.st = "served", !.ver = version[q.url]]
  <2>1. q \in Request /\ q.url \in Urls
    BY <1>0 DEF QueryTypeOK, Request
  <2>2. live' = {r} /\ r.url = q.url /\ r.ver = version[q.url]
    <3>1. live \ {q} = {}
      BY DEF QueryInv, OneRequest
    <3>2. live' = (live \ {q}) \cup {r}
      BY <1>5 DEF ServeQuery
    <3>3. r.url = q.url /\ r.ver = version[q.url]
      BY <2>1 DEF Request
    <3> QED
      BY <3>1, <3>2, <3>3
  <2> HIDE DEF r
  <2>3. OneRequest'
    BY <2>2 DEF OneRequest
  <2>4. ShownIsPast'
    BY <1>5 DEF ServeQuery, QueryInv, ShownIsPast
  <2>5. ServedIsNewer'
    <3>1. version[q.url] \in Nat
      BY <1>0, <2>1 DEF QueryTypeOK
    <3>2. q.url = data.url => data.ver <= version[q.url]
      BY <2>1 DEF QueryInv, ShownIsPast
    <3> QED
      BY <1>5, <2>1, <2>2, <3>1, <3>2 DEF ServeQuery, ServedIsNewer
  <2>6. AskedIsPresent'
    BY <1>5, <2>2 DEF ServeQuery, QueryInv, AskedIsPresent
  <2>7. ForeignOnlyWhileLoading'
    <3>1. \A p \in live : p = q
      BY DEF QueryInv, OneRequest
    <3> QED
      BY <1>5, <2>2, <3>1 DEF ServeQuery, QueryInv, ForeignOnlyWhileLoading
  <2> QED
    BY <1>0, <2>3, <2>4, <2>5, <2>6, <2>7 DEF QueryInv
<1>6. ASSUME NEW q \in live, LandQuery(q) PROVE QueryInv'
  <2>1. q \in Request /\ live' = {}
    BY <1>0, <1>6 DEF QueryTypeOK, LandQuery, QueryInv, OneRequest
  <2>2. OneRequest' /\ ServedIsNewer' /\ AskedIsPresent'
    BY <2>1 DEF OneRequest, ServedIsNewer, AskedIsPresent
  <2>3. ShownIsPast'
    BY <1>6, <2>1 DEF LandQuery, QueryInv, ServedIsNewer, ShownIsPast, Request
  <2>4. ForeignOnlyWhileLoading'
    BY <1>6, <2>1 DEF LandQuery, QueryInv, AskedIsPresent, ForeignOnlyWhileLoading
  <2> QED
    BY <1>0, <2>2, <2>3, <2>4 DEF QueryInv
<1>7. ASSUME NEW q \in live, QueryFails(q) PROVE QueryInv'
  <2>1. live' = {}
    BY <1>7 DEF QueryFails, QueryInv, OneRequest
  <2>2. OneRequest' /\ ServedIsNewer' /\ AskedIsPresent'
    BY <2>1 DEF OneRequest, ServedIsNewer, AskedIsPresent
  <2>3. ShownIsPast' /\ ForeignOnlyWhileLoading'
    BY <1>7 DEF QueryFails, QueryInv, ShownIsPast, ForeignOnlyWhileLoading
  <2> QED
    BY <1>0, <2>2, <2>3 DEF QueryInv
<1>8. ASSUME NEW u \in Urls, ServerChanges(u) PROVE QueryInv'
  <2>1. Forward
    BY <1>0, <1>8 DEF Forward, QueryTypeOK, ServerChanges
  <2> QED
    BY <1>0, <1>8, <2>1, IdleKeeps DEF ServerChanges, hookVars
<1>9. CASE ServerTalks
  BY <1>0, <1>9, <1>a, IdleKeeps DEF ServerTalks, hookVars
<1>10. CASE StreamBreaks
  BY <1>0, <1>10, <1>a, IdleKeeps DEF StreamBreaks, hookVars
<1>11. CASE StreamConnects
  BY <1>0, <1>11, <1>a, IdleKeeps DEF StreamConnects, hookVars
<1>12. ASSUME NEW n \in 1..MaxWire, Receive(n) PROVE QueryInv'
  <2>1. CASE wire[n] = "mine"
    BY <1>0, <1>12, <1>a, <2>1, ReloadKeeps DEF Receive, QueryTypeOK
  <2>2. CASE wire[n] # "mine"
    BY <1>0, <1>12, <1>a, <2>2, IdleKeeps DEF Receive
  <2> QED
    BY <2>1, <2>2
<1>13. CASE UNCHANGED queryVars
  BY <1>0, <1>13, <1>a, IdleKeeps DEF queryVars, hookVars
<1> QED
  BY <1>1, <1>2, <1>3, <1>4, <1>5, <1>6, <1>7, <1>8, <1>9, <1>10, <1>11, <1>12, <1>13 DEF QueryNext

(* A landed answer is not older than what it replaces.                      *)
LEMMA NeverBackStep ==
  QueryInv /\ [QueryNext]_queryVars => [data'.url = data.url => data'.ver >= data.ver]_queryVars
<1> SUFFICES ASSUME QueryInv, [QueryNext]_queryVars, data'.url = data.url
             PROVE  data'.ver >= data.ver
  OBVIOUS
<1>0. data.ver \in Nat
  BY DEF QueryInv, QueryTypeOK, NoData
<1>1. CASE data' = data
  BY <1>0, <1>1
<1>2. ASSUME NEW q \in live, LandQuery(q) PROVE data'.ver >= data.ver
  <2>1. q.st = "served" /\ data'.url = q.url /\ data'.ver = q.ver /\ q.ver \in Nat
    BY <1>2 DEF LandQuery, QueryInv, QueryTypeOK, Request
  <2> QED
    BY <1>0, <2>1 DEF QueryInv, ServedIsNewer
<1>3. data' = data \/ \E q \in live : LandQuery(q)
  BY DEF QueryNext, ChangeUrl, PollReload, RetryClicked, RetryAnswered, ServeQuery, QueryFails,
         ServerChanges, ServerTalks, StreamBreaks, StreamConnects, Receive, queryVars, hookVars
<1> QED
  BY <1>1, <1>2, <1>3

(* useApi.ts: however polls, events, the button and changes of the url      *)
(* overlap, what is shown of a url is not replaced by anything older.       *)
THEOREM NeverGoesBackHolds == QuerySpec => NeverGoesBack
<1> QED
  BY InvInit, InvStep, NeverBackStep, PTL DEF QuerySpec, NeverGoesBack

(* useApi.ts: the data of another url is on the screen only while the       *)
(* present one is asked for, with an error, or after the button.            *)
THEOREM ForeignOnlyWhileLoadingHolds == QuerySpec => []ForeignOnlyWhileLoading
<1>1. QueryInv => ForeignOnlyWhileLoading
  BY DEF QueryInv
<1> QED
  BY <1>1, InvInit, InvStep, PTL DEF QuerySpec

-----------------------------------------------------------------------------
(* The list of migrations. What the browser has of a row is what the server *)
(* had of it at the version it carries; a row that is not changed since is  *)
(* the row the button was drawn for, and the tables of phases agree on it.  *)
RowActs == {"run", "pause", "resume", "stop", "delete"}
PostType == [id : Mig, act : RowActs, saw : Nat, n : Nat, st : {"sent", "accepted", "refused"}]

Tables == [Mig -> RowType]

ControlsTyped ==
  /\ unseen \in BOOLEAN /\ asked \in 0..MaxLoad
  /\ view \in {"loading", "error", "rows"} /\ filter \in Filters
  /\ bulkIds \subseteq Mig /\ actionBusy \in Mig \cup {None}
  /\ bulkOp \in BulkOps \cup {None} /\ call \in [Mig -> CallState]
  /\ clicks \in 0..MaxClick /\ faults \in 0..MaxFault

ListTyped ==
  /\ row \in Tables /\ shown \in Tables
  /\ answered \subseteq Tables /\ IsFiniteSet(answered)
  /\ posts \subseteq PostType
  /\ ControlsTyped

OldOrTrue(rows, table) ==
  \A m \in Mig :
    /\ rows[m].gen <= table[m].gen
    /\ (rows[m].gen = table[m].gen /\ rows[m].phase # Gone) => rows[m] = table[m]

CopiesAreOld == OldOrTrue(shown, row) /\ \A a \in answered : OldOrTrue(a, row)

(* A request not served yet was offered for a version of its row; if that  *)
(* is still the present one, the server accepts it.                        *)
PostsAreFit ==
  \A p \in posts : p.st = "sent" =>
    /\ p.saw <= row[p.id].gen
    /\ p.saw = row[p.id].gen => Accepts(p.act, row[p.id])

PostsDiffer ==
  /\ \A p \in posts : p.n < clicks
  /\ \A p, q \in posts : p.n = q.n => p = q

ListInv == ListTyped /\ CopiesAreOld /\ PostsAreFit /\ PostsDiffer

(* The console's tables of phases offer nothing that the server's refuse.  *)
LEMMA OffersAreAccepted ==
  ASSUME NEW r, NEW act \in RowActions(r), r.phase # Gone
  PROVE  Accepts(act, r)
<1>1. CASE act = "run" /\ r.phase = "DRAFT"
  BY <1>1 DEF Accepts, Gone
<1>2. CASE act = "pause" /\ r.phase \in ConsoleActive
  <2>1. r.phase \in ServerActive
    BY <1>2 DEF ConsoleActive, ServerActive
  <2> QED
    BY <1>2, <2>1 DEF Accepts
<1>3. CASE act \in {"resume", "stop"}
  BY <1>3 DEF Accepts
<1>4. CASE act = "delete" /\ r.phase \in ConsoleDeletable
  <2>1. r.phase \in ServerDeletable
    BY <1>4 DEF ConsoleDeletable, ServerDeletable
  <2> QED
    BY <1>4, <2>1 DEF Accepts
<1> QED
  BY <1>1, <1>2, <1>3, <1>4 DEF RowActions

(* What an accepted request makes of a phase and of the paused flag.       *)
LEMMA EffectParts ==
  ASSUME NEW r, r.phase \in ValidPhases \cup {Gone}, r.paused \in BOOLEAN, NEW act
  PROVE  /\ Target(act, r) \in ValidPhases \cup {Gone}
         /\ (CASE act = "pause" -> TRUE [] act = "resume" -> FALSE [] OTHER -> r.paused) \in BOOLEAN
<1> DEFINE P == ValidPhases \cup {Gone}
<1>1. \A x \in {"NEW", "CANCELLING", "DATA_VERIFYING", "COMPLETED", Gone, "INDEXES_ENABLING",
               "BASELINE_PUBLISHING", "BULK_LOADING"} : x \in P
  BY DEF ValidPhases, ServerActive
<1>2. r.phase \in P
  OBVIOUS
<1>3. Target(act, r) \in P
  <2> HIDE DEF P
  <2> QED
    BY <1>1, <1>2, Zenon DEF Target
<1>4. (CASE act = "pause" -> TRUE [] act = "resume" -> FALSE [] OTHER -> r.paused) \in BOOLEAN
  OBVIOUS
<1> QED
  BY <1>3, <1>4

(* A served request and a move of the orchestrator make a new version of   *)
(* one row and leave the others alone.                                     *)
LEMMA EffectType ==
  ASSUME NEW r \in RowType, NEW act
  PROVE  Changed(Effect(act, r)) \in RowType /\ Changed(Effect(act, r)).gen = r.gen + 1
<1> DEFINE t == Target(act, r)
           b == CASE act = "pause" -> TRUE [] act = "resume" -> FALSE [] OTHER -> r.paused
<1>1. t \in ValidPhases \cup {Gone} /\ b \in BOOLEAN
  BY EffectParts DEF RowType
<1>2. Effect(act, r) = [r EXCEPT !.phase = t, !.paused = b]
  BY DEF Effect, RowType
<1> HIDE DEF t, b
<1>3. Effect(act, r) \in RowType /\ Effect(act, r).gen = r.gen
  BY <1>1, <1>2 DEF RowType
<1> QED
  BY <1>3 DEF Changed, RowType

Advances ==
  /\ row' \in Tables
  /\ \A m \in Mig : row'[m] = row[m] \/ row'[m].gen = row[m].gen + 1

LEMMA ServeAdvances ==
  ASSUME row \in Tables, unseen \in BOOLEAN, NEW m \in Mig, NEW act, Serve(m, act)
  PROVE  Advances /\ unseen' \in BOOLEAN /\ (~Accepts(act, row[m]) => row' = row)
<1>1. CASE Accepts(act, row[m])
  <2> DEFINE r == Changed(Effect(act, row[m]))
  <2>1. r \in RowType /\ r.gen = row[m].gen + 1
    BY EffectType DEF Tables
  <2>2. row' = [row EXCEPT ![m] = r] /\ unseen' \in BOOLEAN
    BY <1>1 DEF Serve
  <2> HIDE DEF r
  <2> QED
    BY <1>1, <2>1, <2>2 DEF Advances, Tables
<1>2. CASE ~Accepts(act, row[m])
  BY <1>2 DEF Serve, serverVars, Advances
<1> QED
  BY <1>1, <1>2

LEMMA OrchestrateAdvances ==
  ASSUME row \in Tables, NEW m \in Mig, Orchestrate(m)
  PROVE  Advances
<1>1. PICK move \in Moves : row' = [row EXCEPT ![m] = Changed([@ EXCEPT !.phase = move[2]])]
  BY DEF Orchestrate
<1>2. move[2] \in ValidPhases
  BY ListAssumption
<1> DEFINE moved == [row[m] EXCEPT !.phase = move[2]]
           r == Changed(moved)
<1>3. r \in RowType /\ r.gen = row[m].gen + 1
  <2>1. row[m] \in RowType
    BY DEF Tables
  <2>2. moved \in RowType /\ moved.gen = row[m].gen
    BY <1>2, <2>1 DEF RowType
  <2> HIDE DEF moved
  <2> QED
    BY <2>1, <2>2 DEF Changed, RowType
<1>4. row' = [row EXCEPT ![m] = r]
  BY <1>1
<1> HIDE DEF r
<1> QED
  BY <1>3, <1>4 DEF Advances, Tables

(* What is old stays old.                                                  *)
LEMMA OldStaysOld ==
  ASSUME row \in Tables, Advances, NEW rows \in Tables, OldOrTrue(rows, row)
  PROVE  OldOrTrue(rows, row')
<1> SUFFICES ASSUME NEW m \in Mig
             PROVE  /\ rows[m].gen <= row'[m].gen
                    /\ (rows[m].gen = row'[m].gen /\ rows[m].phase # Gone) => rows[m] = row'[m]
  BY DEF OldOrTrue
<1>1. rows[m].gen \in Nat /\ row[m].gen \in Nat /\ rows[m].gen <= row[m].gen
  BY DEF Tables, RowType, OldOrTrue
<1>2. CASE row'[m] = row[m]
  BY <1>1, <1>2 DEF OldOrTrue
<1>3. CASE row'[m].gen = row[m].gen + 1
  BY <1>1, <1>3
<1> QED
  BY <1>2, <1>3 DEF Advances

(* The bound on the requests under way.                                    *)
LEMMA LoadType ==
  ASSUME IsFiniteSet(answered), asked \in 0..MaxLoad, Load
  PROVE  asked' \in 0..MaxLoad
<1>1. Cardinality(answered) \in Nat /\ MaxLoad \in Nat
  BY FS_CardinalityType, ListAssumption
<1> QED
  BY <1>1 DEF Load

(* Steps that leave the server and the requests of the operator alone.     *)
Untouched == row' = row /\ posts' = posts /\ clicks' = clicks

LEMMA UntouchedKeeps ==
  ASSUME ListInv, Untouched PROVE PostsAreFit' /\ PostsDiffer'
BY DEF ListInv, Untouched, PostsAreFit, PostsDiffer

(* Steps that leave the copies alone, whatever they do to the server.      *)
LEMMA CopiesKept ==
  ASSUME ListInv, Advances, UNCHANGED <<answered, shown>> PROVE CopiesAreOld'
<1>1. row \in Tables /\ shown \in Tables /\ answered \subseteq Tables
  BY DEF ListInv, ListTyped
<1> QED
  BY <1>1, OldStaysOld DEF ListInv, CopiesAreOld

LEMMA Idle == row \in Tables /\ row' = row => Advances
BY DEF Advances

-----------------------------------------------------------------------------
LEMMA ListInvInit == ListInit => ListInv
<1> SUFFICES ASSUME ListInit PROVE ListInv
  OBVIOUS
<1> DEFINE none == [phase |-> Gone, paused |-> FALSE, error |-> None, cdc |-> TRUE, gen |-> 0]
<1>1. row \in Tables
  BY ListAssumption DEF ListInit, Tables
<1>2. none \in RowType /\ none.gen = 0 /\ none.phase = Gone
  BY DEF RowType
<1>3. shown = [m \in Mig |-> none]
  BY DEF ListInit
<1> HIDE DEF none
<1>4. shown \in Tables
  BY <1>2, <1>3 DEF Tables
<1>5. ControlsTyped
  <2>1. asked \in 0..MaxLoad /\ clicks \in 0..MaxClick /\ faults \in 0..MaxFault
    BY ListAssumption DEF ListInit
  <2>2. call \in [Mig -> CallState]
    BY DEF ListInit, CallState
  <2>3. filter \in Filters
    BY ListAssumption DEF ListInit
  <2> QED
    BY <2>1, <2>2, <2>3 DEF ListInit, ControlsTyped
<1>6. ListTyped
  BY <1>1, <1>4, <1>5, FS_EmptySet DEF ListInit, ListTyped
<1>7. OldOrTrue(shown, row)
  <2> SUFFICES ASSUME NEW m \in Mig
               PROVE  shown[m].gen <= row[m].gen /\ shown[m].phase = Gone
    BY DEF OldOrTrue
  <2>1. row[m].gen \in Nat
    BY <1>1 DEF Tables, RowType
  <2> QED
    BY <1>2, <1>3, <2>1
<1>8. CopiesAreOld /\ PostsAreFit /\ PostsDiffer
  BY <1>7 DEF ListInit, CopiesAreOld, PostsAreFit, PostsDiffer
<1> QED
  BY <1>6, <1>8 DEF ListInv

(* A row action that is clicked is a new request, fit for the row it was   *)
(* drawn for.                                                              *)
LEMMA ClickKeeps ==
  ASSUME ListInv, NEW m \in Mig, NEW act \in RowActs, ClickRow(m, act)
  PROVE  ListInv'
<1> DEFINE p == [id |-> m, act |-> act, saw |-> shown[m].gen, n |-> clicks, st |-> "sent"]
<1>1. row \in Tables /\ shown \in Tables /\ clicks \in Nat
  BY DEF ListInv, ListTyped, ControlsTyped
<1>2. p \in PostType /\ p.id = m /\ p.act = act /\ p.saw = shown[m].gen /\ p.n = clicks
  BY <1>1 DEF PostType, Tables, RowType
<1>3. posts' = posts \cup {p} /\ clicks' = clicks + 1
  BY DEF ClickRow
<1>4. UNCHANGED <<row, shown, answered>>
  BY DEF ClickRow, serverVars, loadVars
<1> HIDE DEF p
<1>5. ControlsTyped'
  BY ListAssumption DEF ListInv, ListTyped, ControlsTyped, ClickRow, serverVars, loadVars, bulkVars
<1>6. ListTyped'
  BY <1>2, <1>3, <1>4, <1>5 DEF ListInv, ListTyped
<1>7. CopiesAreOld'
  BY <1>1, <1>4, CopiesKept, Idle
<1>8. PostsAreFit'
  <2>1. act \in RowActions(shown[m]) /\ shown[m].phase # Gone
    BY DEF ClickRow, RowOffers, Drawn, Visible, Listed
  <2>2. Accepts(act, shown[m])
    BY <2>1, OffersAreAccepted
  <2>3. p.saw <= row[m].gen /\ (p.saw = row[m].gen => Accepts(act, row[m]))
    BY <1>2, <2>1, <2>2 DEF ListInv, CopiesAreOld, OldOrTrue
  <2> QED
    BY <1>2, <1>3, <1>4, <2>3 DEF ListInv, PostsAreFit
<1>9. PostsDiffer'
  <2>1. \A q \in posts : q.n \in Nat /\ q.n < clicks
    BY DEF ListInv, ListTyped, PostType, PostsDiffer
  <2>2. \A q \in posts' : q.n < clicks'
    BY <1>1, <1>2, <1>3, <2>1
  <2>3. \A q \in posts : q.n # p.n
    BY <1>1, <1>2, <2>1
  <2> QED
    BY <1>3, <2>2, <2>3 DEF ListInv, PostsDiffer
<1> QED
  BY <1>6, <1>7, <1>8, <1>9 DEF ListInv

(* The rows move on and some requests are taken off or marked: those not   *)
(* served yet stay fit.                                                    *)
LEMMA FitStaysFit ==
  ASSUME ListInv, Advances,
         \A p \in posts' : p.st = "sent" => p \in posts
  PROVE  PostsAreFit'
<1> SUFFICES ASSUME NEW p \in posts, p.st = "sent"
             PROVE  /\ p.saw <= row'[p.id].gen
                    /\ p.saw = row'[p.id].gen => Accepts(p.act, row'[p.id])
  BY DEF PostsAreFit
<1>1. p.id \in Mig /\ p.saw \in Nat /\ row \in Tables
  BY DEF ListInv, ListTyped, PostType
<1>2. row[p.id].gen \in Nat /\ p.saw <= row[p.id].gen
  BY <1>1 DEF Tables, RowType, ListInv, PostsAreFit
<1>3. CASE row'[p.id] = row[p.id]
  BY <1>3 DEF ListInv, PostsAreFit
<1>4. CASE row'[p.id].gen = row[p.id].gen + 1
  BY <1>1, <1>2, <1>4
<1> QED
  BY <1>1, <1>3, <1>4 DEF Advances

(* One request is marked or taken off.                                     *)
LEMMA ServedKeeps ==
  ASSUME ListInv, NEW p \in posts, p.st = "sent", NEW o \in {"accepted", "refused"}, Advances,
         UNCHANGED <<answered, shown, clicks>>, ControlsTyped',
         posts' = (posts \ {p}) \cup {[p EXCEPT !.st = o]}
  PROVE  ListInv'
<1> DEFINE q == [p EXCEPT !.st = o]
<1>1. q \in PostType /\ q.n = p.n /\ q.st = o
  BY DEF ListInv, ListTyped, PostType
<1> HIDE DEF q
<1>2. posts' = (posts \ {p}) \cup {q}
  BY DEF q
<1>3. ListTyped'
  BY <1>1, <1>2 DEF ListInv, ListTyped, Advances
<1>4. PostsAreFit'
  BY <1>1, <1>2, FitStaysFit
<1>5. PostsDiffer'
  BY <1>1, <1>2 DEF ListInv, PostsDiffer
<1> QED
  BY <1>3, <1>4, <1>5, CopiesKept DEF ListInv

LEMMA TakenOffKeeps ==
  ASSUME ListInv, NEW p \in posts, posts' = posts \ {p},
         UNCHANGED <<row, answered, shown, clicks>>, ControlsTyped'
  PROVE  ListInv'
<1>1. Advances
  BY Idle DEF ListInv, ListTyped
<1>2. ListTyped'
  BY DEF ListInv, ListTyped
<1>3. PostsAreFit' /\ PostsDiffer'
  BY <1>1, FitStaysFit DEF ListInv, PostsDiffer
<1> QED
  BY <1>1, <1>2, <1>3, CopiesKept DEF ListInv

(* Whatever the server and the bulk action do, row actions and copies      *)
(* stay as they are.                                                       *)
LEMMA BesideKeeps ==
  ASSUME ListInv, Advances, UNCHANGED <<posts, clicks, answered, shown>>, ControlsTyped'
  PROVE  ListInv'
<1>1. ListTyped'
  BY DEF ListInv, ListTyped, Advances
<1>2. PostsAreFit' /\ PostsDiffer'
  BY FitStaysFit DEF ListInv, PostsDiffer
<1> QED
  BY <1>1, <1>2, CopiesKept DEF ListInv

LEMMA ListInvStep == ListInv /\ [ListNext]_listVars => ListInv'
<1> SUFFICES ASSUME ListInv, [ListNext]_listVars PROVE ListInv'
  OBVIOUS
<1> USE DEF ControlsTyped
<1>0. /\ ListTyped /\ row \in Tables /\ shown \in Tables
      /\ answered \subseteq Tables /\ IsFiniteSet(answered) /\ ControlsTyped
      /\ MaxClick \in Nat /\ MaxFault \in Nat
  BY ListAssumption DEF ListInv, ListTyped
<1>a. ASSUME row' = row PROVE Advances
  BY <1>0, <1>a, Idle
<1>b. ASSUME Load PROVE asked' \in 0..MaxLoad
  BY <1>0, <1>b, LoadType
<1>c. \A n \in 0..MaxFault : n < MaxFault => n + 1 \in 0..MaxFault
  BY <1>0
<1>d. \A n \in 0..MaxLoad : n > 0 => n - 1 \in 0..MaxLoad
  BY ListAssumption
<1>1. ASSUME NEW m \in Mig, Orchestrate(m) PROVE ListInv'
  <2>1. Advances
    BY <1>0, <1>1, OrchestrateAdvances
  <2> QED
    BY <1>0, <1>1, <2>1, BesideKeeps DEF Orchestrate, loadVars, bulkVars
<1>2. ASSUME NEW m \in Mig, ToggleBulk(m) PROVE ListInv'
  <2>1. ControlsTyped'
    BY <1>0, <1>2 DEF ToggleBulk, serverVars, loadVars, bulkVars
  <2> QED
    BY <1>a, <1>2, <2>1, BesideKeeps DEF ToggleBulk, serverVars, loadVars
<1>3. ASSUME NEW m \in Mig, NEW act \in RowActs, ClickRow(m, act) PROVE ListInv'
  BY <1>3, ClickKeeps
<1>4. ASSUME NEW p \in posts, ServePost(p) PROVE ListInv'
  <2> DEFINE o == IF Accepts(p.act, row[p.id]) THEN "accepted" ELSE "refused"
  <2>1. p.id \in Mig
    BY DEF ListInv, ListTyped, PostType
  <2>2. Advances /\ unseen' \in BOOLEAN
    BY <1>0, <1>4, <2>1, ServeAdvances DEF ServePost
  <2>3. ControlsTyped'
    BY <1>0, <1>4, <2>2 DEF ServePost, loadVars, bulkVars
  <2>4. o \in {"accepted", "refused"} /\ posts' = (posts \ {p}) \cup {[p EXCEPT !.st = o]}
    BY <1>4 DEF ServePost
  <2> HIDE DEF o
  <2> QED
    BY <1>4, <2>2, <2>3, <2>4, ServedKeeps DEF ServePost, loadVars
<1>5. ASSUME NEW p \in posts, PostAnswered(p) PROVE ListInv'
  <2>1. ControlsTyped'
    BY <1>0, <1>b, <1>5 DEF PostAnswered, serverVars, bulkVars
  <2> QED
    BY <1>5, <2>1, TakenOffKeeps DEF PostAnswered, serverVars
<1>6. ASSUME NEW p \in posts, PostLost(p) PROVE ListInv'
  <2>1. ControlsTyped'
    BY <1>0, <1>c, <1>6 DEF PostLost, serverVars, loadVars, bulkVars
  <2> QED
    BY <1>6, <2>1, TakenOffKeeps DEF PostLost, serverVars, loadVars
<1>7. ASSUME NEW op \in BulkOps, ClickBulk(op) PROVE ListInv'
  <2>1. ListTyped' /\ ControlsTyped'
    <3>1. call' \in [Mig -> CallState]
      BY <1>7 DEF ClickBulk, CallState
    <3>2. clicks' \in 0..MaxClick
      BY <1>0, <1>7 DEF ClickBulk
    <3>3. ControlsTyped'
      BY <1>0, <1>7, <3>1, <3>2 DEF ClickBulk, serverVars, loadVars
    <3> QED
      BY <1>0, <1>7, <3>3 DEF ClickBulk, serverVars, loadVars, ListTyped
  <2>2. PostsAreFit'
    BY <1>a, <1>7, FitStaysFit DEF ClickBulk, serverVars
  <2>3. PostsDiffer'
    <3>1. \A q \in posts : q.n \in Nat /\ q.n < clicks
      BY DEF ListInv, ListTyped, PostType, PostsDiffer
    <3>2. \A q \in posts : q.n < clicks + 1
      BY <1>0, <3>1
    <3> QED
      BY <1>7, <3>2 DEF ClickBulk, ListInv, PostsDiffer
  <2>4. CopiesAreOld'
    BY <1>a, <1>7, CopiesKept DEF ClickBulk, serverVars, loadVars
  <2> QED
    BY <2>1, <2>2, <2>3, <2>4 DEF ListInv
<1>8. ASSUME NEW m \in Mig, BulkSend(m) PROVE ListInv'
  <2>1. ControlsTyped'
    BY <1>0, <1>8 DEF BulkSend, CallState, serverVars, loadVars
  <2> QED
    BY <1>a, <1>8, <2>1, BesideKeeps DEF BulkSend, serverVars, loadVars
<1>9. ASSUME NEW m \in Mig, BulkServe(m) PROVE ListInv'
  <2>1. Advances /\ unseen' \in BOOLEAN
    BY <1>0, <1>9, ServeAdvances DEF BulkServe
  <2>2. ControlsTyped'
    BY <1>0, <1>9, <2>1 DEF BulkServe, CallState, loadVars
  <2> QED
    BY <1>9, <2>1, <2>2, BesideKeeps DEF BulkServe, loadVars
<1>10. ASSUME NEW m \in Mig, BulkAnswered(m) PROVE ListInv'
  <2>1. ControlsTyped'
    BY <1>0, <1>10 DEF BulkAnswered, CallState, serverVars, loadVars
  <2> QED
    BY <1>a, <1>10, <2>1, BesideKeeps DEF BulkAnswered, serverVars, loadVars
<1>11. ASSUME NEW m \in Mig, BulkLost(m) PROVE ListInv'
  <2>1. ControlsTyped'
    BY <1>0, <1>c, <1>11 DEF BulkLost, CallState, serverVars, loadVars
  <2> QED
    BY <1>a, <1>11, <2>1, BesideKeeps DEF BulkLost, serverVars, loadVars
<1>12. CASE SeeEvent \/ MissEvent \/ Poll
  <2>1. ControlsTyped'
    BY <1>0, <1>b, <1>12 DEF SeeEvent, MissEvent, Poll, serverVars, loadVars, bulkVars
  <2> QED
    BY <1>a, <1>12, <2>1, BesideKeeps DEF SeeEvent, MissEvent, Poll, serverVars, loadVars
<1>13. CASE ServeList
  <2>1. ControlsTyped'
    BY <1>0, <1>d, <1>13 DEF ServeList, serverVars, bulkVars
  <2>2. ListTyped' /\ Untouched
    BY <1>0, <1>13, <2>1, FS_AddElement DEF ServeList, ListTyped, serverVars, Untouched
  <2>3. OldOrTrue(row, row)
    BY <1>0 DEF OldOrTrue, Tables, RowType
  <2>4. CopiesAreOld'
    BY <1>13, <2>3 DEF ServeList, serverVars, ListInv, CopiesAreOld
  <2> QED
    BY <2>2, <2>4, UntouchedKeeps DEF ListInv
<1>14. ASSUME NEW a \in answered, LandList(a) PROVE ListInv'
  <2>1. ControlsTyped'
    BY <1>0, <1>14 DEF LandList, Pruned, serverVars, bulkVars
  <2>2. IsFiniteSet(answered \ {a})
    BY <1>0, FS_RemoveElement
  <2>3. ListTyped' /\ Untouched
    BY <1>0, <1>14, <2>1, <2>2 DEF LandList, ListTyped, serverVars, Untouched
  <2>4. CopiesAreOld'
    BY <1>14 DEF LandList, serverVars, ListInv, CopiesAreOld
  <2> QED
    BY <2>3, <2>4, UntouchedKeeps DEF ListInv
<1>15. CASE ListFails
  <2>1. ControlsTyped'
    BY <1>0, <1>c, <1>d, <1>15 DEF ListFails, serverVars, bulkVars
  <2> QED
    BY <1>a, <1>15, <2>1, BesideKeeps DEF ListFails, serverVars
<1>16. CASE ChooseFilter \/ SelectVisible
  <2>1. ControlsTyped'
    BY <1>0, <1>16 DEF ChooseFilter, SelectVisible, Pills, Visible, Listed, serverVars, loadVars,
                       bulkVars
  <2> QED
    BY <1>a, <1>16, <2>1, BesideKeeps DEF ChooseFilter, SelectVisible, serverVars, loadVars
<1>17. CASE BulkEnd
  <2>1. ControlsTyped'
    BY <1>0, <1>b, <1>17 DEF BulkEnd, CallState, serverVars
  <2> QED
    BY <1>a, <1>17, <2>1, BesideKeeps DEF BulkEnd, serverVars
<1>18. CASE UNCHANGED listVars
  <2>1. ControlsTyped'
    BY <1>0, <1>18 DEF listVars
  <2> QED
    BY <1>a, <1>18, <2>1, BesideKeeps DEF listVars
<1> QED
  BY <1>1, <1>2, <1>3, <1>4, <1>5, <1>6, <1>7, <1>8, <1>9, <1>10, <1>11, <1>12, <1>13, <1>14,
     <1>15, <1>16, <1>17, <1>18 DEF ListNext, RowActs

(* What the invariant of the list says of the types.                        *)
LEMMA ListInvTypes == ListInv => ListTypeOK
<1> SUFFICES ASSUME ListInv PROVE ListTypeOK
  OBVIOUS
<1>1. \A m \in Mig : row[m].gen \in Nat /\ shown[m].gen \in Nat
  BY DEF ListInv, ListTyped, Tables, RowType
<1> QED
  BY <1>1 DEF ListInv, ListTyped, ControlsTyped, ListTypeOK

(* Every reachable state of the list of migrations is well typed, whatever  *)
(* the rows, and however many requests are under way.                       *)
THEOREM ListTypeCorrect == ListSpec => []ListTypeOK
<1> QED
  BY ListInvTypes, ListInvInit, ListInvStep, PTL DEF ListSpec

(* A request that is refused was not fit for the row it met.                *)
LEMMA RefusedStep ==
  ASSUME ListInv, [ListNext]_listVars, NEW p \in posts, p.st = "sent",
         [p EXCEPT !.st = "refused"] \in posts'
  PROVE  row[p.id].gen # p.saw
<1> DEFINE q == [p EXCEPT !.st = "refused"]
<1>1. p \in PostType /\ q.n = p.n /\ q.st = "refused"
  BY DEF ListInv, ListTyped, PostType
<1> HIDE DEF q
<1>2. q \notin posts
  BY <1>1 DEF ListInv, PostsDiffer
<1>3. q \in posts'
  BY DEF q
<1>4. PICK x \in posts : ServePost(x)
  <2>1. ASSUME NEW m \in Mig, NEW act, ClickRow(m, act) PROVE FALSE
    <3> DEFINE c == [id |-> m, act |-> act, saw |-> shown[m].gen, n |-> clicks, st |-> "sent"]
    <3>1. posts' = posts \cup {c} /\ c.st = "sent"
      BY <2>1 DEF ClickRow
    <3> HIDE DEF c
    <3> QED
      BY <1>1, <1>2, <1>3, <3>1
  <2>2. posts' \subseteq posts \/ \E x \in posts : ServePost(x)
    BY <2>1 DEF ListNext, Orchestrate, ToggleBulk, PostAnswered, PostLost, ClickBulk, BulkSend,
                BulkServe, BulkAnswered, BulkLost, SeeEvent, MissEvent, Poll, ServeList, ListFails,
                LandList, ChooseFilter, SelectVisible, BulkEnd, listVars
  <2> QED
    BY <1>2, <1>3, <2>2
<1> DEFINE y == [x EXCEPT !.st = IF Accepts(x.act, row[x.id]) THEN "accepted" ELSE "refused"]
<1>5. /\ posts' = (posts \ {x}) \cup {y} /\ y.n = x.n
      /\ y.st = "refused" => ~Accepts(x.act, row[x.id])
  BY <1>4 DEF ServePost, ListInv, ListTyped, PostType
<1> HIDE DEF y
<1>6. q = y /\ x = p
  <2>1. q = y
    BY <1>2, <1>3, <1>5
  <2> QED
    BY <1>1, <1>5, <2>1 DEF ListInv, PostsDiffer
<1>7. ~Accepts(p.act, row[p.id])
  BY <1>1, <1>5, <1>6
<1> QED
  BY <1>7 DEF ListInv, PostsAreFit

(* The server refuses a row action only when the row has changed since its  *)
(* button was drawn: the console's tables of phases offer nothing that the  *)
(* server's refuse, and a copy of the present version is a true one.        *)
THEOREM RefusedOnlyIfStaleHolds == ListSpec => RefusedOnlyIfStale
<1>1. ListInv /\ [ListNext]_listVars
        => [\A p \in posts : (p.st = "sent" /\ [p EXCEPT !.st = "refused"] \in posts')
                                => row[p.id].gen # p.saw]_listVars
  BY RefusedStep
<1> QED
  BY <1>1, ListInvInit, ListInvStep, PTL DEF ListSpec, RefusedOnlyIfStale

-----------------------------------------------------------------------------
(***************************************************************************)
(* The two parts of the console together: what the open one does is a step *)
(* of that part, and the other stays as it is.                             *)
(***************************************************************************)
(* useApi, MigrationList: what a query and the list of migrations keep has *)
(* the types the code gives it, whichever of them is open.                 *)
THEOREM ConsoleTypeCorrect == ConsoleSpec => []ConsoleTypeOK
<1>1. ConsoleInit => QueryTypeOK /\ ListInv
  BY TypeInit, ListInvInit DEF ConsoleInit
<1>2. [QueryStep \/ ListStep]_consoleVars => [QueryNext]_queryVars /\ [ListNext]_listVars
  BY DEF QueryStep, ListStep, OfQuery, OfList, consoleVars
<1>3. QueryTypeOK /\ ListInv /\ [QueryStep \/ ListStep]_consoleVars => QueryTypeOK' /\ ListInv'
  BY <1>2, TypeStep, ListInvStep
<1>4. QueryTypeOK /\ ListInv => ConsoleTypeOK
  BY ListInvTypes DEF ConsoleTypeOK
<1> QED
  BY <1>1, <1>3, <1>4, PTL DEF ConsoleSpec
=============================================================================
