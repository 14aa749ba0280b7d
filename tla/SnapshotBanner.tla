--------------------------- MODULE SnapshotBanner ---------------------------
(***************************************************************************)
(* The banner that loads a DDL snapshot (dashboard/LoadSnapshotBanner.tsx, *)
(* routes/catalog.py).  The end of a load reaches it twice: as the answer  *)
(* of the request, in the closure of the render the button was clicked in, *)
(* and as an event that may be lost, or be left over from a load before.   *)
(* Each ends the progress bar and asks for the latest snapshot again.      *)
(***************************************************************************)
EXTENDS Naturals, FiniteSets, FiniteSetsExt

CONSTANTS
  SchemaPairs,     \* pairs of a source and a target schema
  MaxLoad          \* bound: loads, each with the number of its snapshot

ASSUME BannerAssumption == IsFiniteSet(SchemaPairs) /\ MaxLoad \in Nat

VARIABLES
  latest,          \* pair -> the snapshot that was begun last among those committed; 0: none
  loads,           \* requests to load: [pair, id, own, st]; id 0 before the server begins
  heard,           \* pair -> the newest snapshot event of the pair in sseEvents
  pair,            \* the pair of the migration that is shown
  shownSnapshot,   \* snapshot.data, with the pair it is of; id 0: null
  query,           \* the request for the latest snapshot that is not aborted, or NoSnapshotQuery
  loading,         \* the progress bar
  loadErr,         \* the error banner
  mine,            \* history: pair -> the newest snapshot this page was told it has loaded
  crossed,         \* history: a load of another pair was answered since the pair was chosen
  queryErr         \* the last request for the latest snapshot failed

bannerVars == <<latest, loads, heard, pair, shownSnapshot, query, loading, loadErr, mine, crossed, queryErr>>

NoSnapshotQuery == [of |-> "none", id |-> 0, st |-> "none"]
Begun == {l.id : l \in {k \in loads : k.id > 0}} \cup {latest[p] : p \in SchemaPairs}
Bump(f, p, n) == [f EXCEPT ![p] = IF n > @ THEN n ELSE @]

BannerTypeOK ==
  /\ \A p \in SchemaPairs : latest[p] \in 0..MaxLoad /\ mine[p] \in 0..MaxLoad
                            /\ heard[p] \in {"none", "progress", "complete"}
  /\ {pair, shownSnapshot.of} \subseteq SchemaPairs /\ query.of \in SchemaPairs \cup {"none"}
  /\ {loading, loadErr, crossed, queryErr} \subseteq BOOLEAN

-----------------------------------------------------------------------------
(* The server: load_catalog, one transaction.                              *)

\* An event is heard, or lost.
Event(p, e) == heard' \in {heard, [heard EXCEPT ![p] = e]}
LoadBecomes(l, k) == loads' = (loads \ {l}) \cup {k}

ServerBegins(l) ==
  /\ l \in loads /\ l.st = "sent"
  /\ LoadBecomes(l, [l EXCEPT !.id = 1 + Max(Begun), !.st = "begun"]) /\ Event(l.pair, "progress")
  /\ UNCHANGED <<latest, pair, shownSnapshot, query, loading, loadErr, mine, crossed, queryErr>>
ServerCommits(l) ==
  /\ l \in loads /\ l.st = "begun"
  /\ latest' = Bump(latest, l.pair, l.id) /\ Event(l.pair, "complete") /\ LoadBecomes(l, [l EXCEPT !.st = "ok"])
  /\ UNCHANGED <<pair, shownSnapshot, query, loading, loadErr, mine, crossed, queryErr>>
ServerFails(l) ==
  /\ l \in loads /\ l.st \in {"sent", "begun"} /\ LoadBecomes(l, [l EXCEPT !.st = "failed"])
  /\ UNCHANGED <<latest, heard, pair, shownSnapshot, query, loading, loadErr, mine, crossed, queryErr>>

-----------------------------------------------------------------------------
(* The banner.                                                             *)

\* useApi: a request aborts the one before it.
ReloadSnapshot(p) == query' = [of |-> p, id |-> 0, st |-> "asked"]

AskLoad(own, p) == Cardinality(loads) < MaxLoad /\ loads' = loads \cup {[pair |-> p, id |-> 0, own |-> own, st |-> "sent"]}

\* What the banner draws: a snapshot only when nothing else is to be told.  Its button loads.
Drawing == IF loading THEN "progress" ELSE IF loadErr THEN "error" ELSE IF shownSnapshot.id > 0 THEN "snapshot" ELSE "none"

StartLoad ==
  /\ Drawing # "progress" /\ loading' = TRUE /\ loadErr' = FALSE /\ AskLoad(TRUE, pair)
  /\ UNCHANGED <<latest, heard, pair, shownSnapshot, query, mine, crossed, queryErr>>

\* The effect on sseEvents and loading: the newest event of the pair, of whichever load it is.
SeeComplete ==
  /\ loading /\ heard[pair] = "complete" /\ loading' = FALSE /\ ReloadSnapshot(pair)
  /\ UNCHANGED <<latest, loads, heard, pair, shownSnapshot, loadErr, mine, crossed, queryErr>>

\* Mutant of LoadAnswered: the snapshot is asked for on the event only.
LoadAnsweredOnly(l) ==
  /\ l \in loads /\ l.own /\ l.st \in {"ok", "failed"}
  /\ LoadBecomes(l, [l EXCEPT !.st = "answered"]) /\ loading' = FALSE
  /\ IF l.st = "ok" THEN mine' = Bump(mine, l.pair, l.id) /\ UNCHANGED loadErr
                    ELSE loadErr' = TRUE /\ UNCHANGED mine
  /\ UNCHANGED <<latest, heard, pair, shownSnapshot, query, crossed, queryErr>>

\* startLoad goes on: its reload asks for the pair of the render it was clicked in.
LoadAnswered(l) ==
  /\ l \in loads /\ l.own /\ l.st \in {"ok", "failed"}
  /\ LoadBecomes(l, [l EXCEPT !.st = "answered"]) /\ loading' = FALSE
  /\ IF l.st = "ok" THEN ReloadSnapshot(l.pair) /\ mine' = Bump(mine, l.pair, l.id) /\ crossed' = (l.pair # pair)
                         /\ UNCHANGED loadErr
                    ELSE loadErr' = TRUE /\ UNCHANGED <<query, mine, crossed>>
  /\ UNCHANGED <<latest, heard, pair, shownSnapshot, queryErr>>

\* Another migration is chosen: the banner is not built anew.
ChoosePair(p) ==
  /\ p # pair /\ pair' = p /\ ReloadSnapshot(p) /\ crossed' = FALSE
  /\ UNCHANGED <<latest, loads, heard, shownSnapshot, loading, loadErr, mine, queryErr>>

ServeSnapshot ==
  /\ query.st = "asked" /\ query' = [query EXCEPT !.id = latest[query.of], !.st = "served"]
  /\ UNCHANGED <<latest, loads, heard, pair, shownSnapshot, loading, loadErr, mine, crossed, queryErr>>
LandSnapshot ==
  /\ query.st = "served" /\ query' = NoSnapshotQuery
  /\ shownSnapshot' = [of |-> query.of, id |-> query.id] /\ queryErr' = FALSE
  /\ UNCHANGED <<latest, loads, heard, pair, loading, loadErr, mine, crossed>>
SnapshotFails ==
  /\ query # NoSnapshotQuery /\ query' = NoSnapshotQuery /\ queryErr' = TRUE
  /\ UNCHANGED <<latest, loads, heard, pair, shownSnapshot, loading, loadErr, mine, crossed>>

\* Another page loads a snapshot; events of other kinds push the old ones out of sseEvents.
OtherPageLoads(p) ==
  /\ AskLoad(FALSE, p)
  /\ UNCHANGED <<latest, heard, pair, shownSnapshot, query, loading, loadErr, mine, crossed, queryErr>>
EventsRollOff ==
  /\ heard' = [p \in SchemaPairs |-> "none"] /\ heard' # heard
  /\ UNCHANGED <<latest, loads, pair, shownSnapshot, query, loading, loadErr, mine, crossed, queryErr>>

-----------------------------------------------------------------------------
BannerInit ==
  /\ latest = [p \in SchemaPairs |-> 0] /\ loads = {} /\ heard = [p \in SchemaPairs |-> "none"]
  /\ pair \in SchemaPairs /\ shownSnapshot = [of |-> pair, id |-> 0] /\ query = [of |-> pair, id |-> 0, st |-> "asked"]
  /\ loading = FALSE /\ loadErr = FALSE /\ mine = latest /\ crossed = FALSE /\ queryErr = FALSE

BannerNext ==
  \/ StartLoad \/ SeeComplete \/ ServeSnapshot \/ LandSnapshot \/ SnapshotFails \/ EventsRollOff
  \/ \E l \in loads : ServerBegins(l) \/ ServerCommits(l) \/ ServerFails(l) \/ LoadAnswered(l)
  \/ \E p \in SchemaPairs : ChoosePair(p) \/ OtherPageLoads(p)

BannerSpec == BannerInit /\ [][BannerNext]_bannerVars

-----------------------------------------------------------------------------
\* Whatever becomes of the events, and however loads and pairs follow one another: once no request for
\* the snapshot is under way and the last one did not fail, the banner shows no snapshot older than one
\* this page has loaded for that pair, and one of the pair that is chosen, unless the answer of a load
\* for another pair has put that pair's in its place.
SnapshotIsShown ==
  (query = NoSnapshotQuery /\ ~queryErr) =>
     /\ shownSnapshot.id >= mine[shownSnapshot.of]
     /\ shownSnapshot.of = pair \/ crossed
=============================================================================
