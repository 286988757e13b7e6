---------------------------- MODULE Recommendations ----------------------------
(***************************************************************************)
(* What is offered to a session to sing next.  The queue page asks the back *)
(* end, for a mood or for nothing in particular, and tells it what it has   *)
(* shown too often; the back end reads what the session has sung and asks   *)
(* the recommendation service, which shares the page among the clusters of  *)
(* those songs and looks for neighbours in each, in two collections at      *)
(* once.  Popular songs of the database take its place when it fails, has   *)
(* nothing to offer, or nothing was sung.                                   *)
(*                                                                         *)
(* A list of songs is modelled by its set, and its order by the choice of   *)
(* what is in it: the properties tell apart who is offered, not where.      *)
(***************************************************************************)
EXTENDS Naturals, Sequences, SequencesExt, FiniteSets, FiniteSetsExt

CONSTANTS Tracks,
          Catalog,     \* what is stored of each: see CatalogAssumption
          Clusters, NoCluster,
          Moods,       \* mood tags
          ClusterOf,   \* the cluster of a mood
          Unbound,     \* no mood asked for, no language asked for
          Languages,   \* that are asked for
          Likeness,    \* similarities to a vector: functions to [audio, lyrics], in tenths
          TieOrder,    \* the order in which equal scores come: a number for each track
          Limits,      \* sizes of a page
          Spare,       \* points read above the limit and the exclusions (10)
          Enough,      \* times a song is shown until it is dismissed (2)
          Oversample,  \* neighbours looked for per song to offer (3)
          Requests,    \* slots for requests in progress
          MaxRequests, MaxPlays \* bounds

Collections == {"audio", "lyrics"}

ASSUME CatalogAssumption ==
  /\ IsFiniteSet(Tracks)
  /\ \A t \in Tracks : /\ Catalog[t].points \subseteq Collections  \* where it has a point
                       /\ Catalog[t].cluster \in Clusters \cup {NoCluster}
                       /\ Catalog[t].hit \in BOOLEAN      \* of _HIT_CATEGORIES
                       /\ Catalog[t].known \in BOOLEAN    \* ready and of WELL_KNOWN_CATEGORIES
                       /\ Catalog[t].plays \in Nat
ASSUME MoodAssumption == NoCluster \notin Clusters /\ Unbound \notin Moods \cup Languages
ASSUME LikenessAssumption ==
  \A like \in Likeness, t \in Tracks, c \in Collections : like[t][c] \in 0..10
ASSUME OrderAssumption ==
  /\ \A t \in Tracks : TieOrder[t] \in Nat
  /\ \A t, u \in Tracks : TieOrder[t] = TieOrder[u] => t = u
ASSUME BoundsAssumption ==
  /\ Limits \subseteq Nat \ {0} /\ Spare \in Nat /\ Oversample \in Nat \ {0} /\ Enough \in Nat \ {0}
  /\ MaxRequests \in Nat /\ MaxPlays \in Nat

VARIABLES
  history,   \* play_history of the session: the sequence of songs finished
  shown,     \* the page: times each track was shown
  req,       \* [Requests -> a request]
  came       \* requests so far

vars == <<history, shown, req, came>>

Artist(t) == Catalog[t].artist   \* in its point, "" when it was uploaded

-----------------------------------------------------------------------------
(* Neighbours *)

Speaks(t, language) == language = Unbound \/ Catalog[t].language = language
Matches(t, language, cluster) == /\ Speaks(t, language)
                                 /\ cluster = Unbound \/ Catalog[t].cluster = cluster

\* The n that score highest.
Best(S, score, n) ==
  {t \in S : Cardinality({u \in S : \/ score[u] > score[t]
                                    \/ score[u] = score[t] /\ TieOrder[u] < TieOrder[t]}) < n}

\* Mutant: no room for what is excluded.
PointsReadTight(excluded, n) == n + Spare

\* Nothing that is excluded can take the place of a neighbour.
PointsRead(excluded, n) == n + Cardinality(excluded) + Spare

\* The search of one collection; one that fails finds nothing.
KnnRaw(collection, heard, like, language, cluster, n) ==
  IF collection \notin heard THEN {}
  ELSE Best({t \in Tracks : collection \in Catalog[t].points /\ Matches(t, language, cluster)},
            [t \in Tracks |-> like[t][collection]], n)

WithoutExcluded(found, excluded) == (found.audio \cup found.lyrics) \ excluded

Found(heard, like, excluded, n, language, cluster) ==
  LET Knn(c) == KnnRaw(c, heard, like, language, cluster, PointsRead(excluded, n))
  IN  [audio |-> Knn("audio"), lyrics |-> Knn("lyrics")]

\* A track scores nothing in a collection whose answer it is not in; in hundredths.
Fused(found, like) ==
  [t \in Tracks |-> (IF t \in found.audio THEN 7 * like[t].audio ELSE 0)
                  + (IF t \in found.lyrics THEN 3 * like[t].lyrics ELSE 0)]

FusedKnnSearch(found, like, excluded, n) ==
  Best(WithoutExcluded(found, excluded), Fused(found, like), n)

\* Hits of at least one half come first; the others by score.
HitPriority(found, like) ==
  LET score == Fused(found, like)
  IN  [t \in Tracks |-> score[t] + (IF Catalog[t].hit /\ score[t] >= 50 THEN 1000 ELSE 0)]

\* Mutant: the artists that were heard are not looked at.
FreshAnyway(S, priority, seen) ==
  {t \in S : \A u \in S : Artist(u) = Artist(t) => t \in Best({t, u}, priority, 1)}

\* The best of each artist that was not seen.
Fresh(S, priority, seen) ==
  {t \in S : /\ Artist(t) \notin seen
             /\ \A u \in S : Artist(u) = Artist(t) => t \in Best({t, u}, priority, 1)}

Picks(S, priority, seen, n) == Best(Fresh(S, priority, seen), priority, n)

-----------------------------------------------------------------------------
(* Clusters and popular songs *)

\* Mutant: what is left over goes to every cluster.
SlotsRoundedUp(n, total) == [i \in 1..n |-> (total + n - 1) \div n]

\* distribute_slots: the page in equal parts, what is left over to the first.
Slots(n, total) ==
  [i \in 1..n |-> total \div n + (IF i <= total % n THEN 1 ELSE 0)]

\* Songs whose vectors can be read, of one cluster.
Vectors(songs, unread) == {t \in songs : Catalog[t].points = Collections /\ t \notin unread}
InCluster(songs, c) == {t \in songs : "audio" \in Catalog[t].points /\ Catalog[t].cluster = c}

FirstPlay(played, c) == CHOOSE i \in DOMAIN played :
  /\ played[i] \in InCluster(ToSet(played), c)
  /\ \A j \in 1..(i - 1) : played[j] \notin InCluster(ToSet(played), c)

\* The clusters of the songs with a centroid, in the order they were first sung.
SessionClusters(played, unread) ==
  LET sung == {c \in Clusters : Vectors(InCluster(ToSet(played), c), unread) # {}}
      before(c) == {d \in sung : FirstPlay(played, d) < FirstPlay(played, c)}
  IN [n \in 1..Cardinality(sung) |-> CHOOSE c \in sung : Cardinality(before(c)) = n - 1]

PlayedArtists(played) == {Artist(t) : t \in {u \in ToSet(played) : "audio" \in Catalog[u].points}}

Lesser(m, n) == IF m < n THEN m ELSE n
Greater(m, n) == IF m > n THEN m ELSE n

\* Any n of S, or all of it; n that no other was played more often than.
AnyOf(S, n) == kSubset(Lesser(n, Cardinality(S)), S)
MostPlayed(S, n) ==
  {T \in AnyOf(S, n) : \A t \in T, u \in S \ T : Catalog[u].plays <= Catalog[t].plays}

WellKnown == {t \in Tracks : Catalog[t].known}
TopShare(limit) == Greater(1, (limit * 7) \div 10)

\* Mutant: as many rows are read as are to be shown.
RowsReadTight(excluded, n, limit) == n

RowsRead(excluded, n, limit) == n + Cardinality(excluded) + limit

\* Of the rows read, what may be offered.
Left(rows, excluded, language) == {t \in rows \ excluded : Speaks(t, language)}

-----------------------------------------------------------------------------
(* The page asks *)

Request(mood, language, limit, excluded) ==
  [phase |-> "sent", mood |-> mood, language |-> language, limit |-> limit,
   excluded |-> excluded, played |-> <<>>, waiting |-> <<>>, shares |-> <<>>,
   answer |-> {}, strategy |-> "none", whole |-> TRUE]

Idle == [Request(Unbound, Unbound, 0, {}) EXCEPT !.phase = "idle"]

Init == /\ history = <<>>
        /\ shown = [t \in Tracks |-> 0]
        /\ req = [r \in Requests |-> Idle]
        /\ came = 0

\* A song is finished and recorded, whatever is asked at the time.
Play(t) == /\ Len(history) < MaxPlays
           /\ history' = Append(history, t)
           /\ UNCHANGED <<shown, req, came>>

\* A song is chosen on the page: it may be offered again until it is finished.
Choose(t) == /\ shown[t] > 0
             /\ shown' = [shown EXCEPT ![t] = 0]
             /\ UNCHANGED <<history, req, came>>

Dismissed == {t \in Tracks : shown[t] >= Enough}

\* The page is opened, a mood or the language is chosen or a song was added: no answer
\* is waited for before the next question.  Moods have no rotation.
Ask(r, mood, language, limit) ==
  /\ req[r].phase = "idle"
  /\ came < MaxRequests
  /\ came' = came + 1
  /\ req' = [req EXCEPT ![r] =
               Request(mood, language, limit, IF mood = Unbound THEN Dismissed ELSE {})]
  /\ UNCHANGED <<history, shown>>

\* The answer arrives; answers come in any order.
Arrive(r) ==
  /\ req[r].phase = "answered"
  /\ shown' = [t \in Tracks |->
                 IF req[r].mood = Unbound /\ t \in req[r].answer THEN shown[t] + 1 ELSE shown[t]]
  /\ req' = [req EXCEPT ![r] = Idle]
  /\ UNCHANGED <<history, came>>

\* The database or the back end fails: the page shows an error and keeps what it has.
Fail(r) ==
  /\ req[r].phase \in {"sent", "popular"}
  /\ req' = [req EXCEPT ![r] = Idle]
  /\ UNCHANGED <<history, shown, came>>

-----------------------------------------------------------------------------
(* The back end and the recommendation service *)

\* The history is read once: what is sung from now on may be offered.
ReadHistory(r) ==
  /\ req[r].phase = "sent"
  /\ req' = [req EXCEPT ![r].played = history,
                        ![r].phase = IF history = <<>> /\ req[r].mood = Unbound
                                     THEN "popular"
                                     ELSE IF req[r].mood = Unbound THEN "asked" ELSE "mood"]
  /\ UNCHANGED <<history, shown, came>>

\* It cannot be reached, takes too long, or a payload cannot be read: the answer is None.
ServiceFails(r) ==
  /\ req[r].phase \in {"asked", "mood", "clusters"}
  /\ req' = [req EXCEPT ![r].phase = "popular", ![r].answer = {}, ![r].whole = FALSE]
  /\ UNCHANGED <<history, shown, came>>

\* Payloads, centroids and shares; vectors that cannot be read are left out.
ShareAmongClusters(r) ==
  /\ req[r].phase = "asked"
  /\ \E unread \in SUBSET ToSet(req[r].played) :
      LET clusters == SessionClusters(req[r].played, unread) IN
      req' = [req EXCEPT ![r].phase = IF clusters = <<>> THEN "popular" ELSE "clusters",
                            ![r].waiting = clusters,
                            ![r].shares = Slots(Len(clusters), req[r].limit),
                            ![r].whole = unread = {}]
  /\ UNCHANGED <<history, shown, came>>

\* What the service returns goes to the page, unless it is nothing.
Returned(answer) == IF answer = {} THEN "popular" ELSE "answered"

\* Mutant: the songs dismissed by the page are forgotten.
AllExcludedButDismissed(q) == ToSet(q.played)

AllExcluded(q) == ToSet(q.played) \cup q.excluded

\* Of the songs sung and of those picked so far.
SeenArtists(q) == PlayedArtists(q.played) \cup {Artist(t) : t \in q.answer}

\* What the next cluster offers; a cluster without a share is passed over.
ClusterPicks(q, like, heard) ==
  LET n == Head(q.shares)
      out == AllExcluded(q)
      found == Found(heard, like, out, n * Oversample, q.language, Head(q.waiting))
  IN  IF n = 0 THEN {}
      ELSE Picks(FusedKnnSearch(found, like, out, n * Oversample), HitPriority(found, like),
                 SeenArtists(q), n)

SearchCluster(r) ==
  /\ req[r].phase = "clusters"
  /\ \E like \in Likeness, heard \in SUBSET Collections :
       LET q == req[r]
           picks == ClusterPicks(q, like, heard)
       IN  req' = [req EXCEPT
                     ![r].answer = q.answer \cup picks,
                     ![r].waiting = Tail(q.waiting),
                     ![r].shares = Tail(q.shares),
                     ![r].whole = q.whole /\ (Head(q.shares) = 0 \/ heard = Collections),
                     ![r].strategy = "cluster",
                     ![r].phase = IF Len(q.waiting) > 1 THEN "clusters"
                                  ELSE Returned(q.answer \cup picks)]
  /\ UNCHANGED <<history, shown, came>>

\* A mood is looked for with its own centroid, or within its cluster with the session's.
MoodPicks(q, unread, like, heard) ==
  LET sung == ToSet(q.played)
      cluster == IF Vectors(sung, unread) = {} THEN Unbound ELSE ClusterOf[q.mood]
      found == Found(heard, like, sung, q.limit * Oversample, q.language, cluster)
  IN  Picks(FusedKnnSearch(found, like, sung, q.limit * Oversample), HitPriority(found, like),
            {}, q.limit)

SearchMood(r) ==
  /\ req[r].phase = "mood"
  /\ \E unread \in SUBSET ToSet(req[r].played), like \in Likeness, heard \in SUBSET Collections :
       LET answer == MoodPicks(req[r], unread, like, heard)
       IN  req' = [req EXCEPT ![r].answer = answer, ![r].strategy = "cluster",
                              ![r].whole = unread = {} /\ heard = Collections,
                              ![r].phase = Returned(answer)]
  /\ UNCHANGED <<history, shown, came>>

\* get_popular_tracks: songs played most often, then songs at random, without what was
\* sung or dismissed.  A song at random is added before their number is looked at.
PopularSongs(q, answer) ==
  LET out == AllExcluded(q)
      top == TopShare(q.limit)
  IN  \E most \in MostPlayed(WellKnown, RowsRead(out, top, q.limit)),
         some \in AnyOf(WellKnown, RowsRead(out, q.limit - top, q.limit)) :
        \E P \in MostPlayed(Left(most, out, q.language), top) :
          \E Q \in AnyOf(Left(some, out \cup P, q.language),
                        Greater(1, q.limit - Cardinality(P))) : answer = P \cup Q

OfferPopular(r) ==
  /\ req[r].phase = "popular"
  /\ \E answer \in SUBSET WellKnown :
       /\ PopularSongs(req[r], answer)
       /\ req' = [req EXCEPT ![r].answer = answer, ![r].strategy = "popular",
                             ![r].phase = "answered"]
  /\ UNCHANGED <<history, shown, came>>

Next == \/ \E t \in Tracks : Play(t) \/ Choose(t)
        \/ \E r \in Requests :
             \/ \E m \in Moods \cup {Unbound}, l \in Languages \cup {Unbound}, n \in Limits :
                  Ask(r, m, l, n)
             \/ ReadHistory(r) \/ ServiceFails(r) \/ ShareAmongClusters(r) \/ SearchCluster(r)
             \/ SearchMood(r) \/ OfferPopular(r) \/ Arrive(r) \/ Fail(r)

Spec == Init /\ [][Next]_vars

-----------------------------------------------------------------------------
(* Properties *)

Answered == {r \in Requests : req[r].phase = "answered"}
ServiceAnswered == {r \in Answered : req[r].strategy = "cluster"}

\* Whatever failed on the way, and from wherever the songs come, no song is offered that
\* was sung before the history was read, or that the page had shown often enough when it asked.
NothingStaleIsOffered ==
  \A r \in Answered : req[r].answer \cap (ToSet(req[r].played) \cup req[r].excluded) = {}

\* The clusters together offer one song of an artist, and none of an artist sung before;
\* a mood offers one song of an artist.
OneSongPerArtist ==
  \A r \in ServiceAnswered :
    /\ \A t, u \in req[r].answer : Artist(t) = Artist(u) => t = u
    /\ req[r].mood = Unbound =>
         \A t \in req[r].answer : Artist(t) \notin PlayedArtists(req[r].played)

\* The parts of the clusters fit on the page: the final cut never takes a song away.
SharesFitThePage ==
  \A r \in ServiceAnswered : Cardinality(req[r].answer) <= req[r].limit

\* However many songs are excluded, popular songs fill a page of two or more as far as
\* there are any, when no language is asked for.
PopularFillsThePage ==
  \A r \in Answered :
    req[r].strategy = "popular" /\ req[r].language = Unbound /\ req[r].limit > 1 =>
      Cardinality(req[r].answer) = Lesser(req[r].limit, Cardinality(WellKnown \ AllExcluded(req[r])))

\* What a search of a cluster can find.
Open(q, excluded, cluster) ==
  {t \in Tracks \ excluded : Catalog[t].points # {} /\ Matches(t, q.language, cluster)}

\* Nothing is left to find in the i-th of the clusters, or it has no share of the page.
\* Songs of artists sung before may hide others, when there are more than are looked at.
NothingLeft(q, clusters, i) ==
  LET open == Open(q, AllExcluded(q), clusters[i])
  IN  \/ Slots(Len(clusters), q.limit)[i] = 0
      \/ Cardinality(open) > Oversample
      \/ \A t \in open : Artist(t) \in PlayedArtists(q.played)

\* When nothing failed, popular songs take the place of the service's only if it had
\* nothing left: songs excluded never hide those that are not.
LastResort(q) ==
  LET clusters == SessionClusters(q.played, {})
  IN  IF q.mood = Unbound
      THEN \A i \in DOMAIN clusters : NothingLeft(q, clusters, i)
      ELSE Open(q, ToSet(q.played),
                IF Vectors(ToSet(q.played), {}) = {} THEN Unbound ELSE ClusterOf[q.mood]) = {}

\* The back end offers popular songs after what was sung as a last resort only.
PopularIsTheLastResort ==
  \A r \in Answered :
    req[r].strategy = "popular" /\ req[r].whole /\ req[r].played # <<>> => LastResort(req[r])

\* "Max results": an answer has no more songs than were asked for.
NoMoreThanAsked == \A r \in Answered : Cardinality(req[r].answer) <= req[r].limit
=============================================================================
