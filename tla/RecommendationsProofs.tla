------------------------- MODULE RecommendationsProofs -------------------------
(***************************************************************************)
(* For every catalog, any similarities, any number of requests under way   *)
(* and whatever fails: no song is offered that was sung or dismissed, the  *)
(* service offers one song of an artist, its clusters fit the page         *)
(* (PagesInv), and popular songs fill it and come last.                    *)
(***************************************************************************)
EXTENDS Recommendations, OrderLemmas

\* A request has these fields and no other.
Fields == {"phase", "mood", "language", "limit", "excluded", "played", "waiting", "shares",
           "answer", "strategy", "whole"}
IsRequest(q) == DOMAIN q = Fields /\ q = [f \in Fields |-> q[f]]

\* What a request is about fixes where it can be, and what it leaves out.
Sound(q) ==
  /\ q.phase \in {"idle", "sent", "asked", "mood"} => q.answer = {}
  /\ q.phase \in {"asked", "clusters"} => q.mood = Unbound
  /\ q.phase = "mood" => q.mood # Unbound
  /\ q.mood # Unbound => q.excluded = {}

Clean(q) == q.answer \cap (ToSet(q.played) \cup q.excluded) = {}

OnePerArtist(q) ==
  /\ \A t, u \in q.answer : Artist(t) = Artist(u) => t = u
  /\ q.mood = Unbound => \A t \in q.answer : Artist(t) \notin PlayedArtists(q.played)

Choosing(q) == q.phase = "clusters" \/ (q.phase = "answered" /\ q.strategy = "cluster")

RequestInv(q) == /\ IsRequest(q) /\ Sound(q) /\ Clean(q)
                 /\ q.answer \subseteq Tracks
                 /\ Choosing(q) => OnePerArtist(q)

\* The inductive invariant: the artists matter from the first cluster on.
IInv == /\ req = [r \in Requests |-> req[r]]
        /\ \A r \in Requests : RequestInv(req[r])

-----------------------------------------------------------------------------
(* Neighbours *)

LEMMA BestIsSome == ASSUME NEW S, NEW score, NEW n PROVE Best(S, score, n) \subseteq S
  BY DEF Best

\* Of two songs only one is the best: equal scores come in some order.
LEMMA BestIsOne ==
  ASSUME NEW t \in Tracks, NEW u \in Tracks, NEW score,
         score[t] \in Nat, score[u] \in Nat,
         t \in Best({t, u}, score, 1), u \in Best({t, u}, score, 1)
  PROVE  t = u
<1> DEFINE Above(x) == {v \in {t, u} : \/ score[v] > score[x]
                                       \/ score[v] = score[x] /\ TieOrder[v] < TieOrder[x]}
<1>1. ASSUME NEW x \in {t, u}, Cardinality(Above(x)) < 1 PROVE Above(x) = {}
  <2>1. IsFiniteSet({t, u})
    <3>1. IsFiniteSet({t}) /\ IsFiniteSet({u})
      BY FS_Singleton
    <3>2. IsFiniteSet({t} \cup {u})
      BY <3>1, FS_Union
    <3>3. {t, u} = {t} \cup {u}
      OBVIOUS
    <3> QED BY <3>2, <3>3
  <2>2. IsFiniteSet(Above(x))
    BY <2>1, FS_Subset
  <2>3. Cardinality(Above(x)) = 0
    BY <2>2, <1>1, FS_CardinalityType
  <2> QED BY <2>2, <2>3, FS_EmptySet
<1>2. Above(t) = {} /\ Above(u) = {}
  BY <1>1 DEF Best
<1>3. u \notin Above(t) /\ t \notin Above(u)
  BY <1>2
<1>4. ~(score[u] > score[t]) /\ ~(score[t] > score[u])
  BY <1>3
<1>5. score[u] = score[t]
  BY <1>4
<1>6. ~(TieOrder[u] < TieOrder[t]) /\ ~(TieOrder[t] < TieOrder[u])
  BY <1>3, <1>5
<1> QED BY <1>6, OrderAssumption

LEMMA PriorityIsNat ==
  ASSUME NEW like \in Likeness, NEW found, NEW t \in Tracks
  PROVE  HitPriority(found, like)[t] \in Nat
<1>1. like[t]["audio"] \in Nat /\ like[t]["lyrics"] \in Nat
  BY LikenessAssumption DEF Collections
<1>2. Fused(found, like)[t] \in Nat
  BY <1>1 DEF Fused
<1> QED BY <1>2 DEF HitPriority

\* What is picked is among the neighbours, of an artist not seen, one of each.
LEMMA PicksAreFresh ==
  ASSUME NEW S \in SUBSET Tracks, NEW like \in Likeness, NEW found, NEW seen, NEW n
  PROVE  LET picks == Picks(S, HitPriority(found, like), seen, n)
         IN  /\ picks \subseteq S
             /\ \A t \in picks : Artist(t) \notin seen
             /\ \A t, u \in picks : Artist(t) = Artist(u) => t = u
<1> DEFINE priority == HitPriority(found, like)
           picks == Picks(S, priority, seen, n)
<1> HIDE DEF priority
<1>1. picks \subseteq Fresh(S, priority, seen)
  BY BestIsSome DEF Picks
<1>2. picks \subseteq S /\ \A t \in picks : Artist(t) \notin seen
  BY <1>1 DEF Fresh
<1>3. ASSUME NEW t \in picks, NEW u \in picks, Artist(t) = Artist(u) PROVE t = u
  <2>1. t \in Best({t, u}, priority, 1)
    BY <1>1, <1>2, <1>3 DEF Fresh
  <2>2. u \in Best({u, t}, priority, 1)
    BY <1>1, <1>2, <1>3 DEF Fresh
  <2>3. {u, t} = {t, u} /\ t \in Tracks /\ u \in Tracks
    BY <1>2
  <2>4. priority[t] \in Nat /\ priority[u] \in Nat
    BY <2>3, PriorityIsNat DEF priority
  <2> QED BY <2>1, <2>2, <2>3, <2>4, BestIsOne
<1> QED BY <1>2, <1>3 DEF priority

\* Nothing that is excluded is found.
LEMMA NeighboursAreClean ==
  ASSUME NEW heard, NEW like, NEW excluded, NEW n, NEW language, NEW cluster, NEW limit
  PROVE  LET near == FusedKnnSearch(Found(heard, like, excluded, n, language, cluster),
                                    like, excluded, limit)
         IN  near \subseteq Tracks /\ near \cap excluded = {}
<1> DEFINE found == Found(heard, like, excluded, n, language, cluster)
<1>1. ASSUME NEW c PROVE KnnRaw(c, heard, like, language, cluster, PointsRead(excluded, n)) \subseteq Tracks
  BY BestIsSome DEF KnnRaw
<1>2. found.audio \subseteq Tracks /\ found.lyrics \subseteq Tracks
  BY <1>1 DEF Found
<1>3. WithoutExcluded(found, excluded) \subseteq Tracks \ excluded
  BY <1>2 DEF WithoutExcluded
<1> QED BY <1>3, BestIsSome DEF FusedKnnSearch

\* Rows that are read come from the table, and what is left of them is not excluded.
LEMMA SomeAreSome == ASSUME NEW S, NEW n, NEW T \in AnyOf(S, n) PROVE T \subseteq S
  BY DEF AnyOf, kSubset

LEMMA MostAreSome == ASSUME NEW S, NEW n, NEW T \in MostPlayed(S, n) PROVE T \subseteq S
  BY SomeAreSome DEF MostPlayed

-----------------------------------------------------------------------------
(* The invariant *)

\* A step of one request leaves the others alone.
LEMMA OtherRequests ==
  ASSUME IInv, NEW r \in Requests, NEW q, RequestInv(q), req' = [req EXCEPT ![r] = q]
  PROVE  IInv'
<1>1. \A s \in Requests : req'[s] = IF s = r THEN q ELSE req[s]
  BY DEF IInv
<1>2. \A s \in Requests : RequestInv(req'[s])
  BY <1>1 DEF IInv
<1>3. req' = [s \in Requests |-> req'[s]]
  BY DEF IInv
<1> QED BY <1>2, <1>3 DEF IInv, RequestInv, IsRequest, Fields, Sound, Clean, Choosing, OnePerArtist

LEMMA AskKeeps ==
  ASSUME IInv, NEW r \in Requests, NEW mood, NEW language, NEW limit, Ask(r, mood, language, limit)
  PROVE  IInv'
<1> DEFINE q == Request(mood, language, limit, IF mood = Unbound THEN Dismissed ELSE {})
<1>1. RequestInv(q)
  BY DEF RequestInv, Request, IsRequest, Fields, Sound, Clean, Choosing
<1>2. req' = [req EXCEPT ![r] = q]
  BY DEF Ask
<1> QED BY <1>1, <1>2, OtherRequests

LEMMA LeaveKeeps ==
  ASSUME IInv, NEW r \in Requests, Arrive(r) \/ Fail(r)
  PROVE  IInv'
<1>1. RequestInv(Idle)
  BY DEF RequestInv, Idle, Request, IsRequest, Fields, Sound, Clean, Choosing
<1>2. req' = [req EXCEPT ![r] = Idle]
  BY DEF Arrive, Fail
<1> QED BY <1>1, <1>2, OtherRequests

LEMMA ReadHistoryKeeps ==
  ASSUME IInv, NEW r \in Requests, ReadHistory(r)
  PROVE  IInv'
<1> DEFINE q == [req[r] EXCEPT !.played = history,
                   !.phase = IF history = <<>> /\ req[r].mood = Unbound THEN "popular"
                             ELSE IF req[r].mood = Unbound THEN "asked" ELSE "mood"]
<1>1. req' = [req EXCEPT ![r] = q]
  BY DEF ReadHistory
<1>2. RequestInv(req[r]) /\ req[r].phase = "sent"
  BY DEF IInv, ReadHistory
<1>3. RequestInv(q)
  BY <1>2 DEF RequestInv, IsRequest, Fields, Sound, Clean, Choosing
<1> QED BY <1>1, <1>3, OtherRequests

LEMMA ServiceFailsKeeps ==
  ASSUME IInv, NEW r \in Requests, ServiceFails(r)
  PROVE  IInv'
<1> DEFINE q == [req[r] EXCEPT !.phase = "popular", !.answer = {}, !.whole = FALSE]
<1>1. req' = [req EXCEPT ![r] = q]
  BY DEF ServiceFails
<1>2. RequestInv(req[r])
  BY DEF IInv
<1>3. RequestInv(q)
  BY <1>2 DEF RequestInv, IsRequest, Fields, Sound, Clean, Choosing
<1> QED BY <1>1, <1>3, OtherRequests

LEMMA ShareAmongClustersKeeps ==
  ASSUME IInv, NEW r \in Requests, ShareAmongClusters(r)
  PROVE  IInv'
<1>1. PICK unread \in SUBSET ToSet(req[r].played) :
        LET clusters == SessionClusters(req[r].played, unread) IN
        req' = [req EXCEPT ![r].phase = IF clusters = <<>> THEN "popular" ELSE "clusters",
                           ![r].waiting = clusters,
                           ![r].shares = Slots(Len(clusters), req[r].limit),
                           ![r].whole = unread = {}]
  BY DEF ShareAmongClusters
<1> DEFINE clusters == SessionClusters(req[r].played, unread)
           q == [req[r] EXCEPT !.phase = IF clusters = <<>> THEN "popular" ELSE "clusters",
                               !.waiting = clusters,
                               !.shares = Slots(Len(clusters), req[r].limit),
                               !.whole = unread = {}]
<1>2. req' = [req EXCEPT ![r] = q]
  BY <1>1
<1>3. RequestInv(req[r]) /\ req[r].phase = "asked"
  BY DEF IInv, ShareAmongClusters
<1>4. RequestInv(q)
  <2> HIDE DEF clusters
  <2> QED BY <1>3 DEF RequestInv, IsRequest, Fields, Sound, Clean, Choosing, OnePerArtist
<1> QED BY <1>2, <1>4, OtherRequests

\* The songs of one more cluster: none that is excluded, none of an artist sung before or
\* picked before, and one of each.
LEMMA ClusterPicksAreFresh ==
  ASSUME NEW q, NEW like \in Likeness, NEW heard
  PROVE  LET picks == ClusterPicks(q, like, heard)
         IN  /\ picks \subseteq Tracks /\ picks \cap AllExcluded(q) = {}
             /\ \A t \in picks : Artist(t) \notin SeenArtists(q)
             /\ \A t, u \in picks : Artist(t) = Artist(u) => t = u
<1> DEFINE n == Head(q.shares)
           out == AllExcluded(q)
           found == Found(heard, like, out, n * Oversample, q.language, Head(q.waiting))
           near == FusedKnnSearch(found, like, out, n * Oversample)
           picks == Picks(near, HitPriority(found, like), SeenArtists(q), n)
<1>1. near \subseteq Tracks /\ near \cap out = {}
  BY NeighboursAreClean
<1>2. ClusterPicks(q, like, heard) \in {{}, picks}
  BY DEF ClusterPicks
<1>3. /\ picks \subseteq near
      /\ \A t \in picks : Artist(t) \notin SeenArtists(q)
      /\ \A t, u \in picks : Artist(t) = Artist(u) => t = u
  <2> HIDE DEF near, found, n, out
  <2> QED BY <1>1, PicksAreFresh
<1> HIDE DEF picks, near, out
<1>4. CASE ClusterPicks(q, like, heard) = {}
  BY <1>4
<1>5. CASE ClusterPicks(q, like, heard) = picks
  BY <1>5, <1>1, <1>3 DEF out
<1> QED BY <1>2, <1>4, <1>5

\* The songs of a mood: none that was sung, and one of an artist.
LEMMA MoodPicksAreFresh ==
  ASSUME NEW q, NEW unread, NEW like \in Likeness, NEW heard
  PROVE  LET picks == MoodPicks(q, unread, like, heard)
         IN  /\ picks \subseteq Tracks /\ picks \cap ToSet(q.played) = {}
             /\ \A t, u \in picks : Artist(t) = Artist(u) => t = u
<1> DEFINE sung == ToSet(q.played)
           cluster == IF Vectors(sung, unread) = {} THEN Unbound ELSE ClusterOf[q.mood]
           found == Found(heard, like, sung, q.limit * Oversample, q.language, cluster)
           near == FusedKnnSearch(found, like, sung, q.limit * Oversample)
           picks == Picks(near, HitPriority(found, like), {}, q.limit)
<1>1. near \subseteq Tracks /\ near \cap sung = {}
  BY NeighboursAreClean
<1>2. MoodPicks(q, unread, like, heard) = picks
  BY DEF MoodPicks
<1>3. picks \subseteq near /\ \A t, u \in picks : Artist(t) = Artist(u) => t = u
  <2> HIDE DEF near, found, sung
  <2> QED BY <1>1, PicksAreFresh
<1> HIDE DEF picks, near
<1> QED BY <1>1, <1>2, <1>3

\* What the popular songs are: none that was sung or dismissed.
LEMMA PopularSongsAreClean ==
  ASSUME NEW q, NEW answer, PopularSongs(q, answer)
  PROVE  answer \subseteq Tracks /\ answer \cap AllExcluded(q) = {}
<1> DEFINE out == AllExcluded(q)
           top == TopShare(q.limit)
<1>1. PICK most \in MostPlayed(WellKnown, RowsRead(out, top, q.limit)),
           some \in AnyOf(WellKnown, RowsRead(out, q.limit - top, q.limit)) :
        \E P \in MostPlayed(Left(most, out, q.language), top) :
          \E Q \in AnyOf(Left(some, out \cup P, q.language), Greater(1, q.limit - Cardinality(P))) :
            answer = P \cup Q
  BY DEF PopularSongs
<1>2. PICK P \in MostPlayed(Left(most, out, q.language), top) :
        \E Q \in AnyOf(Left(some, out \cup P, q.language), Greater(1, q.limit - Cardinality(P))) :
          answer = P \cup Q
  BY <1>1
<1>3. PICK Q \in AnyOf(Left(some, out \cup P, q.language), Greater(1, q.limit - Cardinality(P))) :
        answer = P \cup Q
  BY <1>2
<1>4. most \subseteq Tracks /\ some \subseteq Tracks
  BY SomeAreSome, MostAreSome DEF WellKnown
<1>5. P \subseteq Left(most, out, q.language) /\ Q \subseteq Left(some, out \cup P, q.language)
  BY SomeAreSome, MostAreSome
<1>6. P \subseteq Tracks \ out /\ Q \subseteq Tracks \ out
  BY <1>4, <1>5 DEF Left
<1> QED BY <1>3, <1>6

LEMMA SearchClusterKeeps ==
  ASSUME IInv, NEW r \in Requests, SearchCluster(r)
  PROVE  IInv'
<1> DEFINE After(p, picks, whole, phase) ==
             [p EXCEPT !.answer = p.answer \cup picks, !.waiting = Tail(p.waiting),
                       !.shares = Tail(p.shares), !.whole = whole, !.strategy = "cluster",
                       !.phase = phase]
<1>1. PICK like \in Likeness, heard \in SUBSET Collections :
        LET q == req[r]
            picks == ClusterPicks(q, like, heard)
        IN  req' = [req EXCEPT
                      ![r].answer = q.answer \cup picks,
                      ![r].waiting = Tail(q.waiting),
                      ![r].shares = Tail(q.shares),
                      ![r].whole = q.whole /\ (Head(q.shares) = 0 \/ heard = Collections),
                      ![r].strategy = "cluster",
                      ![r].phase = IF Len(q.waiting) > 1 THEN "clusters"
                                   ELSE Returned(q.answer \cup picks)]
  BY DEF SearchCluster
<1> DEFINE whole == req[r].whole /\ (Head(req[r].shares) = 0 \/ heard = Collections)
           phase == IF Len(req[r].waiting) > 1 THEN "clusters"
                    ELSE Returned(req[r].answer \cup ClusterPicks(req[r], like, heard))
<1>2. /\ phase \in {"clusters", "popular", "answered"}
      /\ req' = [req EXCEPT ![r] = After(req[r], ClusterPicks(req[r], like, heard), whole, phase)]
  BY <1>1 DEF Returned
<1> HIDE DEF whole, phase
<1>3. RequestInv(req[r]) /\ req[r].phase = "clusters"
  BY DEF IInv, SearchCluster
<1>4. ASSUME NEW p, RequestInv(p), p.phase = "clusters"
      PROVE  RequestInv(After(p, ClusterPicks(p, like, heard), whole, phase))
  <2> DEFINE picks == ClusterPicks(p, like, heard)
             q == After(p, picks, whole, phase)
  <2>1. /\ picks \subseteq Tracks /\ picks \cap AllExcluded(p) = {}
        /\ \A t \in picks : Artist(t) \notin SeenArtists(p)
        /\ \A t, u \in picks : Artist(t) = Artist(u) => t = u
    BY ClusterPicksAreFresh
  <2> HIDE DEF picks
  <2>2. IsRequest(q)
    BY <1>4 DEF IsRequest, Fields, RequestInv
  <2>3. /\ q.answer = p.answer \cup picks /\ q.phase = phase /\ q.mood = p.mood
        /\ q.excluded = p.excluded /\ q.played = p.played
    BY <1>4 DEF IsRequest, Fields, RequestInv
  <2> HIDE DEF q, After
  <2>4. Sound(q)
    BY <1>2, <1>4, <2>3 DEF Sound, RequestInv
  <2>5. Clean(q) /\ q.answer \subseteq Tracks
    BY <1>4, <2>1, <2>3 DEF Clean, RequestInv, AllExcluded
  <2>6. OnePerArtist(p)
    BY <1>4 DEF RequestInv, Choosing
  <2>7. OnePerArtist(q)
    BY <2>6, <2>1, <2>3 DEF OnePerArtist, SeenArtists
  <2> QED BY <2>2, <2>4, <2>5, <2>7 DEF RequestInv, q, picks
<1>5. RequestInv(After(req[r], ClusterPicks(req[r], like, heard), whole, phase))
  BY <1>3, <1>4
<1> QED BY <1>2, <1>5, OtherRequests

LEMMA SearchMoodKeeps ==
  ASSUME IInv, NEW r \in Requests, SearchMood(r)
  PROVE  IInv'
<1> DEFINE After(p, answer, whole, phase) ==
             [p EXCEPT !.answer = answer, !.strategy = "cluster", !.whole = whole, !.phase = phase]
<1>1. PICK unread \in SUBSET ToSet(req[r].played), like \in Likeness, heard \in SUBSET Collections :
        LET answer == MoodPicks(req[r], unread, like, heard)
        IN  req' = [req EXCEPT ![r].answer = answer, ![r].strategy = "cluster",
                               ![r].whole = unread = {} /\ heard = Collections,
                               ![r].phase = Returned(answer)]
  BY DEF SearchMood
<1> DEFINE whole == unread = {} /\ heard = Collections
           phase == Returned(MoodPicks(req[r], unread, like, heard))
<1>2. /\ phase \in {"popular", "answered"}
      /\ req' = [req EXCEPT ![r] = After(req[r], MoodPicks(req[r], unread, like, heard), whole, phase)]
  BY <1>1 DEF Returned
<1> HIDE DEF whole, phase
<1>3. RequestInv(req[r]) /\ req[r].phase = "mood"
  BY DEF IInv, SearchMood
<1>4. ASSUME NEW p, RequestInv(p), p.phase = "mood"
      PROVE  RequestInv(After(p, MoodPicks(p, unread, like, heard), whole, phase))
  <2> DEFINE answer == MoodPicks(p, unread, like, heard)
             q == After(p, answer, whole, phase)
  <2>1. /\ answer \subseteq Tracks /\ answer \cap ToSet(p.played) = {}
        /\ \A t, u \in answer : Artist(t) = Artist(u) => t = u
    BY MoodPicksAreFresh
  <2> HIDE DEF answer
  <2>2. IsRequest(q)
    BY <1>4 DEF IsRequest, Fields, RequestInv
  <2>3. /\ q.answer = answer /\ q.phase = phase /\ q.mood = p.mood
        /\ q.excluded = p.excluded /\ q.played = p.played
    BY <1>4 DEF IsRequest, Fields, RequestInv
  <2>4. p.mood # Unbound /\ p.excluded = {}
    BY <1>4 DEF RequestInv, Sound
  <2> HIDE DEF q, After
  <2>5. RequestInv(q)
    BY <1>2, <2>1, <2>2, <2>3, <2>4 DEF RequestInv, Sound, Clean, OnePerArtist
  <2> QED BY <2>5 DEF q, answer
<1>5. RequestInv(After(req[r], MoodPicks(req[r], unread, like, heard), whole, phase))
  BY <1>3, <1>4
<1> QED BY <1>2, <1>5, OtherRequests

LEMMA OfferPopularKeeps ==
  ASSUME IInv, NEW r \in Requests, OfferPopular(r)
  PROVE  IInv'
<1> DEFINE After(p, answer) == [p EXCEPT !.answer = answer, !.strategy = "popular",
                                         !.phase = "answered"]
<1>1. PICK answer : PopularSongs(req[r], answer) /\ req' = [req EXCEPT ![r] = After(req[r], answer)]
  BY DEF OfferPopular
<1>2. ASSUME NEW p, RequestInv(p), PopularSongs(p, answer) PROVE RequestInv(After(p, answer))
  <2> DEFINE q == After(p, answer)
  <2>1. answer \subseteq Tracks /\ answer \cap AllExcluded(p) = {}
    BY <1>2, PopularSongsAreClean
  <2>2. IsRequest(q)
    BY <1>2 DEF IsRequest, Fields, RequestInv
  <2>3. /\ q.answer = answer /\ q.phase = "answered" /\ q.strategy = "popular"
        /\ q.mood = p.mood /\ q.excluded = p.excluded /\ q.played = p.played
    BY <1>2 DEF IsRequest, Fields, RequestInv
  <2> HIDE DEF q, After
  <2>4. RequestInv(q)
    BY <1>2, <2>1, <2>2, <2>3 DEF RequestInv, Sound, Clean, Choosing, AllExcluded
  <2> QED BY <2>4 DEF q
<1>3. RequestInv(After(req[r], answer))
  BY <1>1, <1>2 DEF IInv
<1> QED BY <1>1, <1>3, OtherRequests

-----------------------------------------------------------------------------
(* How full the page is *)

\* So much of the page can be taken by the first k of n clusters.
Taken(n, k, limit) == k * (limit \div n) + Lesser(k, limit % n)

\* The clusters that wait are the last ones, and so are the shares; those before have
\* taken no more than their shares, and had nothing left if nothing was picked.
Partway(q) ==
  \E unread \in SUBSET ToSet(q.played), k \in Nat :
    LET clusters == SessionClusters(q.played, unread)
        n == Len(clusters)
    IN  /\ k < n
        /\ q.waiting = Rest(clusters, k) /\ q.shares = Rest(Slots(n, q.limit), k)
        /\ Cardinality(q.answer) <= Taken(n, k, q.limit)
        /\ q.whole => unread = {}
        /\ q.whole /\ q.answer = {} => \A i \in 1..k : NothingLeft(q, clusters, i)

Full(q) == Cardinality(q.answer) = Lesser(q.limit, Cardinality(WellKnown \ AllExcluded(q)))

Popular(q) == q.phase = "popular" \/ (q.phase = "answered" /\ q.strategy = "popular")

\* What a request knows of its page.
PageInv(q) ==
  /\ q.limit \in Nat /\ (q.phase # "idle" => q.limit # 0)
  /\ q.excluded \subseteq Tracks /\ q.played \in Seq(Tracks)
  /\ q.phase = "clusters" => Partway(q)
  /\ q.phase = "answered" /\ q.strategy = "cluster" => Cardinality(q.answer) <= q.limit
  /\ q.phase = "answered" /\ q.strategy = "popular" /\ q.language = Unbound /\ q.limit > 1 => Full(q)
  /\ Popular(q) /\ q.whole /\ q.played # <<>> => LastResort(q)

PagesInv == IInv /\ history \in Seq(Tracks) /\ \A r \in Requests : PageInv(req[r])

\* The order by score.
Higher(S, score) ==
  {p \in S \X S : \/ score[p[1]] > score[p[2]]
                  \/ score[p[1]] = score[p[2]] /\ TieOrder[p[1]] < TieOrder[p[2]]}

Scores(S, score) == \A t \in S : score[t] \in Nat

LEMMA HigherOrders ==
  ASSUME NEW S \in SUBSET Tracks, NEW score, Scores(S, score)
  PROVE  Orders(Higher(S, score), S)
<1> DEFINE R == Higher(S, score)
           Above(x, y) == \/ score[x] > score[y]
                          \/ score[x] = score[y] /\ TieOrder[x] < TieOrder[y]
<1>1. \A x, y \in S : <<x, y>> \in R <=> Above(x, y)
  BY DEF Higher
<1>2. \A x \in S : score[x] \in Nat /\ TieOrder[x] \in Nat
  BY OrderAssumption DEF Scores
<1>3. \A x, y \in S : x # y => TieOrder[x] # TieOrder[y]
  BY OrderAssumption
<1>4. \A x, y \in S : x # y => Above(x, y) \/ Above(y, x)
  BY <1>2, <1>3
<1>5. \A x, y \in S : Above(x, y) => ~Above(y, x)
  BY <1>2
<1>6. \A x, y, z \in S : Above(x, y) /\ Above(y, z) => Above(x, z)
  BY <1>2
<1> HIDE DEF R, Above
<1>7. Orders(R, S)
  BY <1>1, <1>4, <1>5, <1>6 DEF Orders
<1> QED BY <1>7 DEF R

LEMMA BestByRank ==
  ASSUME NEW S, NEW score, NEW n
  PROVE  Best(S, score, n) = {x \in S : Cardinality(Ahead(Higher(S, score), S, x)) < n}
<1>1. ASSUME NEW t \in S
      PROVE  Ahead(Higher(S, score), S, t) =
               {u \in S : \/ score[u] > score[t]
                          \/ score[u] = score[t] /\ TieOrder[u] < TieOrder[t]}
  BY DEF Ahead, Higher
<1> QED BY <1>1 DEF Best

LEMMA TracksFinite == ASSUME NEW S \in SUBSET Tracks PROVE IsFiniteSet(S) /\ Cardinality(S) \in Nat
  BY CatalogAssumption, FS_Subset, FS_CardinalityType

\* No more than n are the best n.
LEMMA BestAreFew ==
  ASSUME NEW S \in SUBSET Tracks, NEW score, Scores(S, score), NEW n \in Nat
  PROVE  Cardinality(Best(S, score, n)) <= n
  BY TracksFinite, HigherOrders, BestByRank, RanksAreFew

\* Who has only some ahead that are fewer than n is among the best n.
LEMMA BestHas ==
  ASSUME NEW S \in SUBSET Tracks, NEW score, NEW n \in Nat, NEW t \in S,
         NEW E \in SUBSET Tracks, Ahead(Higher(S, score), S, t) \subseteq E, Cardinality(E) < n
  PROVE  t \in Best(S, score, n)
<1>1. Cardinality(Ahead(Higher(S, score), S, t)) <= Cardinality(E)
  BY TracksFinite, FS_Subset
<1>2. Cardinality(E) \in Nat /\ Cardinality(Ahead(Higher(S, score), S, t)) \in Nat
  BY TracksFinite DEF Ahead
<1>3. Cardinality(Ahead(Higher(S, score), S, t)) < n
  BY <1>1, <1>2
<1> QED BY <1>3, BestByRank

\* Fewer than n that are left out do not hide the others.
LEMMA BestReachBeyond ==
  ASSUME NEW S \in SUBSET Tracks, NEW score, Scores(S, score), NEW n \in Nat,
         NEW out \in SUBSET Tracks, Cardinality(out) < n, S \ out # {}
  PROVE  Best(S, score, n) \ out # {}
<1> DEFINE R == Higher(S, score)
<1>1. Orders(R, S)
  BY HigherOrders
<1>2. Orders(R, S \ out) /\ IsFiniteSet(S \ out)
  BY <1>1, TracksFinite DEF Orders
<1>3. PICK m \in S \ out : \A x \in (S \ out) \ {m} : <<m, x>> \in R
  <2> HIDE DEF R
  <2> QED BY <1>2, FirstOfFinite
<1>4. Ahead(R, S, m) \subseteq out
  <2> HIDE DEF R
  <2> QED BY <1>1, <1>3 DEF Ahead, Orders
<1>5. m \in Best(S, score, n)
  BY <1>4, BestHas
<1> QED BY <1>5

\* Something is picked when there is a song of an artist not seen.
LEMMA SomethingIsPicked ==
  ASSUME NEW S \in SUBSET Tracks, NEW like \in Likeness, NEW found, NEW seen,
         NEW n \in Nat \ {0}, NEW t \in S, Artist(t) \notin seen
  PROVE  Picks(S, HitPriority(found, like), seen, n) # {}
<1> DEFINE priority == HitPriority(found, like)
           A == {v \in S : Artist(v) = Artist(t)}
           R == Higher(A, priority)
<1>1. \A v \in Tracks : priority[v] \in Nat
  BY PriorityIsNat
<1> HIDE DEF priority
<1>2. A \in SUBSET Tracks /\ A # {}
  OBVIOUS
<1>3. Scores(A, priority)
  BY <1>1 DEF Scores
<1>4. Orders(R, A) /\ IsFiniteSet(A)
  BY <1>2, <1>3, HigherOrders, TracksFinite
<1>5. PICK m \in A : \A x \in A \ {m} : <<m, x>> \in R
  <2> HIDE DEF R, A
  <2> QED BY <1>2, <1>4, FirstOfFinite
<1>6. ASSUME NEW u \in S, Artist(u) = Artist(m) PROVE m \in Best({m, u}, priority, 1)
  <2>1. u \in A
    BY <1>6
  <2>2. <<u, m>> \notin R
    BY <1>4, <1>5, <2>1 DEF Orders
  <2>3. Ahead(Higher({m, u}, priority), {m, u}, m) = {}
    <3>1. ~(\/ priority[u] > priority[m]
            \/ priority[u] = priority[m] /\ TieOrder[u] < TieOrder[m])
      BY <2>1, <2>2 DEF Higher
    <3>2. ~(\/ priority[m] > priority[m]
            \/ priority[m] = priority[m] /\ TieOrder[m] < TieOrder[m])
      BY <1>1, OrderAssumption
    <3> QED BY <3>1, <3>2 DEF Ahead, Higher
  <2>4. Cardinality({}) = 0
    BY FS_EmptySet
  <2> DEFINE pair == {m, u}
  <2>5. pair \in SUBSET Tracks /\ m \in pair /\ Ahead(Higher(pair, priority), pair, m) \subseteq {}
    BY <2>3
  <2> HIDE DEF pair
  <2>6. m \in Best(pair, priority, 1)
    <3>1. Cardinality({}) < 1 /\ {} \in SUBSET Tracks /\ 1 \in Nat
      BY <2>4
    <3> QED BY <2>5, <3>1, BestHas
  <2> QED BY <2>6 DEF pair
<1>7. m \in Fresh(S, priority, seen)
  BY <1>6 DEF Fresh
<1>8. /\ Fresh(S, priority, seen) \in SUBSET Tracks /\ Fresh(S, priority, seen) \ {} # {}
      /\ Scores(Fresh(S, priority, seen), priority)
      /\ Cardinality({}) < n /\ {} \in SUBSET Tracks
  <2>1. Cardinality({}) = 0
    BY FS_EmptySet
  <2>2. Fresh(S, priority, seen) \subseteq S
    BY DEF Fresh
  <2>3. Scores(Fresh(S, priority, seen), priority)
    BY <1>1, <2>2 DEF Scores
  <2> QED BY <1>7, <2>1, <2>2, <2>3
<1>9. Best(Fresh(S, priority, seen), priority, n) \ {} # {}
  BY <1>8, BestReachBeyond
<1> QED BY <1>9 DEF Picks, priority

-----------------------------------------------------------------------------
(* What the searches find *)

LEMMA FusedIsNat ==
  ASSUME NEW like \in Likeness, NEW found, NEW S \in SUBSET Tracks
  PROVE  Scores(S, Fused(found, like))
<1>1. ASSUME NEW t \in S PROVE Fused(found, like)[t] \in Nat
  <2>1. like[t]["audio"] \in Nat /\ like[t]["lyrics"] \in Nat
    BY LikenessAssumption DEF Collections
  <2> QED BY <2>1 DEF Fused
<1> QED BY <1>1 DEF Scores

\* The points one collection is searched among.
Points(c, language, cluster) ==
  {t \in Tracks : c \in Catalog[t].points /\ Matches(t, language, cluster)}

LEMMA KnnAreBest ==
  ASSUME NEW like \in Likeness, NEW c \in Collections, NEW language, NEW cluster, NEW n
  PROVE  \E score : /\ Scores(Tracks, score)
                    /\ KnnRaw(c, Collections, like, language, cluster, n) =
                         Best(Points(c, language, cluster), score, n)
<1> DEFINE score == [t \in Tracks |-> like[t][c]]
<1>1. Scores(Tracks, score)
  BY LikenessAssumption DEF Scores
<1>2. KnnRaw(c, Collections, like, language, cluster, n) = Best(Points(c, language, cluster), score, n)
  BY DEF KnnRaw, Points
<1> HIDE DEF score
<1> QED BY <1>1, <1>2

\* What two collections find is what is open of them.
LEMMA FoundIsOpen ==
  ASSUME NEW q, NEW heard, NEW like, NEW out, NEW n, NEW cluster
  PROVE  WithoutExcluded(Found(heard, like, out, n, q.language, cluster), out)
           \subseteq Open(q, out, cluster)
<1>1. ASSUME NEW c \in Collections,
             NEW t \in KnnRaw(c, heard, like, q.language, cluster, PointsRead(out, n))
      PROVE  t \in Tracks /\ Catalog[t].points # {} /\ Matches(t, q.language, cluster)
  BY <1>1, BestIsSome DEF KnnRaw
<1> QED BY <1>1 DEF WithoutExcluded, Found, Open, Collections

\* The excluded and Oversample songs more are looked at, in each collection.
LEMMA OpenIsFound ==
  ASSUME NEW q, NEW like \in Likeness, NEW out \in SUBSET Tracks, NEW n \in Nat, NEW cluster,
         n >= Oversample, Cardinality(Open(q, out, cluster)) <= Oversample,
         NEW t \in Open(q, out, cluster)
  PROVE  LET found == Found(Collections, like, out, n, q.language, cluster)
         IN  t \in FusedKnnSearch(found, like, out, n)
<1> DEFINE found == Found(Collections, like, out, n, q.language, cluster)
           open == Open(q, out, cluster)
           read == PointsRead(out, n)
<1>1. open \in SUBSET Tracks /\ t \in Tracks \ out
  BY DEF Open
<1>2. PICK c \in Collections : c \in Catalog[t].points
  BY <1>1, CatalogAssumption DEF Open
<1>3. Cardinality(open) \in Nat /\ Cardinality(out) \in Nat /\ read \in Nat /\ Oversample \in Nat
  BY <1>1, TracksFinite, BoundsAssumption DEF PointsRead
<1>4. t \in KnnRaw(c, Collections, like, q.language, cluster, read)
  <2> DEFINE S == Points(c, q.language, cluster)
             E == out \cup (open \ {t})
  <2>1. PICK score : /\ Scores(Tracks, score)
                     /\ KnnRaw(c, Collections, like, q.language, cluster, read) = Best(S, score, read)
    BY KnnAreBest
  <2>2. S \in SUBSET Tracks /\ t \in S /\ Scores(S, score)
    BY <1>2, <2>1 DEF Points, Open, Scores
  <2>3. S \subseteq out \cup open
    BY DEF Points, Open
  <2>4. Ahead(Higher(S, score), S, t) \subseteq E
    <3>1. Orders(Higher(S, score), S)
      BY <2>2, HigherOrders
    <3> HIDE DEF S, open
    <3> QED BY <2>2, <2>3, <3>1 DEF Ahead, Orders
  <2>5. Cardinality(E) < read
    <3>1. Cardinality(open \ {t}) = Cardinality(open) - 1 /\ IsFiniteSet(open \ {t})
      BY <1>1, TracksFinite, FS_RemoveElement
    <3>2. Cardinality(E) = Cardinality(out) + Cardinality(open \ {t}) - Cardinality(out \cap (open \ {t}))
      <4> HIDE DEF open
      <4> QED BY <1>1, <3>1, TracksFinite, FS_Union
    <3>3. Cardinality(out \cap (open \ {t})) \in Nat
      BY TracksFinite
    <3>4. Cardinality(open) <= Oversample /\ Spare \in Nat /\ read = n + Cardinality(out) + Spare
      BY BoundsAssumption DEF PointsRead
    <3> HIDE DEF E, open, read
    <3> QED BY <1>3, <3>1, <3>2, <3>3, <3>4
  <2>6. E \in SUBSET Tracks
    BY <1>1
  <2> HIDE DEF E, S, read
  <2>7. t \in Best(S, score, read)
    BY <1>3, <2>2, <2>4, <2>5, <2>6, BestHas
  <2> QED BY <2>1, <2>7
<1>5. t \in WithoutExcluded(found, out)
  BY <1>1, <1>4 DEF WithoutExcluded, Found, Collections
<1>6. WithoutExcluded(found, out) \subseteq open
  BY FoundIsOpen
<1> DEFINE W == WithoutExcluded(found, out)
           score == Fused(found, like)
<1>7. W \in SUBSET Tracks /\ Scores(W, score)
  <2>1. W \in SUBSET Tracks
    BY <1>1, <1>6
  <2> HIDE DEF found, W
  <2> QED BY <2>1, FusedIsNat
<1>8. t \in Best(W, score, n)
  <2> DEFINE E == open \ {t}
  <2> HIDE DEF open, W, score, found
  <2>1. Orders(Higher(W, score), W)
    BY <1>7, HigherOrders
  <2>2. t \in W /\ W \subseteq open
    BY <1>5, <1>6 DEF W
  <2>3. Ahead(Higher(W, score), W, t) \subseteq E
    BY <2>1, <2>2 DEF Ahead, Orders
  <2>4. Cardinality(E) = Cardinality(open) - 1
    BY <1>1, <2>2, TracksFinite, FS_RemoveElement
  <2>5. Cardinality(E) < n /\ E \in SUBSET Tracks
    BY <1>1, <1>3, <2>4 DEF open
  <2> HIDE DEF E
  <2> QED BY <1>7, <2>2, <2>3, <2>5, BestHas
<1> QED BY <1>8 DEF FusedKnnSearch

\* No more than its share of the page is picked from a cluster,
LEMMA ClusterPicksAreFew ==
  ASSUME NEW q, NEW like \in Likeness, NEW heard, Head(q.shares) \in Nat
  PROVE  /\ ClusterPicks(q, like, heard) \in SUBSET Tracks
         /\ Cardinality(ClusterPicks(q, like, heard)) <= Head(q.shares)
<1> DEFINE n == Head(q.shares)
           out == AllExcluded(q)
           found == Found(heard, like, out, n * Oversample, q.language, Head(q.waiting))
           near == FusedKnnSearch(found, like, out, n * Oversample)
           priority == HitPriority(found, like)
           fresh == Fresh(near, priority, SeenArtists(q))
<1>1. near \subseteq Tracks
  BY NeighboursAreClean
<1>2. fresh \in SUBSET Tracks
  BY <1>1 DEF Fresh
<1>3. Scores(fresh, priority)
  <2> HIDE DEF found, fresh
  <2> QED BY <1>2, PriorityIsNat DEF Scores
<1>4. Cardinality(Best(fresh, priority, n)) <= n /\ Best(fresh, priority, n) \in SUBSET Tracks
  <2> HIDE DEF fresh, priority, n
  <2>1. n \in Nat
    BY DEF n
  <2> QED BY <1>2, <1>3, <2>1, BestAreFew, BestIsSome
<1>5. ClusterPicks(q, like, heard) = IF n = 0 THEN {} ELSE Best(fresh, priority, n)
  BY DEF ClusterPicks, Picks
<1>6. Cardinality({}) = 0
  BY FS_EmptySet
<1> HIDE DEF fresh, priority
<1> QED BY <1>4, <1>5, <1>6

\* and if nothing is, though all was heard, then nothing of other artists is open.
LEMMA ClusterPicksWhatIsOpen ==
  ASSUME NEW q, NEW like \in Likeness, Head(q.shares) \in Nat \ {0},
         AllExcluded(q) \in SUBSET Tracks, ClusterPicks(q, like, Collections) = {},
         NEW open, open = Open(q, AllExcluded(q), Head(q.waiting)),
         Cardinality(open) <= Oversample,
         NEW t \in open
  PROVE  Artist(t) \in SeenArtists(q)
<1> DEFINE n == Head(q.shares)
           m == n * Oversample
           out == AllExcluded(q)
           found == Found(Collections, like, out, m, q.language, Head(q.waiting))
           near == FusedKnnSearch(found, like, out, m)
<1>1. m \in Nat /\ m >= Oversample
  <2>1. n \in Nat /\ n >= 1 /\ Oversample \in Nat
    BY BoundsAssumption
  <2> HIDE DEF n
  <2>2. n * Oversample = (n - 1) * Oversample + Oversample
    BY <2>1
  <2>3. (n - 1) * Oversample \in Nat
    BY <2>1
  <2> QED BY <2>1, <2>2, <2>3
<1>2. t \in near
  <2> HIDE DEF m, out
  <2>1. out \in SUBSET Tracks
    BY DEF out
  <2> QED BY <1>1, <2>1, OpenIsFound DEF out
<1>3. near \in SUBSET Tracks
  BY NeighboursAreClean
<1>4. ClusterPicks(q, like, Collections) = Picks(near, HitPriority(found, like), SeenArtists(q), n)
  BY DEF ClusterPicks
<1> HIDE DEF near, found
<1> QED BY <1>2, <1>3, <1>4, SomethingIsPicked

\* A mood fits the page,
LEMMA MoodPicksAreFew ==
  ASSUME NEW q, NEW unread, NEW like \in Likeness, NEW heard, q.limit \in Nat
  PROVE  /\ MoodPicks(q, unread, like, heard) \in SUBSET Tracks
         /\ Cardinality(MoodPicks(q, unread, like, heard)) <= q.limit
<1> DEFINE n == q.limit
           sung == ToSet(q.played)
           cluster == IF Vectors(sung, unread) = {} THEN Unbound ELSE ClusterOf[q.mood]
           found == Found(heard, like, sung, n * Oversample, q.language, cluster)
           near == FusedKnnSearch(found, like, sung, n * Oversample)
           priority == HitPriority(found, like)
           fresh == Fresh(near, priority, {})
<1>1. near \subseteq Tracks
  BY NeighboursAreClean
<1>2. fresh \in SUBSET Tracks
  BY <1>1 DEF Fresh
<1>3. Scores(fresh, priority)
  <2> HIDE DEF found, fresh
  <2> QED BY <1>2, PriorityIsNat DEF Scores
<1>4. Cardinality(Best(fresh, priority, n)) <= n /\ Best(fresh, priority, n) \in SUBSET Tracks
  <2> HIDE DEF fresh, priority, n
  <2>1. n \in Nat
    BY DEF n
  <2> QED BY <1>2, <1>3, <2>1, BestAreFew, BestIsSome
<1>5. MoodPicks(q, unread, like, heard) = Best(fresh, priority, n)
  BY DEF MoodPicks, Picks
<1> HIDE DEF fresh, priority
<1> QED BY <1>4, <1>5

\* and if nothing is picked, though all was heard, then nothing is open.
LEMMA MoodPicksWhatIsOpen ==
  ASSUME NEW q, NEW unread, NEW like \in Likeness, q.limit \in Nat \ {0},
         ToSet(q.played) \in SUBSET Tracks, MoodPicks(q, unread, like, Collections) = {}
  PROVE  Open(q, ToSet(q.played),
              IF Vectors(ToSet(q.played), unread) = {} THEN Unbound ELSE ClusterOf[q.mood]) = {}
<1> DEFINE sung == ToSet(q.played)
           cluster == IF Vectors(sung, unread) = {} THEN Unbound ELSE ClusterOf[q.mood]
           m == q.limit * Oversample
           read == PointsRead(sung, m)
           found == Found(Collections, like, sung, m, q.language, cluster)
           W == WithoutExcluded(found, sung)
           score == Fused(found, like)
           near == Best(W, score, m)
<1>1. m \in Nat \ {0}
  BY BoundsAssumption
<1>2. Cardinality(sung) \in Nat /\ read \in Nat /\ Cardinality(sung) < read
  <2>1. Cardinality(sung) \in Nat /\ Spare \in Nat
    BY TracksFinite, BoundsAssumption
  <2> HIDE DEF sung, m
  <2> QED BY <1>1, <2>1 DEF PointsRead
<1>3. SUFFICES ASSUME NEW t \in Open(q, sung, cluster) PROVE FALSE
  OBVIOUS
<1>4. PICK c \in Collections : c \in Catalog[t].points
  BY CatalogAssumption DEF Open
<1>5. W # {}
  <2> DEFINE S == Points(c, q.language, cluster)
  <2>1. PICK s : /\ Scores(Tracks, s)
                 /\ KnnRaw(c, Collections, like, q.language, cluster, read) = Best(S, s, read)
    BY KnnAreBest
  <2>2. S \in SUBSET Tracks /\ S \ sung # {} /\ Scores(S, s)
    BY <1>4, <2>1 DEF Points, Open, Scores
  <2>3. Best(S, s, read) \ sung # {}
    <3> HIDE DEF S, sung, read
    <3>1. sung \in SUBSET Tracks
      BY DEF sung
    <3> QED BY <1>2, <2>2, <3>1, BestReachBeyond
  <2> HIDE DEF S, sung, read
  <2>4. PICK u \in KnnRaw(c, Collections, like, q.language, cluster, read) : u \notin sung
    BY <2>1, <2>3
  <2>5. u \in found.audio \cup found.lyrics
    BY <2>4 DEF Found, Collections, read
  <2> QED BY <2>4, <2>5 DEF WithoutExcluded
<1>6. W \in SUBSET Tracks /\ Scores(W, score)
  <2>1. W \subseteq Open(q, sung, cluster)
    BY FoundIsOpen
  <2>2. W \in SUBSET Tracks
    BY <2>1 DEF Open
  <2> HIDE DEF W, found
  <2> QED BY <2>2, FusedIsNat
<1>7. near \ {} # {}
  <2>1. Cardinality({}) = 0
    BY FS_EmptySet
  <2>2. {} \in SUBSET Tracks /\ Cardinality({}) < m /\ W \ {} # {} /\ m \in Nat
    BY <1>1, <1>5, <2>1
  <2> HIDE DEF W, score, m
  <2> QED BY <1>6, <2>2, BestReachBeyond
<1>8. near \in SUBSET Tracks
  BY <1>6, BestIsSome
<1>9. MoodPicks(q, unread, like, Collections) = Picks(near, HitPriority(found, like), {}, q.limit)
  BY DEF MoodPicks, FusedKnnSearch
<1> HIDE DEF near, found
<1>10. PICK u \in near : Artist(u) \notin {}
  BY <1>7
<1>11. Picks(near, HitPriority(found, like), {}, q.limit) # {}
  BY <1>8, <1>10, SomethingIsPicked
<1> QED BY <1>9, <1>11

-----------------------------------------------------------------------------
(* What the popular songs are *)

\* Any n of a set, or all of it.
LEMMA AnyOfHas ==
  ASSUME NEW S \in SUBSET Tracks, NEW n \in Nat, NEW T \in AnyOf(S, n)
  PROVE  /\ T \in SUBSET S /\ T \in SUBSET Tracks
         /\ Cardinality(T) \in Nat /\ Cardinality(T) = Lesser(n, Cardinality(S))
<1>1. T \in SUBSET S /\ Cardinality(T) = Lesser(n, Cardinality(S))
  BY DEF AnyOf, kSubset
<1> QED BY <1>1, TracksFinite

\* When enough of a set is there, at least n are left without the others: as many as
\* there are, or more than n.
LEMMA LeftOver ==
  ASSUME NEW W \in SUBSET Tracks, NEW out \in SUBSET Tracks, NEW n \in Nat, NEW extra \in Nat,
         n >= Cardinality(out) + extra, NEW rows \in AnyOf(W, n)
  PROVE  /\ Cardinality(rows \ out) \in Nat
         /\ rows \ out = W \ out \/ Cardinality(rows \ out) >= extra
<1>1. /\ rows \in SUBSET W /\ rows \in SUBSET Tracks
      /\ Cardinality(rows) \in Nat /\ Cardinality(rows) = Lesser(n, Cardinality(W))
  BY AnyOfHas
<1>2. CASE Cardinality(rows) = Cardinality(W)
  <2>1. rows = W
    BY <1>1, <1>2, TracksFinite, FS_Subset
  <2> QED BY <2>1, TracksFinite
<1>3. CASE Cardinality(rows) = n
  <2>1. /\ Cardinality(rows \ out) = Cardinality(rows) - Cardinality(rows \cap out)
        /\ Cardinality(rows \cap out) <= Cardinality(out)
    <3>1. IsFiniteSet(rows) /\ IsFiniteSet(out)
      BY <1>1, TracksFinite
    <3> QED BY <3>1, FS_Difference, FS_Intersection
  <2>2. /\ Cardinality(rows \ out) \in Nat /\ Cardinality(rows \cap out) \in Nat
        /\ Cardinality(out) \in Nat
    BY <1>1, TracksFinite
  <2> QED BY <1>3, <2>1, <2>2
<1> QED BY <1>1, <1>2, <1>3 DEF Lesser

\* Popular songs fill a page of two or more, as far as there are any.
LEMMA PopularSongsFill ==
  ASSUME NEW q, q.limit \in Nat, q.limit > 1, q.language = Unbound,
         AllExcluded(q) \in SUBSET Tracks, NEW answer, PopularSongs(q, answer)
  PROVE  Cardinality(answer) = Lesser(q.limit, Cardinality(WellKnown \ AllExcluded(q)))
<1> DEFINE limit == q.limit
           out == AllExcluded(q)
           top == TopShare(limit)
           W == WellKnown
           open == W \ out
           rows == RowsRead(out, top, limit)
           more == RowsRead(out, limit - top, limit)
<1>1. PICK most \in MostPlayed(W, rows), some \in AnyOf(W, more) :
        \E P \in MostPlayed(Left(most, out, q.language), top) :
          \E Q \in AnyOf(Left(some, out \cup P, q.language), Greater(1, limit - Cardinality(P))) :
            answer = P \cup Q
  BY DEF PopularSongs
<1>2. \A S, T : Left(S, T, q.language) = S \ T
  BY DEF Left, Speaks
<1>3. PICK P \in MostPlayed(most \ out, top) :
        \E Q \in AnyOf(some \ (out \cup P), Greater(1, limit - Cardinality(P))) : answer = P \cup Q
  BY <1>1, <1>2
<1>4. PICK Q \in AnyOf(some \ (out \cup P), Greater(1, limit - Cardinality(P))) : answer = P \cup Q
  BY <1>3
<1>5. limit \in Nat /\ top \in Nat /\ 1 <= top /\ top < limit
  BY DEF TopShare, Greater
<1>6. /\ out \in SUBSET Tracks /\ W \in SUBSET Tracks /\ Cardinality(out) \in Nat
      /\ open \in SUBSET Tracks /\ Cardinality(open) \in Nat
  BY TracksFinite DEF WellKnown
<1>7. /\ rows \in Nat /\ more \in Nat
      /\ rows = top + Cardinality(out) + limit
      /\ more = (limit - top) + Cardinality(out) + limit
  BY <1>5, <1>6 DEF RowsRead
<1> HIDE DEF limit, out, top, W, open, rows, more
<1>8. most \in AnyOf(W, rows) /\ P \in AnyOf(most \ out, top)
  BY <1>1, <1>3 DEF MostPlayed
<1>9. most \in SUBSET W /\ some \in SUBSET W /\ most \in SUBSET Tracks /\ some \in SUBSET Tracks
  <2>1. most \in SUBSET W /\ most \in SUBSET Tracks
    BY <1>6, <1>7, <1>8, AnyOfHas
  <2>2. some \in SUBSET W /\ some \in SUBSET Tracks
    BY <1>6, <1>7, AnyOfHas
  <2> QED BY <2>1, <2>2
<1>10. /\ P \in SUBSET (most \ out) /\ Cardinality(P) \in Nat
       /\ Cardinality(P) = Lesser(top, Cardinality(most \ out))
  BY <1>5, <1>8, <1>9, AnyOfHas
<1>11. Cardinality(P) = Lesser(top, Cardinality(open))
  <2>1. /\ Cardinality(most \ out) \in Nat
        /\ most \ out = open \/ Cardinality(most \ out) >= top + limit
    <3>1. rows >= Cardinality(out) + (top + limit) /\ top + limit \in Nat
      BY <1>5, <1>6, <1>7
    <3> QED BY <1>6, <1>7, <1>8, <3>1, LeftOver DEF open
  <2>2. Cardinality(most \ out) <= Cardinality(open)
    <3>1. most \ out \in SUBSET open
      BY <1>9 DEF open
    <3> QED BY <1>6, <3>1, TracksFinite, FS_Subset
  <2> QED BY <1>5, <1>6, <1>10, <2>1, <2>2 DEF Lesser
<1>12. Greater(1, limit - Cardinality(P)) = limit - Cardinality(P) /\ Cardinality(P) < limit
  BY <1>5, <1>6, <1>10, <1>11 DEF Greater, Lesser
<1>13. /\ Q \in SUBSET (some \ (out \cup P)) /\ Cardinality(Q) \in Nat
       /\ Cardinality(Q) = Lesser(limit - Cardinality(P), Cardinality(some \ (out \cup P)))
  <2>1. some \ (out \cup P) \in SUBSET Tracks /\ limit - Cardinality(P) \in Nat
    BY <1>5, <1>9, <1>10, <1>12
  <2> QED BY <1>4, <1>12, <2>1, AnyOfHas
<1>5a. P \subseteq open /\ Q \subseteq open \ P
  BY <1>9, <1>10, <1>13 DEF open
<1>15. Cardinality(open \ P) = Cardinality(open) - Cardinality(P) /\ Cardinality(open \ P) \in Nat
  <2>1. Cardinality(open \ P) = Cardinality(open) - Cardinality(open \cap P)
    BY <1>6, TracksFinite, FS_Difference
  <2>2. open \cap P = P /\ open \ P \in SUBSET Tracks
    BY <1>6, <1>5a
  <2> QED BY <2>1, <2>2, TracksFinite
<1>16. Cardinality(Q) = Lesser(limit - Cardinality(P), Cardinality(open \ P))
  <2>1. Cardinality(out \cup P) <= Cardinality(out) + Cardinality(P) /\ out \cup P \in SUBSET Tracks
    <3>1. P \in SUBSET Tracks
      BY <1>6, <1>5a
    <3>2. /\ Cardinality(out \cup P) = Cardinality(out) + Cardinality(P) - Cardinality(out \cap P)
          /\ Cardinality(out \cap P) \in Nat /\ Cardinality(out \cup P) \in Nat
      BY <1>6, <3>1, TracksFinite, FS_Union
    <3> QED BY <1>6, <1>10, <3>1, <3>2
  <2>2. /\ Cardinality(some \ (out \cup P)) \in Nat
        /\ some \ (out \cup P) = W \ (out \cup P)
             \/ Cardinality(some \ (out \cup P)) >= limit - Cardinality(P)
    <3>1. /\ limit - Cardinality(P) \in Nat /\ Cardinality(out \cup P) \in Nat
          /\ more >= Cardinality(out \cup P) + (limit - Cardinality(P))
      BY <1>5, <1>6, <1>7, <1>10, <1>12, <2>1, TracksFinite
    <3> QED BY <1>1, <1>6, <1>7, <2>1, <3>1, LeftOver
  <2>3. W \ (out \cup P) = open \ P
    BY DEF open
  <2>4. Cardinality(some \ (out \cup P)) <= Cardinality(open \ P)
    <3>1. some \ (out \cup P) \in SUBSET (open \ P) /\ open \ P \in SUBSET Tracks
      BY <1>6, <1>9 DEF open
    <3> QED BY <3>1, TracksFinite, FS_Subset
  <2> DEFINE room == limit - Cardinality(P)
             left == Cardinality(some \ (out \cup P))
             all == Cardinality(open \ P)
  <2>5. room \in Nat /\ left \in Nat /\ all \in Nat /\ left <= all
    BY <1>5, <1>10, <1>12, <1>15, <2>2, <2>4
  <2>6. left = all \/ left >= room
    BY <2>2, <2>3
  <2>7. Cardinality(Q) = Lesser(room, left)
    BY <1>13
  <2> HIDE DEF room, left, all
  <2>8. Lesser(room, left) = Lesser(room, all)
    BY <2>5, <2>6 DEF Lesser
  <2> QED BY <2>7, <2>8 DEF room, all
<1>17. Cardinality(answer) = Cardinality(P) + Cardinality(Q)
  <2>1. P \in SUBSET Tracks /\ Q \in SUBSET Tracks /\ P \cap Q = {}
    BY <1>6, <1>5a
  <2>2. Cardinality(P \cup Q) = Cardinality(P) + Cardinality(Q) - Cardinality(P \cap Q)
    BY <2>1, TracksFinite, FS_Union
  <2>3. Cardinality(P \cap Q) = 0
    BY <2>1, FS_EmptySet
  <2> HIDE <2>1
  <2> QED BY <1>4, <1>10, <1>13, <2>2, <2>3
<1>18. Cardinality(answer) = Lesser(limit, Cardinality(open))
  BY <1>5, <1>6, <1>10, <1>12, <1>15, <1>16, <1>17 DEF Lesser
<1> QED BY <1>18 DEF limit, open, out, W

-----------------------------------------------------------------------------
(* Pages are filled *)

\* A step of one request leaves the pages of the others alone.
LEMMA OtherPages ==
  ASSUME PagesInv, IInv', NEW r \in Requests, NEW q, PageInv(q), req' = [req EXCEPT ![r] = q],
         UNCHANGED history
  PROVE  PagesInv'
<1>1. \A s \in Requests : req'[s] = IF s = r THEN q ELSE req[s]
  BY DEF PagesInv, IInv
<1>2. \A s \in Requests : PageInv(req'[s])
  BY <1>1 DEF PagesInv
<1> QED BY <1>2 DEF PagesInv

LEMMA PlayedAreTracks ==
  ASSUME NEW q, PageInv(q)
  PROVE  ToSet(q.played) \in SUBSET Tracks /\ AllExcluded(q) \in SUBSET Tracks
  BY DEF PageInv, AllExcluded, ToSet

LEMMA AskPages ==
  ASSUME PagesInv, IInv', NEW r \in Requests, NEW mood, NEW language, NEW limit \in Limits,
         Ask(r, mood, language, limit)
  PROVE  PagesInv'
<1> DEFINE q == Request(mood, language, limit, IF mood = Unbound THEN Dismissed ELSE {})
<1>1. /\ q.phase = "sent" /\ q.limit = limit /\ q.played = <<>>
      /\ q.excluded \in {Dismissed, {}}
  BY DEF Request
<1>2. limit \in Nat /\ limit # 0 /\ Dismissed \subseteq Tracks /\ <<>> \in Seq(Tracks)
  BY BoundsAssumption DEF Dismissed
<1>3. req' = [req EXCEPT ![r] = q] /\ UNCHANGED history
  BY DEF Ask
<1> HIDE DEF q
<1>4. PageInv(q)
  BY <1>1, <1>2 DEF PageInv, Popular
<1> QED BY <1>3, <1>4, OtherPages

LEMMA LeavePages ==
  ASSUME PagesInv, IInv', NEW r \in Requests, Arrive(r) \/ Fail(r)
  PROVE  PagesInv'
<1>1. /\ Idle.phase = "idle" /\ Idle.limit = 0 /\ Idle.played = <<>>
      /\ Idle.excluded = {}
  BY DEF Idle, Request
<1>2. PageInv(Idle)
  BY <1>1 DEF PageInv, Popular
<1>3. req' = [req EXCEPT ![r] = Idle] /\ UNCHANGED history
  BY DEF Arrive, Fail
<1> QED BY <1>2, <1>3, OtherPages

LEMMA ReadHistoryPages ==
  ASSUME PagesInv, IInv', NEW r \in Requests, ReadHistory(r)
  PROVE  PagesInv'
<1> DEFINE phase == IF history = <<>> /\ req[r].mood = Unbound THEN "popular"
                    ELSE IF req[r].mood = Unbound THEN "asked" ELSE "mood"
           q == [req[r] EXCEPT !.played = history, !.phase = phase]
<1>1. req' = [req EXCEPT ![r] = q] /\ UNCHANGED history
  BY DEF ReadHistory
<1>2. IsRequest(req[r]) /\ PageInv(req[r]) /\ req[r].phase = "sent" /\ history \in Seq(Tracks)
  BY DEF PagesInv, IInv, RequestInv, ReadHistory
<1>3. /\ q.played = history /\ q.phase = phase /\ q.limit = req[r].limit
      /\ q.excluded = req[r].excluded
  BY <1>2 DEF IsRequest, Fields
<1>4. phase \in {"popular", "asked", "mood"} /\ (phase = "popular" => history = <<>>)
  OBVIOUS
<1> HIDE DEF q, phase
<1>5. PageInv(q)
  BY <1>2, <1>3, <1>4 DEF PageInv, Popular
<1> QED BY <1>1, <1>5, OtherPages

LEMMA ServiceFailsPages ==
  ASSUME PagesInv, IInv', NEW r \in Requests, ServiceFails(r)
  PROVE  PagesInv'
<1> DEFINE q == [req[r] EXCEPT !.phase = "popular", !.answer = {}, !.whole = FALSE]
<1>1. req' = [req EXCEPT ![r] = q] /\ UNCHANGED history
  BY DEF ServiceFails
<1>2. IsRequest(req[r]) /\ PageInv(req[r]) /\ req[r].phase # "idle"
  BY DEF PagesInv, IInv, RequestInv, ServiceFails
<1>3. /\ q.played = req[r].played /\ q.phase = "popular" /\ q.limit = req[r].limit
      /\ q.excluded = req[r].excluded /\ q.whole = FALSE
  BY <1>2 DEF IsRequest, Fields
<1> HIDE DEF q
<1>4. PageInv(q)
  BY <1>2, <1>3 DEF PageInv
<1> QED BY <1>1, <1>4, OtherPages

\* The clusters of a session are a finite sequence.
LEMMA ClustersAreSeveral ==
  ASSUME NEW played \in Seq(Tracks), NEW unread
  PROVE  LET s == SessionClusters(played, unread)
         IN  /\ Len(s) \in Nat
             /\ s = [i \in 1..Len(s) |-> s[i]]
<1> DEFINE sung == {c \in Clusters : Vectors(InCluster(ToSet(played), c), unread) # {}}
           cluster == [t \in Tracks |-> Catalog[t].cluster]
           held == {cluster[t] : t \in Tracks}
<1>1. cluster \in Surjection(Tracks, held)
  BY DEF Surjection
<1>2. IsFiniteSet(held)
  BY <1>1, CatalogAssumption, FS_Surjection
<1>3. sung \subseteq held
  <2> SUFFICES ASSUME NEW c \in sung PROVE c \in held
    OBVIOUS
  <2>1. PICK t \in Vectors(InCluster(ToSet(played), c), unread) : TRUE
    OBVIOUS
  <2>2. t \in Tracks /\ Catalog[t].cluster = c
    BY <2>1 DEF Vectors, InCluster, ToSet
  <2> QED BY <2>2
<1>4. Cardinality(sung) \in Nat
  BY <1>2, <1>3, FS_Subset, FS_CardinalityType
<1> HIDE DEF sung
<1>5. \E f : SessionClusters(played, unread) = [n \in 1..Cardinality(sung) |-> f[n]]
  <2> DEFINE before(c) == {d \in sung : FirstPlay(played, d) < FirstPlay(played, c)}
             f == [n \in 1..Cardinality(sung) |-> CHOOSE c \in sung : Cardinality(before(c)) = n - 1]
  <2>1. SessionClusters(played, unread) = f
    BY DEF SessionClusters, sung
  <2> HIDE DEF before
  <2>2. f = [n \in 1..Cardinality(sung) |-> f[n]]
    OBVIOUS
  <2> QED BY <2>1, <2>2
<1> QED BY <1>4, <1>5

\* What the clusters take together is the page.
LEMMA SharesAddUp ==
  ASSUME NEW n \in Nat \ {0}, NEW limit \in Nat
  PROVE  /\ Taken(n, 0, limit) = 0 /\ Taken(n, n, limit) = limit
         /\ \A k \in 0..(n - 1) : /\ Slots(n, limit)[k + 1] \in Nat
                                  /\ Taken(n, k, limit) \in Nat
                                  /\ Taken(n, k + 1, limit) = Taken(n, k, limit) + Slots(n, limit)[k + 1]
<1> DEFINE a == limit \div n
           b == limit % n
<1>1. a \in Nat /\ b \in 0..(n - 1) /\ limit = n * a + b
  OBVIOUS
<1>2. \A k : Taken(n, k, limit) = k * a + Lesser(k, b)
  BY DEF Taken
<1>3. \A i \in 1..n : Slots(n, limit)[i] = a + (IF i <= b THEN 1 ELSE 0)
  BY DEF Slots
<1> HIDE DEF a, b
<1>4. 0 * a = 0
  BY <1>1
<1>5. ASSUME NEW k \in 0..(n - 1)
      PROVE  /\ Slots(n, limit)[k + 1] \in Nat /\ Taken(n, k, limit) \in Nat
             /\ Taken(n, k + 1, limit) = Taken(n, k, limit) + Slots(n, limit)[k + 1]
  <2>1. (k + 1) * a = k * a + a /\ k * a \in Nat
    BY <1>1
  <2>2. Slots(n, limit)[k + 1] = a + (IF k + 1 <= b THEN 1 ELSE 0)
    BY <1>3
  <2>3. Lesser(k + 1, b) = Lesser(k, b) + (IF k + 1 <= b THEN 1 ELSE 0) /\ Lesser(k, b) \in Nat
    BY <1>1 DEF Lesser
  <2>4. Taken(n, k, limit) = k * a + Lesser(k, b) /\ Taken(n, k + 1, limit) = (k + 1) * a + Lesser(k + 1, b)
    BY <1>2
  <2> DEFINE ka == k * a
  <2>5. Taken(n, k, limit) = ka + Lesser(k, b) /\ Taken(n, k + 1, limit) = ka + a + Lesser(k + 1, b)
    BY <2>1, <2>4
  <2>6. ka \in Nat
    BY <2>1
  <2> HIDE DEF ka
  <2> QED BY <1>1, <2>2, <2>3, <2>5, <2>6
<1>6. Lesser(n, b) = b /\ Lesser(0, b) = 0
  BY <1>1 DEF Lesser
<1>7. Taken(n, n, limit) = n * a + b /\ Taken(n, 0, limit) = 0 * a + 0
  BY <1>2, <1>6
<1>8. Taken(n, n, limit) = limit /\ Taken(n, 0, limit) = 0
  BY <1>1, <1>4, <1>7
<1> QED BY <1>5, <1>8

LEMMA ShareAmongClustersPages ==
  ASSUME PagesInv, IInv', NEW r \in Requests, ShareAmongClusters(r)
  PROVE  PagesInv'
<1>1. PICK unread \in SUBSET ToSet(req[r].played) :
        LET clusters == SessionClusters(req[r].played, unread) IN
        req' = [req EXCEPT ![r].phase = IF clusters = <<>> THEN "popular" ELSE "clusters",
                           ![r].waiting = clusters,
                           ![r].shares = Slots(Len(clusters), req[r].limit),
                           ![r].whole = unread = {}]
  BY DEF ShareAmongClusters
<1> DEFINE clusters == SessionClusters(req[r].played, unread)
           n == Len(clusters)
           phase == IF clusters = <<>> THEN "popular" ELSE "clusters"
           shares == Slots(n, req[r].limit)
           whole == unread = {}
           q == [req[r] EXCEPT !.phase = phase, !.waiting = clusters, !.shares = shares,
                               !.whole = whole]
<1>2. req' = [req EXCEPT ![r] = q] /\ UNCHANGED history
  BY <1>1, ZenonT(60) DEF ShareAmongClusters
<1>3. IsRequest(req[r]) /\ PageInv(req[r]) /\ req[r].phase = "asked"
  BY DEF PagesInv, IInv, RequestInv, ShareAmongClusters
<1>4. req[r].answer = {} /\ req[r].mood = Unbound
  BY <1>3 DEF PagesInv, IInv, RequestInv, Sound
<1> HIDE DEF clusters, shares, phase, whole
<1>5. /\ q.phase = phase /\ q.waiting = clusters /\ q.shares = shares /\ q.whole = whole
      /\ q.played = req[r].played /\ q.limit = req[r].limit /\ q.excluded = req[r].excluded
      /\ q.answer = {} /\ q.mood = Unbound
  BY <1>3, <1>4 DEF IsRequest, Fields
<1>6. n \in Nat /\ clusters = [i \in 1..n |-> clusters[i]]
  BY <1>3, ClustersAreSeveral DEF clusters, PageInv
<1> HIDE DEF q
<1>7. CASE clusters = <<>>
  <2>1. phase = "popular"
    BY <1>7 DEF phase
  <2>2. whole => LastResort(q)
    <3> SUFFICES ASSUME whole PROVE LastResort(q)
      OBVIOUS
    <3>1. SessionClusters(q.played, {}) = <<>>
      BY <1>5, <1>7 DEF whole, clusters
    <3> QED BY <1>5, <3>1 DEF LastResort
  <2> QED BY <1>2, <1>3, <1>5, <2>1, <2>2, OtherPages DEF PageInv
<1>8. CASE clusters # <<>>
  <2>1. phase = "clusters"
    BY <1>8 DEF phase
  <2>2. n # 0
    BY <1>6, <1>8
  <2>3. shares = [i \in 1..n |-> shares[i]]
    BY DEF shares, Slots
  <2>4. Cardinality(q.answer) <= Taken(n, 0, q.limit)
    <3>1. Cardinality({}) = 0
      BY FS_EmptySet
    <3>2. Taken(n, 0, q.limit) = 0
      BY <1>3, <1>5, <1>6, <2>2, SharesAddUp DEF PageInv
    <3> QED BY <1>5, <3>1, <3>2
  <2>5. Partway(q)
    <3>1. clusters = Rest(clusters, 0) /\ shares = Rest(shares, 0)
      <4>1. Len(shares) = n
        BY <1>6 DEF shares, Slots
      <4>2. Rest(clusters, 0) = clusters
        BY <1>6, RestAll
      <4>3. Rest(shares, 0) = shares
        BY <1>6, <2>3, <4>1, RestAll
      <4> QED BY <4>2, <4>3
    <3>2. /\ SessionClusters(q.played, unread) = clusters /\ Slots(n, q.limit) = shares
          /\ q.whole => unread = {}
          /\ unread \in SUBSET ToSet(q.played)
      BY <1>5 DEF clusters, shares, whole
    <3>3. 0 \in Nat /\ 0 < n /\ \A i \in 1..0 : NothingLeft(q, clusters, i)
      BY <1>6, <2>2
    <3> QED BY <1>5, <2>4, <3>1, <3>2, <3>3 DEF Partway
  <2> QED BY <1>2, <1>3, <1>5, <2>1, <2>5, OtherPages DEF PageInv, Popular
<1> QED BY <1>7, <1>8

\* What is left in a cluster does not depend on what was picked.
LEMMA SameLeft ==
  ASSUME NEW p, NEW q, q.played = p.played, q.excluded = p.excluded, q.limit = p.limit,
         q.language = p.language, NEW clusters, NEW i, NothingLeft(p, clusters, i)
  PROVE  NothingLeft(q, clusters, i)
<1>1. AllExcluded(q) = AllExcluded(p)
  BY DEF AllExcluded
<1>2. \A out, c : Open(q, out, c) = Open(p, out, c)
  BY DEF Open
<1> QED BY <1>1, <1>2 DEF NothingLeft

\* The page after the picks of one more cluster, while others wait,
LEMMA ClusterPages ==
  ASSUME NEW p, PageInv(p), p.phase = "clusters", p.mood = Unbound, p.answer \in SUBSET Tracks,
         NEW like \in Likeness, NEW heard \in SUBSET Collections,
         NEW q, q.answer = p.answer \cup ClusterPicks(p, like, heard),
         q.waiting = Tail(p.waiting), q.shares = Tail(p.shares),
         q.whole = (p.whole /\ (Head(p.shares) = 0 \/ heard = Collections)),
         q.phase = IF Len(p.waiting) > 1 THEN "clusters"
                   ELSE Returned(p.answer \cup ClusterPicks(p, like, heard)),
         q.strategy = "cluster", q.played = p.played, q.excluded = p.excluded,
         q.limit = p.limit, q.language = p.language, q.mood = p.mood
  PROVE  PageInv(q)
<1> DEFINE picks == ClusterPicks(p, like, heard)
           share == Head(p.shares)
<1>1. PICK unread \in SUBSET ToSet(p.played), k \in Nat :
        LET clusters == SessionClusters(p.played, unread)
            n == Len(clusters)
        IN  /\ k < n
            /\ p.waiting = Rest(clusters, k) /\ p.shares = Rest(Slots(n, p.limit), k)
            /\ Cardinality(p.answer) <= Taken(n, k, p.limit)
            /\ p.whole => unread = {}
            /\ p.whole /\ p.answer = {} => \A i \in 1..k : NothingLeft(p, clusters, i)
  BY DEF PageInv, Partway
<1> DEFINE clusters == SessionClusters(p.played, unread)
           n == Len(clusters)
           slots == Slots(n, p.limit)
<1>2. /\ p.limit \in Nat /\ p.limit # 0 /\ p.played \in Seq(Tracks) /\ p.excluded \subseteq Tracks
      /\ AllExcluded(p) \in SUBSET Tracks
  BY PlayedAreTracks DEF PageInv
<1>3. n \in Nat /\ clusters = [i \in 1..n |-> clusters[i]]
  BY <1>2, ClustersAreSeveral
<1>4. n \in Nat \ {0} /\ k \in 0..(n - 1) /\ Len(slots) = n
  BY <1>1, <1>3 DEF Slots
<1> HIDE DEF clusters, slots, picks
<1>5. /\ p.waiting = Rest(clusters, k) /\ p.shares = Rest(slots, k)
      /\ Cardinality(p.answer) <= Taken(n, k, p.limit)
      /\ p.whole => unread = {}
      /\ p.whole /\ p.answer = {} => \A i \in 1..k : NothingLeft(p, clusters, i)
  BY <1>1 DEF clusters, slots
<1> HIDE DEF n, share
<1>5a. Len(clusters) = n
  BY DEF n
<1>6. /\ Head(p.waiting) = clusters[k + 1] /\ Tail(p.waiting) = Rest(clusters, k + 1)
      /\ Len(p.waiting) = n - k
      /\ share = slots[k + 1] /\ Tail(p.shares) = Rest(slots, k + 1)
  BY <1>4, <1>5, <1>5a, RestTail, ZenonT(60) DEF share
<1>7. /\ share \in Nat /\ Taken(n, k, p.limit) \in Nat
      /\ Taken(n, k + 1, p.limit) = Taken(n, k, p.limit) + share
      /\ Taken(n, n, p.limit) = p.limit
  BY <1>2, <1>4, <1>6, SharesAddUp DEF slots
<1>8. picks \in SUBSET Tracks /\ Cardinality(picks) <= share
  BY <1>7, ClusterPicksAreFew DEF picks, share
<1>9. Cardinality(q.answer) <= Taken(n, k + 1, p.limit)
  <2> DEFINE both == p.answer \cup picks
  <2>1. /\ Cardinality(both) <= Cardinality(p.answer) + Cardinality(picks)
        /\ Cardinality(both) \in Nat
        /\ Cardinality(p.answer) \in Nat /\ Cardinality(picks) \in Nat
    BY <1>8, TracksFinite, UnionIsNoMore
  <2>2. Cardinality(q.answer) = Cardinality(both)
    BY DEF picks
  <2>3. Cardinality(p.answer) <= Taken(n, k, p.limit)
    BY <1>5
  <2> DEFINE a == Cardinality(q.answer)
             b == Cardinality(p.answer)
             c == Cardinality(picks)
             before == Taken(n, k, p.limit)
             after == Taken(n, k + 1, p.limit)
  <2>4. /\ a \in Nat /\ b \in Nat /\ c \in Nat /\ before \in Nat /\ share \in Nat
        /\ a <= b + c /\ b <= before /\ c <= share /\ after = before + share
    BY <1>7, <1>8, <2>1, <2>2, <2>3
  <2> HIDE DEF a, b, c, before, after
  <2>5. a <= after
    BY <2>4
  <2> QED BY <2>5 DEF a, after
<1>10. q.whole /\ q.answer = {} => \A i \in 1..(k + 1) : NothingLeft(q, clusters, i)
  <2> SUFFICES ASSUME q.whole, q.answer = {}, NEW i \in 1..(k + 1) PROVE NothingLeft(q, clusters, i)
    OBVIOUS
  <2>1. p.whole /\ (share = 0 \/ heard = Collections) /\ p.answer = {} /\ picks = {}
    BY DEF share, picks
  <2>2. CASE i \in 1..k
    BY <1>5, <2>1, <2>2, SameLeft
  <2>3. CASE i = k + 1
    <3> DEFINE open == Open(p, AllExcluded(p), clusters[k + 1])
    <3>1. SeenArtists(p) = PlayedArtists(p.played)
      BY <2>1 DEF SeenArtists
    <3>2. CASE share = 0
      <4>1. NothingLeft(p, clusters, k + 1)
        BY <1>6, <3>2 DEF NothingLeft, slots, n
      <4> QED BY <2>3, <4>1, SameLeft
    <3>3. CASE share # 0 /\ Cardinality(open) <= Oversample
      <4>1. \A t \in open : Artist(t) \in SeenArtists(p)
        <5>1. /\ Head(p.shares) \in Nat \ {0} /\ ClusterPicks(p, like, Collections) = {}
              /\ open = Open(p, AllExcluded(p), Head(p.waiting))
          BY <1>6, <1>7, <2>1, <3>3 DEF share, picks
        <5> HIDE DEF open
        <5> QED BY <1>2, <3>3, <5>1, ClusterPicksWhatIsOpen
      <4>2. NothingLeft(p, clusters, k + 1)
        BY <3>1, <4>1 DEF NothingLeft
      <4> QED BY <2>3, <4>2, SameLeft
    <3>4. CASE ~(Cardinality(open) <= Oversample)
      <4>1. Cardinality(open) > Oversample
        <5>1. Cardinality(open) \in Nat /\ Oversample \in Nat
          BY TracksFinite, BoundsAssumption DEF Open
        <5> QED BY <3>4, <5>1
      <4>2. NothingLeft(p, clusters, k + 1)
        BY <4>1 DEF NothingLeft
      <4> QED BY <2>3, <4>2, SameLeft
    <3> QED BY <3>2, <3>3, <3>4
  <2> QED BY <1>4, <2>2, <2>3
<1>11. q.whole => unread = {}
  BY <1>5
<1>12. CASE k + 1 < n
  <2>1. q.phase = "clusters"
    BY <1>4, <1>6, <1>12
  <2>2. Partway(q)
    <3>1. /\ clusters = SessionClusters(q.played, unread) /\ slots = Slots(n, q.limit)
          /\ unread \in SUBSET ToSet(q.played)
      BY DEF clusters, slots
    <3>2. k + 1 \in Nat /\ q.waiting = Rest(clusters, k + 1) /\ q.shares = Rest(slots, k + 1)
      BY <1>6
    <3> QED BY <1>9, <1>10, <1>11, <1>12, <1>5a, <3>1, <3>2 DEF Partway
  <2> QED BY <1>2, <2>1, <2>2 DEF PageInv, Popular
<1>13. CASE k + 1 = n
  <2>1. Len(p.waiting) = 1
    BY <1>4, <1>6, <1>13
  <2>2. q.phase = IF q.answer = {} THEN "popular" ELSE "answered"
    BY <2>1 DEF Returned
  <2>3. q.phase = "answered" => Cardinality(q.answer) <= q.limit
    BY <1>7, <1>9, <1>13
  <2>4. q.phase = "popular" /\ q.whole => LastResort(q)
    <3> SUFFICES ASSUME q.phase = "popular", q.whole PROVE LastResort(q)
      OBVIOUS
    <3>1. \A i \in 1..n : NothingLeft(q, clusters, i)
      BY <1>10, <1>13, <2>2
    <3>2. SessionClusters(q.played, {}) = clusters
      BY <1>11 DEF clusters
    <3> QED BY <1>3, <3>1, <3>2 DEF LastResort
  <2> QED BY <1>2, <2>2, <2>3, <2>4 DEF PageInv, Popular
<1> QED BY <1>4, <1>12, <1>13

LEMMA SearchClusterPages ==
  ASSUME PagesInv, IInv', NEW r \in Requests, SearchCluster(r)
  PROVE  PagesInv'
<1>1. PICK like \in Likeness, heard \in SUBSET Collections :
        LET q == req[r]
            picks == ClusterPicks(q, like, heard)
        IN  req' = [req EXCEPT
                      ![r].answer = q.answer \cup picks,
                      ![r].waiting = Tail(q.waiting),
                      ![r].shares = Tail(q.shares),
                      ![r].whole = q.whole /\ (Head(q.shares) = 0 \/ heard = Collections),
                      ![r].strategy = "cluster",
                      ![r].phase = IF Len(q.waiting) > 1 THEN "clusters"
                                   ELSE Returned(q.answer \cup picks)]
  BY DEF SearchCluster
<1> DEFINE p == req[r]
           picks == ClusterPicks(p, like, heard)
           whole == p.whole /\ (Head(p.shares) = 0 \/ heard = Collections)
           phase == IF Len(p.waiting) > 1 THEN "clusters" ELSE Returned(p.answer \cup picks)
           q == [p EXCEPT !.answer = p.answer \cup picks, !.waiting = Tail(p.waiting),
                          !.shares = Tail(p.shares), !.whole = whole, !.strategy = "cluster",
                          !.phase = phase]
<1>2. req' = [req EXCEPT ![r] = q] /\ UNCHANGED history
  <2>1. UNCHANGED history
    BY DEF SearchCluster
  <2>2. req' = [req EXCEPT ![r] = q]
    BY <1>1
  <2> QED BY <2>1, <2>2
<1>3. IsRequest(p) /\ PageInv(p) /\ p.phase = "clusters" /\ p.mood = Unbound
      /\ p.answer \in SUBSET Tracks
  BY DEF PagesInv, IInv, RequestInv, Sound, SearchCluster
<1> HIDE DEF p, picks, whole, phase
<1>4. /\ q.answer = p.answer \cup picks /\ q.waiting = Tail(p.waiting)
      /\ q.shares = Tail(p.shares) /\ q.whole = whole /\ q.strategy = "cluster"
      /\ q.phase = phase /\ q.played = p.played /\ q.excluded = p.excluded
      /\ q.limit = p.limit /\ q.language = p.language /\ q.mood = p.mood
  BY <1>3 DEF IsRequest, Fields
<1> HIDE DEF q
<1>5. PageInv(q)
  BY <1>3, <1>4, ClusterPages DEF picks, whole, phase
<1> QED BY <1>2, <1>5, OtherPages

\* The page of a mood.
LEMMA MoodPages ==
  ASSUME NEW p, PageInv(p), p.phase = "mood", p.mood # Unbound,
         NEW like \in Likeness, NEW heard \in SUBSET Collections, NEW unread,
         NEW q, q.answer = MoodPicks(p, unread, like, heard),
         q.whole = (unread = {} /\ heard = Collections), q.phase = Returned(q.answer),
         q.strategy = "cluster", q.played = p.played, q.excluded = p.excluded,
         q.limit = p.limit, q.language = p.language, q.mood = p.mood
  PROVE  PageInv(q)
<1>1. /\ p.limit \in Nat \ {0} /\ p.played \in Seq(Tracks) /\ p.excluded \subseteq Tracks
      /\ ToSet(p.played) \in SUBSET Tracks
  BY PlayedAreTracks DEF PageInv
<1>2. Cardinality(q.answer) <= q.limit
  BY <1>1, MoodPicksAreFew
<1>3. q.phase = IF q.answer = {} THEN "popular" ELSE "answered"
  BY DEF Returned
<1>4. q.phase = "popular" /\ q.whole => LastResort(q)
  <2> SUFFICES ASSUME q.phase = "popular", q.whole PROVE LastResort(q)
    OBVIOUS
  <2> DEFINE cluster == IF Vectors(ToSet(p.played), {}) = {} THEN Unbound ELSE ClusterOf[p.mood]
  <2>1. MoodPicks(p, {}, like, Collections) = {}
    BY <1>3
  <2>2. Open(p, ToSet(p.played), cluster) = {}
    BY <1>1, <2>1, MoodPicksWhatIsOpen
  <2>3. Open(q, ToSet(p.played), cluster) = Open(p, ToSet(p.played), cluster)
    BY DEF Open
  <2> QED BY <2>2, <2>3 DEF LastResort
<1> QED BY <1>1, <1>2, <1>3, <1>4 DEF PageInv, Popular

LEMMA SearchMoodPages ==
  ASSUME PagesInv, IInv', NEW r \in Requests, SearchMood(r)
  PROVE  PagesInv'
<1>1. PICK unread \in SUBSET ToSet(req[r].played), like \in Likeness, heard \in SUBSET Collections :
        LET answer == MoodPicks(req[r], unread, like, heard)
        IN  req' = [req EXCEPT ![r].answer = answer, ![r].strategy = "cluster",
                               ![r].whole = unread = {} /\ heard = Collections,
                               ![r].phase = Returned(answer)]
  BY DEF SearchMood
<1> DEFINE p == req[r]
           answer == MoodPicks(p, unread, like, heard)
           whole == unread = {} /\ heard = Collections
           phase == Returned(answer)
           q == [p EXCEPT !.answer = answer, !.strategy = "cluster", !.whole = whole,
                          !.phase = phase]
<1>2. req' = [req EXCEPT ![r] = q] /\ UNCHANGED history
  <2>1. UNCHANGED history
    BY DEF SearchMood
  <2>2. req' = [req EXCEPT ![r] = q]
    BY <1>1
  <2> QED BY <2>1, <2>2
<1>3. IsRequest(p) /\ PageInv(p) /\ p.phase = "mood" /\ p.mood # Unbound
  BY DEF PagesInv, IInv, RequestInv, Sound, SearchMood
<1> HIDE DEF p, answer, whole, phase
<1>4. /\ q.answer = answer /\ q.whole = whole /\ q.strategy = "cluster"
      /\ q.phase = phase /\ q.played = p.played /\ q.excluded = p.excluded
      /\ q.limit = p.limit /\ q.language = p.language /\ q.mood = p.mood
  BY <1>3 DEF IsRequest, Fields
<1> HIDE DEF q
<1>5. PageInv(q)
  BY <1>3, <1>4, MoodPages DEF answer, whole, phase
<1> QED BY <1>2, <1>5, OtherPages

\* Whether popular songs are the last resort does not depend on what was picked.
LEMMA SameResort ==
  ASSUME NEW p, NEW q, q.played = p.played, q.excluded = p.excluded, q.limit = p.limit,
         q.language = p.language, q.mood = p.mood, LastResort(p)
  PROVE  LastResort(q)
<1> DEFINE clusters == SessionClusters(p.played, {})
<1>1. ASSUME q.mood = Unbound, NEW i \in DOMAIN clusters PROVE NothingLeft(q, clusters, i)
  <2>1. NothingLeft(p, clusters, i)
    BY <1>1 DEF LastResort
  <2> HIDE DEF clusters
  <2> QED BY <2>1, SameLeft
<1>2. \A out, c : Open(q, out, c) = Open(p, out, c)
  BY DEF Open
<1>3. CASE q.mood = Unbound
  BY <1>1, <1>3 DEF LastResort
<1>4. CASE q.mood # Unbound
  BY <1>2, <1>4 DEF LastResort
<1> QED BY <1>3, <1>4

LEMMA OfferPopularPages ==
  ASSUME PagesInv, IInv', NEW r \in Requests, OfferPopular(r)
  PROVE  PagesInv'
<1>1. PICK answer :
        /\ PopularSongs(req[r], answer)
        /\ req' = [req EXCEPT ![r].answer = answer, ![r].strategy = "popular",
                              ![r].phase = "answered"]
  BY DEF OfferPopular
<1> DEFINE p == req[r]
           q == [p EXCEPT !.answer = answer, !.strategy = "popular", !.phase = "answered"]
<1>2. req' = [req EXCEPT ![r] = q] /\ UNCHANGED history
  BY <1>1 DEF OfferPopular
<1>3. IsRequest(p) /\ PageInv(p) /\ p.phase = "popular" /\ PopularSongs(p, answer)
  BY <1>1 DEF PagesInv, IInv, RequestInv, OfferPopular
<1> HIDE DEF p
<1>4. /\ q.answer = answer /\ q.whole = p.whole /\ q.strategy = "popular"
      /\ q.phase = "answered" /\ q.played = p.played /\ q.excluded = p.excluded
      /\ q.limit = p.limit /\ q.language = p.language /\ q.mood = p.mood
  BY <1>3 DEF IsRequest, Fields
<1> HIDE DEF q
<1>5. q.language = Unbound /\ q.limit > 1 => Full(q)
  <2>1. p.limit \in Nat /\ AllExcluded(p) \in SUBSET Tracks
    BY <1>3, PlayedAreTracks DEF PageInv
  <2>2. AllExcluded(q) = AllExcluded(p)
    BY <1>4 DEF AllExcluded
  <2>3. p.language = Unbound /\ p.limit > 1 =>
          Cardinality(answer) = Lesser(p.limit, Cardinality(WellKnown \ AllExcluded(p)))
    BY <1>3, <2>1, PopularSongsFill
  <2> QED BY <1>4, <2>2, <2>3 DEF Full
<1>6. q.whole /\ q.played # <<>> => LastResort(q)
  <2>1. p.whole /\ p.played # <<>> => LastResort(p)
    BY <1>3 DEF PageInv, Popular
  <2> QED BY <1>4, <2>1, SameResort
<1>7. PageInv(q)
  BY <1>3, <1>4, <1>5, <1>6 DEF PageInv
<1> QED BY <1>2, <1>7, OtherPages

-----------------------------------------------------------------------------
(* The theorems *)

LEMMA InitInv == Init => IInv
<1>1. RequestInv(Idle)
  BY DEF RequestInv, Idle, Request, IsRequest, Fields, Sound, Clean, Choosing
<1> QED BY <1>1 DEF Init, IInv, RequestInv, IsRequest, Sound, Clean, Choosing, OnePerArtist

LEMMA NextInv == IInv /\ [Next]_vars => IInv'
<1> SUFFICES ASSUME IInv, [Next]_vars PROVE IInv'
  OBVIOUS
<1> USE DEF RequestInv, IsRequest, Sound, Clean, Choosing, OnePerArtist
<1>1. CASE UNCHANGED req
  BY <1>1 DEF IInv
<1>2. ASSUME NEW t \in Tracks, Play(t) \/ Choose(t) PROVE IInv'
  BY <1>2, <1>1 DEF Play, Choose
<1>3. CASE UNCHANGED vars
  BY <1>3, <1>1 DEF vars
<1> QED
  BY <1>2, <1>3, AskKeeps, LeaveKeeps, ReadHistoryKeeps, ServiceFailsKeeps,
     ShareAmongClustersKeeps, SearchClusterKeeps, SearchMoodKeeps, OfferPopularKeeps DEF Next

\* The invariant the others follow from: whatever requests are under way, none has picked
\* a song it was told to leave out, and the service's have one song of an artist.
THEOREM InductiveInvariant == Spec => []IInv
  BY InitInv, NextInv, PTL DEF Spec

\* No answer offers a song the session had sung when the history was read, or that the
\* page had dismissed when it asked: exclusions survive each search and the fallback.
THEOREM StaleSongsStayOut == Spec => []NothingStaleIsOffered
<1>1. IInv => NothingStaleIsOffered
  BY DEF IInv, NothingStaleIsOffered, Answered, RequestInv, Clean
<1> QED BY <1>1, InductiveInvariant, PTL

\* The service offers one song of an artist over all the clusters of a session, and none
\* of an artist sung before, however similar the songs are.
THEOREM ArtistsDoNotRepeat == Spec => []OneSongPerArtist
<1>1. IInv => OneSongPerArtist
  BY DEF IInv, OneSongPerArtist, ServiceAnswered, Answered, RequestInv, Choosing, OnePerArtist
<1> QED BY <1>1, InductiveInvariant, PTL

LEMMA PagesInit == Init => PagesInv
<1> SUFFICES ASSUME Init PROVE PagesInv
  OBVIOUS
<1>1. /\ Idle.phase = "idle" /\ Idle.limit = 0 /\ Idle.played = <<>>
      /\ Idle.excluded = {}
  BY DEF Idle, Request
<1>2. PageInv(Idle)
  BY <1>1 DEF PageInv, Popular
<1>3. \A r \in Requests : req[r] = Idle
  BY DEF Init
<1>4. \A r \in Requests : PageInv(req[r])
  BY <1>2, <1>3
<1>5. history \in Seq(Tracks)
  BY DEF Init
<1> QED BY <1>4, <1>5, InitInv DEF PagesInv

LEMMA PagesNext == PagesInv /\ [Next]_vars => PagesInv'
<1> SUFFICES ASSUME PagesInv, [Next]_vars PROVE PagesInv'
  OBVIOUS
<1>1. IInv'
  BY NextInv DEF PagesInv
<1>2. ASSUME UNCHANGED req, history' \in Seq(Tracks) PROVE PagesInv'
  <2>1. \A r \in Requests : PageInv(req'[r])
    BY <1>2 DEF PagesInv
  <2> QED BY <1>1, <1>2, <2>1 DEF PagesInv
<1>3. ASSUME NEW t \in Tracks, Play(t) \/ Choose(t) PROVE PagesInv'
  <2>1. UNCHANGED req
    BY <1>3 DEF Play, Choose
  <2>2. history' \in Seq(Tracks)
    BY <1>3 DEF PagesInv, Play, Choose
  <2> QED BY <1>2, <2>1, <2>2
<1>4. CASE UNCHANGED vars
  BY <1>2, <1>4 DEF vars, PagesInv
<1>5. ASSUME NEW r \in Requests, NEW m, NEW l, NEW n \in Limits, Ask(r, m, l, n) PROVE PagesInv'
  BY <1>1, <1>5, AskPages
<1>6. ASSUME NEW r \in Requests,
             \/ ReadHistory(r) \/ ServiceFails(r) \/ ShareAmongClusters(r) \/ SearchCluster(r)
             \/ SearchMood(r) \/ OfferPopular(r) \/ Arrive(r) \/ Fail(r)
      PROVE  PagesInv'
  BY <1>1, <1>6, ReadHistoryPages, ServiceFailsPages, ShareAmongClustersPages, SearchClusterPages,
     SearchMoodPages, OfferPopularPages, LeavePages
<1> QED BY <1>3, <1>4, <1>5, <1>6 DEF Next

\* The invariant of the pages: while clusters are searched, those before have taken no more
\* than their shares; a page of popular songs is full, and is the last resort.
THEOREM PagesInductive == Spec => []PagesInv
  BY PagesInit, PagesNext, PTL DEF Spec

\* However the page is shared among however many clusters, what they offer together fits on
\* it: the final cut of the service never takes a song away.
THEOREM SharesFit == Spec => []SharesFitThePage
<1>1. PagesInv => SharesFitThePage
  BY DEF PagesInv, PageInv, SharesFitThePage, ServiceAnswered, Answered
<1> QED BY <1>1, PagesInductive, PTL

\* However much was sung or dismissed, enough rows are read for popular songs to fill a page
\* of two or more as far as there are any.
THEOREM PopularFills == Spec => []PopularFillsThePage
<1>1. PagesInv => PopularFillsThePage
  BY DEF PagesInv, PageInv, PopularFillsThePage, Answered, Full
<1> QED BY <1>1, PagesInductive, PTL

\* When nothing failed, popular songs are offered after what was sung only if no search
\* could find anything: exclusions, scores and artists never hide the last song that is left.
THEOREM PopularComesLast == Spec => []PopularIsTheLastResort
<1>1. PagesInv => PopularIsTheLastResort
  BY DEF PagesInv, PageInv, PopularIsTheLastResort, Answered, Popular
<1> QED BY <1>1, PagesInductive, PTL
=============================================================================
