--------------------------- MODULE MCRecommendations ---------------------------
(* A small catalog for Recommendations. *)
EXTENDS Recommendations, TLC

CONSTANTS hit1, song1, duet1, hit2, cover2, upload2, r1, c1, c2, none, unbound, dance

Song(artist, cluster, language, hit, known, plays, points) ==
  [artist |-> artist, cluster |-> cluster, language |-> language, hit |-> hit,
   known |-> known, plays |-> plays, points |-> points]

\* Two songs of one artist in a cluster, an artist in both of them; an upload
\* that is indexed for its lyrics only.
SmallCatalog ==
  hit1    :> Song("A", c1, "ru", TRUE,  TRUE,  5, Collections)
  @@ song1   :> Song("A", c1, "en", FALSE, FALSE, 0, Collections)
  @@ duet1   :> Song("B", c1, "ru", FALSE, TRUE,  5, Collections)
  @@ hit2    :> Song("D", c2, "en", TRUE,  TRUE,  9, Collections)
  @@ cover2  :> Song("B", c2, "ru", FALSE, FALSE, 0, Collections)
  @@ upload2 :> Song("", c2, "ru", FALSE, FALSE, 0, {"lyrics"})

AllTracks == {hit1, song1, duet1, hit2, cover2, upload2}
TwoClusters == {c1, c2}
OneMood == {dance}
DanceCluster == dance :> c1
Russian == {"ru"}
OneRequest == {r1}

As(audio, lyrics) == [audio |-> audio, lyrics |-> lyrics]
Likenesses ==
  {hit1 :> As(9, 5) @@ song1 :> As(8, 9) @@ duet1 :> As(4, 8)
     @@ hit2 :> As(7, 7) @@ cover2 :> As(6, 1) @@ upload2 :> As(0, 9),
   hit1 :> As(5, 2) @@ song1 :> As(9, 3) @@ duet1 :> As(9, 3)
     @@ hit2 :> As(2, 6) @@ cover2 :> As(2, 6) @@ upload2 :> As(0, 3)}
Ties == hit1 :> 1 @@ song1 :> 2 @@ duet1 :> 3 @@ hit2 :> 5 @@ upload2 :> 6 @@ cover2 :> 7
=============================================================================
