---------------------------- MODULE MCPlayQueue ----------------------------
(* Small instances of PlayQueue for TLC. *)
EXTENDS PlayQueue, TLC

CONSTANTS e1, e2, e3, r1, r2, ann, bob, hit, noEntry, noSong

ThreeEntries == {e1, e2, e3}
TwoEntries   == {e1, e2}
TwoRequests  == {r1, r2}
OneRequest   == {r1}
TwoSingers   == {ann, bob}
OneSinger    == {ann}
OneTrack     == {hit}

\* Slots, ids and singers are interchangeable: no definition names one.
Symmetry == Permutations(Requests) \cup Permutations(Entries) \cup Permutations(Singers)
=============================================================================
