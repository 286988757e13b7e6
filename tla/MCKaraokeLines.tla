--------------------------- MODULE MCKaraokeLines ---------------------------
(* A small instance of KaraokeLines for TLC. *)
EXTENDS KaraokeLines, TLC

CONSTANT N   \* frames of a recording

\* Silent, soft and loud stretches, at most three of them.
Stretches(a, b, c, i, j) == [k \in 0..(N - 1) |-> IF k < i THEN a ELSE IF k < j THEN b ELSE c]
Levels == {0, 3, 20}
ThreeStretches == {Stretches(a, b, c, i, j) : a, b, c \in Levels, i \in 1..(N - 1), j \in 2..N}

\* A line of two phonemes before one of four, whose gaps give the median; and three
\* words on one line.
AWord(n, first, parts) == [phones |-> n, first |-> first, parts |-> parts]
TwoLines == <<AWord(2, TRUE, <<1, 1>>), AWord(4, TRUE, <<2, 1>>)>>
OneLine  == <<AWord(1, TRUE, <<2, 3, 1>>), AWord(1, FALSE, <<3>>), AWord(1, FALSE, <<1>>)>>
Songs == {TwoLines, OneLine}

\* The phonemes of two lines with one or two pauses among them, the first of seven
\* frames at most; those of one line with longer ones.
Paused(a, p, b, q) ==
  LET at == [j \in 1..6 |-> j - 1 + (IF j > a THEN p ELSE 0) + (IF j > b THEN q ELSE 0)]
  IN <<SubSeq(at, 1, 2), SubSeq(at, 3, 6)>>
Alignments == {Paused(a, p, b, q) : a \in {1, 2, 4}, b \in {2, 5}, p \in {0, 4, 7}, q \in {0, 1, 3}}
              \cup {<< <<0>>, <<j>>, <<k>> >> : j \in {1, 5}, k \in {6, 11}}

OneFrame == {1}
Rhythms == {<<0, 40>>, [b \in 1..9 |-> 15 * (b - 1)]}
Times == {20 * k : k \in 0..(N + 1)} \cup {130, 170}
=============================================================================
