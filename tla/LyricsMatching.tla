---------------------------- MODULE LyricsMatching ----------------------------
(***************************************************************************)
(* Which of several lyrics is the one that was sung?  Every text found is   *)
(* written out in full, compared with the words the transcriber heard, and  *)
(* given a score.  Rates are permille, rounded down where the code has      *)
(* floating point; scores, which weigh rates by percent, are hundredths of  *)
(* a permille.                                                              *)
(*                                                                         *)
(* A raw text is a sequence of sections [label, times, lines]; a section    *)
(* without lines refers to an earlier one of its label.  A line is          *)
(* [words, times].  A text written out is a sequence of words.              *)
(***************************************************************************)
EXTENDS Integers, Sequences, FiniteSets, FiniteSetsExt, SequencesExt

CONSTANTS Instruction,  \* the word that stands for "repeat chorus" and the like
          Lemma,        \* words to their normal form
          Skeleton,     \* words to their consonants
          Alike,        \* pairs {w, v} of words with the same sound or nearly so
          Similar,      \* pairs that are further apart, but still similar
          GramSize,     \* length of the phrases compared by skeleton (4)
          AnchorSize,   \* length of the phrases compared by lemma (5)
          Log,          \* permille of the natural logarithm of a length
          Strong, Weak, \* thresholds of the score (65000, 45000)
          Margin        \* how far the winner must be ahead (5000)

ASSUME ScoreAssumption ==
  /\ GramSize \in Nat \ {0} /\ AnchorSize \in Nat \ {0}
  /\ Margin \in Nat /\ Weak \in 1..Strong
  /\ Strong \in 1..(70 * 1000)  \* what the words alone of an exact text score

NoLyrics == <<>>

-----------------------------------------------------------------------------
(* Texts written out *)

Repeated(s, n) == FlattenSeq([k \in 1..n |-> s])

\* The section that says what section j of a text repeats: itself, or the last
\* one before it with its label.
Told(text, j) ==
  {k \in 1..j : /\ text[k].lines # <<>>
                /\ k = j \/ (text[j].lines = <<>> /\ text[j].label # "" /\ text[k].label = text[j].label)}

Block(text, j) ==
  IF Told(text, j) = {} THEN <<>>
  ELSE LET lines == text[Max(Told(text, j))].lines
       IN FlattenSeq([n \in DOMAIN lines |-> Repeated(lines[n].words, lines[n].times)])

\* The algorithmic pass.
Rendered(text) == FlattenSeq([j \in DOMAIN text |-> Repeated(Block(text, j), text[j].times)])

NeedsRewriting(text) == Instruction \in ToSet(Rendered(text))

-----------------------------------------------------------------------------
(* The score of words against the words that were heard *)

Kin(w, v) == Lemma[w] = Lemma[v] \/ Skeleton[w] = Skeleton[v] \/ {w, v} \in Alike

MatchScore(w, words) ==
  IF w \in words THEN 3
  ELSE IF \E v \in words : Kin(w, v) THEN 2
  ELSE IF \E v \in words : {w, v} \in Similar THEN 1 ELSE 0

\* Number of words that score at least so much.
Hits(words, others, least) ==
  Cardinality({i \in DOMAIN words : MatchScore(words[i], ToSet(others)) >= least})

Coverage(words, others) == (1000 * Hits(words, others, 2)) \div Len(words)

MatchRate(words, others) ==
  (1000 * (Hits(words, others, 1) + Hits(words, others, 2) + Hits(words, others, 3)))
    \div (3 * Len(words))

HarmonicMean(a, b) == IF a + b = 0 THEN 0 ELSE (2 * a * b) \div (a + b)

Grams(keys, n) == {SubSeq(keys, i, i + n - 1) : i \in 1..(Len(keys) - n + 1)}

SoundGrams(words) == Grams([i \in DOMAIN words |-> Skeleton[words[i]]], GramSize)
LemmaGrams(words) == Grams([i \in DOMAIN words |-> Lemma[words[i]]], AnchorSize)

Jaccard(S, T) == IF S = {} \/ T = {} THEN 0
                 ELSE (1000 * Cardinality(S \cap T)) \div Cardinality(S \cup T)

\* How densely each text is set with phrases that were heard and are rare among the
\* texts, as pairs of a text and its share of the highest density.
RareAnchors(asr, texts) ==
  LET held == UNION {{<<i, g>> : g \in LemmaGrams(texts[i])} : i \in DOMAIN texts}
      of(i) == {p \in held : p[1] = i}
      weight == [p \in held |-> 1000 \div Cardinality({q \in held : q[2] = p[2]})]
      density(i) == MapThenSumSet(LAMBDA p : weight[p], {p \in of(i) : p[2] \in LemmaGrams(asr)})
                      \div Max({Cardinality(of(i)), 1})
      dense == {<<i, density(i)>> : i \in DOMAIN texts}
      most == Max({p[2] : p \in dense} \cup {1})
  IN {<<p[1], (1000 * p[2]) \div most>> : p \in dense}

ShareOf(anchors, i) == (CHOOSE p \in anchors : p[1] = i)[2]

LengthPenalty(asr, words) == Min({1000, Max({Log[Len(words)] - Log[Len(asr)], Log[Len(asr)] - Log[Len(words)]})})

\* How well the names of a candidate fit the hints about the file: the mean over
\* the sides there are hints for.
HintScore(c, artists, titles) ==
  LET fits(side, names) == IF side \in names THEN 1000 ELSE 0
      sides == (IF artists = {} THEN 0 ELSE 1) + (IF titles = {} THEN 0 ELSE 1)
  IN IF sides = 0 THEN 0 ELSE (fits(c.artist, artists) + fits(c.title, titles)) \div sides

FullScore == 100 * 1000

\* Mutant: a text need only hold what was heard.
CompositeOneSided(asr, words, anchor, hint) ==
  IF asr = <<>> \/ words = <<>> THEN 0
  ELSE Min({FullScore, 70 * Coverage(asr, words) + 30 * MatchRate(asr, words) + 30 * hint})

Composite(asr, words, anchor, hint) ==
  IF asr = <<>> \/ words = <<>> THEN 0
  ELSE LET score == 55 * HarmonicMean(Coverage(asr, words), Coverage(words, asr))
                    + 15 * MatchRate(asr, words)
                    + 10 * Jaccard(SoundGrams(asr), SoundGrams(words))
                    + 20 * anchor
                    + 30 * hint
                    - 10 * LengthPenalty(asr, words)
       IN Max({0, Min({FullScore, score})})

ScoreAll(asr, texts, hints) ==
  LET anchors == RareAnchors(asr, texts)
  IN [i \in DOMAIN texts |-> Composite(asr, texts[i], ShareOf(anchors, i), hints[i])]

-----------------------------------------------------------------------------
(* The ranking: by score, and by place in the pool when scores are equal *)

Before(scores, i, j) == scores[i] > scores[j] \/ (scores[i] = scores[j] /\ i < j)

First(scores) == CHOOSE i \in DOMAIN scores : \A j \in DOMAIN scores \ {i} : Before(scores, i, j)

\* The runner-up, 0 when there is none.
Second(scores) ==
  IF Len(scores) < 2 THEN 0
  ELSE CHOOSE i \in DOMAIN scores \ {First(scores)} :
         \A j \in DOMAIN scores \ {i, First(scores)} : Before(scores, i, j)

\* Mutant: the best is compared with itself.
LeadOverItself(scores) == scores[First(scores)] - scores[First(scores)]

Lead(scores) == scores[First(scores)] - IF Len(scores) < 2 THEN 0 ELSE scores[Second(scores)]
=============================================================================
