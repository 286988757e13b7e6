-------------------------- MODULE KaraokeLinesProofs --------------------------
(***************************************************************************)
(* For every recording, all lyrics and whatever frames the aligner         *)
(* chooses: the corrections of a word stay between its neighbours (IInv),  *)
(* so words and syllables follow one another (WordsInv, SyllablesInv);     *)
(* from that alone, the player shows the line that is sung and scrolls     *)
(* forward (PlayInv), and lines begin with words and have a bounded length *)
(* (WholeInv).                                                             *)
(***************************************************************************)
EXTENDS KaraokeLines, OrderLemmas

Span == [start : Nat, end : Nat]

\* Phonemes are in order and take time.
InShape(s) ==
  /\ s \in Seq(Seq(Span) \ {<<>>})
  /\ \A i \in DOMAIN s :
       /\ s[i][Len(s[i])].start < s[i][Len(s[i])].end
       /\ Len(s[i]) > 1 => s[i][Len(s[i]) - 1].end <= s[i][Len(s[i])].start
SpansOK == InShape(spans)

\* No phoneme begins before an earlier one is over, in its word or another.
Ordered(s) ==
  /\ \A i \in DOMAIN s : \A m \in DOMAIN s[i] : s[i][m].start < s[i][m].end
  /\ \A i, k \in DOMAIN s : \A m \in DOMAIN s[i], n \in DOMAIN s[k] :
       i < k \/ (i = k /\ m < n) => s[i][m].end <= s[k][n].start

\* What was corrected is corrected once, after the alignment.
IInv ==
  /\ IsFiniteSet(DOMAIN sound)
  /\ step \in {"trim", "align"} => /\ DOMAIN sound = 0..(Length - 1)
                                   /\ starts = <<>> /\ ends = <<>>
  /\ SpansOK
  /\ Inside

-----------------------------------------------------------------------------
(* The three corrections *)

LEMMA LengthType == IsFiniteSet(DOMAIN sound) => Length \in Nat
  BY FS_CardinalityType DEF Length

LEMMA SpanFacts ==
  ASSUME NEW s \in Seq(Span), NEW n \in 1..Len(s)
  PROVE  s[n].start \in Nat /\ s[n].end \in Nat
<1>1. s[n] \in Span
  OBVIOUS
<1> QED BY <1>1 DEF Span

LEMMA WordFacts ==
  ASSUME SpansOK, Length \in Nat, NEW i \in DOMAIN spans
  PROVE  /\ Opening(i).start \in Nat /\ Closing(i).start \in Nat /\ Closing(i).end \in Nat
         /\ Reach(i) \in Int
         /\ Len(spans[i]) > 1 => Second(i).start \in Nat /\ Penult(i).end \in Nat
         /\ Closing(i).start < Closing(i).end
         /\ Len(spans[i]) > 1 => Penult(i).end <= Closing(i).start
<1>1. spans[i] \in Seq(Span) /\ Len(spans[i]) \in Nat \ {0} /\ spans \in Seq(Seq(Span) \ {<<>>})
  BY DEF SpansOK, InShape
<1>2. \A n \in 1..Len(spans[i]) : spans[i][n].start \in Nat /\ spans[i][n].end \in Nat
  BY <1>1, SpanFacts
<1>3. Reach(i) \in Int
  <2>1. CASE i < Len(spans)
    <3>1. i + 1 \in 1..Len(spans)
      BY <1>1, <2>1
    <3>2. spans[i + 1] \in Seq(Span) \ {<<>>}
      BY <1>1, <3>1
    <3>3. spans[i + 1][1].start \in Nat
      BY <3>2, SpanFacts
    <3> QED BY <2>1, <3>3 DEF Reach
  <2>2. CASE ~(i < Len(spans))
    BY <2>2 DEF Reach
  <2> QED BY <2>1, <2>2
<1>4. /\ Opening(i).start \in Nat /\ Closing(i).start \in Nat /\ Closing(i).end \in Nat
      /\ Len(spans[i]) > 1 => Second(i).start \in Nat /\ Penult(i).end \in Nat
  BY <1>1, <1>2 DEF Opening, Closing, Second, Penult
<1> QED BY <1>3, <1>4 DEF SpansOK, InShape, Closing, Penult

\* A corrected beginning is after the first phoneme's, and not after the second's.
LEMMA NewStartInside ==
  ASSUME SpansOK, Length \in Nat, NEW i \in DOMAIN spans, NEW f \in NewStart(i)
  PROVE  f \in (Opening(i).start + 2)..Second(i).start
<1> DEFINE found(unit, peak) ==
             {g \in Opening(i).start..Second(i).start :
                IF 2 * Gap(i, 1) >= 7 * unit THEN AttackBeforeSecond(i, g, unit, peak)
                                             ELSE AttackAfterSilence(i, g, unit, peak)}
<1>1. Len(spans[i]) >= 2
  BY DEF NewStart
<1>2. f > Opening(i).start + 1 /\ (f = Second(i).start \/ f \in Opening(i).start..Second(i).start)
  BY DEF NewStart
<1>3. Opening(i).start \in Nat /\ Second(i).start \in Nat
  <2>1. Len(spans[i]) \in Nat
    BY DEF SpansOK, InShape
  <2> QED BY <1>1, <2>1, WordFacts
<1> QED BY <1>2, <1>3

\* A corrected end is behind the last phoneme but one, and not after the next word.
LEMMA TrimmedEndInside ==
  ASSUME SpansOK, Length \in Nat, NEW i \in DOMAIN spans, NEW f \in TrimmedEnd(i)
  PROVE  /\ f <= Greater(Closing(i).end, Reach(i))
         /\ Len(spans[i]) > 1 => f > Penult(i).end
<1>1. Len(spans[i]) >= 2 /\ f \in (Penult(i).end + 2)..(Closing(i).end - 2)
  BY DEF TrimmedEnd
<1>2. Len(spans[i]) \in Nat
  BY DEF SpansOK, InShape
<1>3. Closing(i).end \in Nat /\ Reach(i) \in Int /\ Penult(i).end \in Nat
  BY <1>1, <1>2, WordFacts
<1> QED BY <1>1, <1>3 DEF Greater

LEMMA ExtendedEndInside ==
  ASSUME SpansOK, Length \in Nat, NEW i \in DOMAIN spans, NEW f \in ExtendedEnd(i)
  PROVE  /\ f <= Greater(Closing(i).end, Reach(i))
         /\ Len(spans[i]) > 1 => f > Penult(i).end
<1>1. f \in (Closing(i).end + 2)..Reach(i)
  BY DEF ExtendedEnd
<1>2. /\ Closing(i).start \in Nat /\ Closing(i).end \in Nat /\ Reach(i) \in Int
      /\ Closing(i).start < Closing(i).end
      /\ Len(spans[i]) > 1 => Penult(i).end \in Nat /\ Penult(i).end <= Closing(i).start
  BY WordFacts
<1> QED BY <1>1, <1>2 DEF Greater

-----------------------------------------------------------------------------
(* The steps *)

LEMMA InitInv == InitLines => IInv
<1> SUFFICES ASSUME InitLines PROVE IInv
  OBVIOUS
<1>1. sound \in Sounds /\ spans = <<>> /\ starts = <<>> /\ ends = <<>>
  BY DEF InitLines, Init
<1>2. IsFiniteSet(DOMAIN sound) /\ DOMAIN sound = 0..(Length - 1)
  BY <1>1, SoundsAssumption DEF Length
<1>3. SpansOK /\ Inside
  BY <1>1 DEF SpansOK, InShape, Inside
<1> QED BY <1>1, <1>2, <1>3 DEF IInv

\* What is cut off lies inside the recording.
LEMMA RefinedBack ==
  ASSUME NEW d \in Nat, NEW k \in Refined(d)
  PROVE  k \in 0..d
  BY DEF Refined

LEMMA TrimKeeps ==
  ASSUME IInv, Trim
  PROVE  IInv'
<1>1. /\ step = "trim" /\ step' = "align" /\ UNCHANGED <<spans, starts, ends>>
      /\ sound' = [k \in 0..(Length - offset' - 1) |-> sound[k + offset']]
  BY DEF Trim
<1>2. Length \in Nat
  BY LengthType DEF IInv
<1>3. offset' \in Int
  <2>1. offset' \in {0} \cup UNION {Refined(d) : d \in {k \in DOMAIN sound : sound[k] > 0}}
    BY DEF Trim
  <2>2. \A d \in DOMAIN sound : d \in Nat
    BY <1>1, <1>2 DEF IInv
  <2> QED BY <2>1, <2>2, RefinedBack
<1>4. IsFiniteSet(DOMAIN sound') /\ DOMAIN sound' = 0..(Length' - 1)
  <2> DEFINE last == Length - offset' - 1
  <2>1. DOMAIN sound' = 0..last /\ last \in Int
    BY <1>1, <1>2, <1>3
  <2>2. IsFiniteSet(0..last) /\ Cardinality(0..last) = IF 0 > last THEN 0 ELSE last - 0 + 1
    BY <2>1, FS_Interval
  <2>3. Length' = IF 0 > last THEN 0 ELSE last + 1
    <3>1. Length' = Cardinality(DOMAIN sound')
      BY DEF Length
    <3> HIDE DEF last
    <3> QED BY <2>1, <2>2, <3>1
  <2> HIDE DEF last
  <2>4. 0..last = 0..(Length' - 1)
    BY <2>1, <2>3
  <2> QED BY <2>1, <2>2, <2>4
<1>5. starts = <<>> /\ ends = <<>>
  BY <1>1 DEF IInv
<1>6. SpansOK'
  BY <1>1 DEF IInv, SpansOK
<1>7. Inside'
  BY <1>1, <1>5 DEF Inside
<1> QED BY <1>1, <1>4, <1>5, <1>6, <1>7 DEF IInv

LEMMA FunctionIsSeq ==
  ASSUME NEW X, NEW n \in Nat, NEW f \in [1..n -> X]
  PROVE  f \in Seq(X) /\ Len(f) = n
  OBVIOUS

LEMMA LesserOfTwo ==
  ASSUME NEW a \in Nat, NEW b \in Nat
  PROVE  Lesser(a, b) <= b
  BY DEF Lesser

\* The frames of a layout come one after another, from word to word too.
LEMMA LayoutGrows ==
  ASSUME NEW at \in Layouts, NEW i \in DOMAIN at, NEW k \in DOMAIN at,
         NEW m \in DOMAIN at[i], NEW n \in DOMAIN at[k], i < k \/ (i = k /\ m < n)
  PROVE  Follows(at, i, m) <= at[k][n]
<1> DEFINE n0 == Len(at)
           l == [j \in 1..Len(at) |-> Len(at[j])]
<1>1. /\ at \in Seq(Seq(Nat) \ {<<>>})
      /\ \A j \in DOMAIN at : \A q \in 1..(Len(at[j]) - 1) : at[j][q] < at[j][q + 1]
      /\ \A j \in 1..(Len(at) - 1) : at[j][Len(at[j])] < at[j + 1][1]
  BY LayoutsAssumption
<1>2. DOMAIN at = 1..n0 /\ n0 \in Nat /\ \A j \in 1..n0 : at[j] \in Seq(Nat) \ {<<>>}
  BY <1>1, SMTT(20)
<1>3. \A j \in 1..n0 : l[j] = Len(at[j])
  OBVIOUS
<1> HIDE DEF n0, l
<1>4. ASSUME NEW s \in Seq(Nat) \ {<<>>}
      PROVE  Len(s) \in Nat \ {0} /\ DOMAIN s = 1..Len(s) /\ \A q \in 1..Len(s) : s[q] \in Int
  OBVIOUS
<1>5. ASSUME NEW j \in 1..n0
      PROVE  /\ l[j] \in Nat \ {0} /\ DOMAIN at[j] = 1..l[j]
             /\ \A q \in 1..l[j] : at[j][q] \in Int
  <2>1. at[j] \in Seq(Nat) \ {<<>>} /\ l[j] = Len(at[j])
    BY <1>2, <1>3
  <2> QED BY <1>4, <2>1, Zenon
<1>6. /\ \A j \in 1..n0 : \A q \in 1..(l[j] - 1) : at[j][q] < at[j][q + 1]
      /\ \A j \in 1..(n0 - 1) : at[j][l[j]] < at[j + 1][1]
  <2>1. \A j \in 1..(n0 - 1) : j \in 1..n0
    BY <1>2
  <2> QED BY <1>1, <1>2, <1>3, <2>1, Zenon DEF n0
<1>7. i \in 1..n0 /\ k \in 1..n0 /\ m \in 1..l[i] /\ n \in 1..l[k]
  BY <1>2, <1>5
<1>8. \A j, h \in 1..n0 : \A q \in 1..l[j], r \in 1..l[h] :
        j < h \/ (j = h /\ q < r) => at[j][q] < at[h][r]
  BY <1>2, <1>5, <1>6, RowsGrow
<1>9. Follows(at, i, m) = IF m < l[i] THEN at[i][m + 1]
                          ELSE IF i < n0 THEN at[i + 1][1] ELSE Length
  BY <1>3, <1>7, Zenon DEF Follows, n0
<1>10. l[i] \in Nat \ {0} /\ l[k] \in Nat \ {0} /\ at[k][n] \in Int
  BY <1>5, <1>7
<1>11. CASE m < l[i]
  <2>1. m + 1 \in 1..l[i] /\ (i < k \/ (i = k /\ (m + 1 < n \/ m + 1 = n)))
    BY <1>7, <1>10, <1>11
  <2>2. at[i][m + 1] \in Int
    BY <1>5, <1>7, <2>1
  <2>3. at[i][m + 1] < at[k][n] \/ at[i][m + 1] = at[k][n]
    BY <1>7, <1>8, <2>1
  <2> QED BY <1>9, <1>10, <1>11, <2>2, <2>3
<1>12. CASE ~(m < l[i])
  <2>1. i + 1 \in 1..n0 /\ i < n0 /\ (i + 1 < k \/ (i + 1 = k /\ (1 < n \/ 1 = n)))
    <3>1. i # k
      BY <1>7, <1>10, <1>12
    <3>2. i < k
      BY <3>1
    <3>3. n \in Nat \ {0}
      BY <1>7, <1>10
    <3>4. i \in 1..n0 /\ k \in 1..n0 /\ n0 \in Nat
      BY <1>2, <1>7
    <3> QED BY <3>2, <3>3, <3>4
  <2>2. at[i + 1][1] \in Int /\ 1 \in 1..l[i + 1]
    BY <1>5, <2>1
  <2>3. at[i + 1][1] < at[k][n] \/ at[i + 1][1] = at[k][n]
    BY <1>7, <1>8, <2>1, <2>2
  <2> QED BY <1>9, <1>10, <1>12, <2>1, <2>2, <2>3
<1> QED BY <1>11, <1>12

\* The frames of a layout make phonemes that are in order.
LEMMA UnflattenSpans ==
  ASSUME NEW at \in Layouts, NEW width \in Widths, NEW s, Length \in Nat,
         \A i \in DOMAIN at : ToSet(at[i]) \subseteq 0..(Length - 1),
         s = Unflatten(at, width)
  PROVE  InShape(s) /\ Ordered(s)
<1>1. /\ at \in Seq(Seq(Nat) \ {<<>>})
      /\ \A i \in DOMAIN at : \A m \in 1..(Len(at[i]) - 1) : at[i][m] < at[i][m + 1]
      /\ \A i \in 1..(Len(at) - 1) : at[i][Len(at[i])] < at[i + 1][1]
  BY LayoutsAssumption
<1>2. width \in Nat \ {0}
  BY BoundsAssumption
<1>3. DOMAIN at = 1..Len(at) /\ Len(at) \in Nat
  BY <1>1
<1>4. ASSUME NEW i \in DOMAIN at
      PROVE  at[i] \in Seq(Nat) /\ Len(at[i]) \in Nat \ {0} /\ DOMAIN at[i] = 1..Len(at[i])
  BY <1>1, <1>3
<1>5. ASSUME NEW i \in DOMAIN at, NEW m \in DOMAIN at[i]
      PROVE  at[i][m] \in Nat /\ Follows(at, i, m) \in Nat /\ at[i][m] < Follows(at, i, m)
  <2>1. at[i] \in Seq(Nat) /\ Len(at[i]) \in Nat \ {0} /\ m \in 1..Len(at[i])
    BY <1>4
  <2>2. at[i][m] \in Nat /\ at[i][m] \in ToSet(at[i])
    BY <2>1 DEF ToSet
  <2>3. CASE m < Len(at[i])
    <3>1. m \in 1..(Len(at[i]) - 1) /\ m + 1 \in 1..Len(at[i])
      BY <2>1, <2>3
    <3>2. at[i][m + 1] \in Nat
      BY <2>1, <3>1
    <3>3. \A k \in 1..(Len(at[i]) - 1) : at[i][k] < at[i][k + 1]
      BY <1>1
    <3>4. at[i][m] < at[i][m + 1]
      BY <3>1, <3>3
    <3> QED BY <2>2, <2>3, <3>2, <3>4 DEF Follows
  <2>4. CASE m = Len(at[i]) /\ i < Len(at)
    <3>1. i \in 1..(Len(at) - 1) /\ i + 1 \in DOMAIN at
      BY <1>3, <2>4
    <3>2. at[i + 1][1] \in Nat
      BY <1>4, <3>1
    <3>3. at[i][m] < at[i + 1][1]
      BY <1>1, <2>4, <3>1
    <3> QED BY <2>1, <2>2, <2>4, <3>2, <3>3 DEF Follows
  <2>5. CASE m = Len(at[i]) /\ ~(i < Len(at))
    <3>1. at[i][m] < Length
      BY <2>2
    <3> QED BY <2>1, <2>2, <2>5, <3>1 DEF Follows
  <2> QED BY <2>1, <2>3, <2>4, <2>5
<1>6. /\ DOMAIN s = DOMAIN at
      /\ \A i \in DOMAIN at :
           s[i] = [m \in DOMAIN at[i] |->
                         [start |-> at[i][m], end |-> Lesser(at[i][m] + width, Follows(at, i, m))]]
  BY DEF Unflatten
<1>7. ASSUME NEW i \in DOMAIN at
      PROVE  /\ s[i] \in Seq(Span) \ {<<>>} /\ Len(s[i]) = Len(at[i])
             /\ \A m \in DOMAIN at[i] : /\ s[i][m].start = at[i][m]
                                        /\ s[i][m].end = Lesser(at[i][m] + width, Follows(at, i, m))
  <2>1. \A m \in DOMAIN at[i] : Lesser(at[i][m] + width, Follows(at, i, m)) \in Nat
    BY <1>2, <1>5 DEF Lesser
  <2>2. \A m \in DOMAIN at[i] :
          [start |-> at[i][m], end |-> Lesser(at[i][m] + width, Follows(at, i, m))] \in Span
    BY <1>5, <2>1 DEF Span
  <2>3. s[i] \in [1..Len(at[i]) -> Span]
    BY <1>4, <1>6, <2>2
  <2>4. s[i] \in Seq(Span) /\ Len(s[i]) = Len(at[i])
    BY <1>4, <2>3, FunctionIsSeq
  <2>5. Len(s[i]) # 0
    BY <1>4, <2>4
  <2>6. \A m \in DOMAIN at[i] :
          s[i][m] = [start |-> at[i][m], end |-> Lesser(at[i][m] + width, Follows(at, i, m))]
    BY <1>6
  <2>7. ASSUME NEW m \in DOMAIN at[i]
        PROVE  /\ s[i][m].start = at[i][m]
               /\ s[i][m].end = Lesser(at[i][m] + width, Follows(at, i, m))
    <3>1. s[i][m] = [start |-> at[i][m], end |-> Lesser(at[i][m] + width, Follows(at, i, m))]
      BY <2>6
    <3> QED BY <3>1
  <2>8. s[i] \in Seq(Span) \ {<<>>}
    BY <2>4, <2>5
  <2> QED BY <2>4, <2>7, <2>8, Zenon
<1>8. s \in Seq(Seq(Span) \ {<<>>})
  <2>1. s = [i \in 1..Len(at) |-> s[i]]
    BY <1>3, <1>6 DEF Unflatten
  <2>2. \A i \in 1..Len(at) : s[i] \in Seq(Span) \ {<<>>}
    BY <1>3, <1>7
  <2>3. s \in [1..Len(at) -> Seq(Span) \ {<<>>}]
    BY <2>1, <2>2
  <2> QED BY <1>3, <2>3, FunctionIsSeq
<1>9. ASSUME NEW i \in DOMAIN s
      PROVE  /\ s[i][Len(s[i])].start < s[i][Len(s[i])].end
             /\ Len(s[i]) > 1 => s[i][Len(s[i]) - 1].end <= s[i][Len(s[i])].start
  <2>1. i \in DOMAIN at
    BY <1>6
  <2> DEFINE n == Len(at[i])
  <2>2. n \in DOMAIN at[i] /\ n \in Nat \ {0}
    BY <1>4, <2>1
  <2>3. s[i][Len(s[i])].start = at[i][n] /\ s[i][Len(s[i])].end = Lesser(at[i][n] + width, Follows(at, i, n))
    BY <1>7, <2>1, <2>2
  <2>4. s[i][Len(s[i])].start < s[i][Len(s[i])].end
    BY <1>2, <1>5, <2>1, <2>2, <2>3 DEF Lesser
  <2>5. ASSUME n > 1 PROVE s[i][Len(s[i]) - 1].end <= s[i][Len(s[i])].start
    <3>1. n - 1 \in DOMAIN at[i]
      BY <1>4, <2>1, <2>5
    <3>2. Follows(at, i, n - 1) = at[i][n]
      BY <2>2 DEF Follows
    <3>3. s[i][Len(s[i]) - 1].end = Lesser(at[i][n - 1] + width, at[i][n])
      BY <1>7, <2>1, <3>1, <3>2
    <3>4. at[i][n] \in Nat /\ at[i][n - 1] \in Nat
      BY <1>5, <2>1, <2>2, <3>1
    <3>5. at[i][n - 1] + width \in Nat
      BY <1>2, <3>4
    <3>6. Lesser(at[i][n - 1] + width, at[i][n]) <= at[i][n]
      BY <3>4, <3>5, LesserOfTwo
    <3> QED BY <2>3, <3>3, <3>6
  <2> QED BY <1>7, <2>1, <2>4, <2>5
<1>10. ASSUME NEW i \in DOMAIN s, NEW m \in DOMAIN s[i]
       PROVE  s[i][m].start < s[i][m].end
  BY <1>2, <1>5, <1>6, <1>7 DEF Lesser
<1>11. ASSUME NEW i \in DOMAIN s, NEW k \in DOMAIN s, NEW m \in DOMAIN s[i], NEW n \in DOMAIN s[k],
              i < k \/ (i = k /\ m < n)
       PROVE  s[i][m].end <= s[k][n].start
  <2>1. i \in DOMAIN at /\ k \in DOMAIN at /\ m \in DOMAIN at[i] /\ n \in DOMAIN at[k]
    BY <1>6
  <2>2. Follows(at, i, m) <= at[k][n]
    BY <1>11, <2>1, LayoutGrows
  <2>3. at[i][m] + width \in Nat /\ Follows(at, i, m) \in Nat /\ at[k][n] \in Nat
    BY <1>2, <1>5, <2>1
  <2>4. s[i][m].end = Lesser(at[i][m] + width, Follows(at, i, m)) /\ s[k][n].start = at[k][n]
    BY <1>7, <2>1
  <2>5. Lesser(at[i][m] + width, Follows(at, i, m)) <= Follows(at, i, m)
    BY <2>3, LesserOfTwo
  <2>6. Lesser(at[i][m] + width, Follows(at, i, m)) \in Nat
    BY <2>3 DEF Lesser
  <2> QED BY <2>2, <2>3, <2>4, <2>5, <2>6
<1>12. Ordered(s)
  BY <1>10, <1>11 DEF Ordered
<1> QED BY <1>8, <1>9, <1>12 DEF InShape

LEMMA AlignKeeps ==
  ASSUME IInv, Align
  PROVE  IInv'
<1>1. /\ step = "align" /\ step' = "starts" /\ UNCHANGED <<sound, starts, ends>>
      /\ IsFiniteSet(DOMAIN sound) /\ DOMAIN sound = 0..(Length - 1)
      /\ starts = <<>> /\ ends = <<>>
  BY DEF Align, IInv
<1>2. PICK width \in Widths, at \in Layouts :
        /\ \A i \in DOMAIN at : Len(at[i]) = words[i].phones /\ ToSet(at[i]) \subseteq DOMAIN sound
        /\ spans' = Unflatten(at, width)
  BY DEF Align
<1>3. Length \in Nat /\ Length' = Length
  BY <1>1, LengthType DEF Length
<1>4. \A i \in DOMAIN at : ToSet(at[i]) \subseteq 0..(Length - 1)
  BY <1>1, <1>2
<1>5. InShape(spans')
  BY <1>2, <1>3, <1>4, UnflattenSpans
<1>6. SpansOK'
  BY <1>5 DEF SpansOK
<1>7. Inside'
  BY <1>1 DEF Inside
<1> QED BY <1>1, <1>6, <1>7 DEF IInv

\* The recording and the phonemes stay what the alignment made of them.
LEMMA Unmoved ==
  ASSUME IInv, UNCHANGED <<sound, spans>>
  PROVE  /\ IsFiniteSet(DOMAIN sound') /\ SpansOK' /\ Length' = Length /\ Length \in Nat
         /\ \A i : /\ Opening(i)' = Opening(i) /\ Second(i)' = Second(i)
                   /\ Closing(i)' = Closing(i) /\ Penult(i)' = Penult(i) /\ Reach(i)' = Reach(i)
<1>1. Length' = Length
  BY DEF Length
<1>2. Length \in Nat
  BY LengthType DEF IInv
<1>3. \A i : Reach(i)' = Reach(i)
  BY <1>1 DEF Reach
<1> QED BY <1>1, <1>2, <1>3 DEF IInv, SpansOK, Opening, Second, Closing, Penult

LEMMA AdjustStartsKeeps ==
  ASSUME IInv, AdjustStarts
  PROVE  IInv'
<1>1. /\ starts' = [i \in {j \in DOMAIN spans : NewStart(j) # {}} |-> CHOOSE f \in NewStart(i) : TRUE]
      /\ step' = "ends" /\ UNCHANGED <<sound, spans, ends>>
  BY DEF AdjustStarts
<1>2. /\ IsFiniteSet(DOMAIN sound') /\ SpansOK' /\ Length' = Length /\ Length \in Nat
      /\ \A i : /\ Opening(i)' = Opening(i) /\ Second(i)' = Second(i)
                /\ Closing(i)' = Closing(i) /\ Penult(i)' = Penult(i) /\ Reach(i)' = Reach(i)
  BY <1>1, Unmoved
<1>3. ASSUME NEW i \in DOMAIN starts'
      PROVE  starts'[i] \in (Opening(i).start + 2)..Second(i).start
  <2>1. i \in DOMAIN spans /\ NewStart(i) # {} /\ starts'[i] = CHOOSE f \in NewStart(i) : TRUE
    BY <1>1
  <2>2. starts'[i] \in NewStart(i)
    BY <2>1
  <2> QED BY <1>2, <2>1, <2>2, NewStartInside DEF IInv
<1>4. \A i \in DOMAIN ends :
        /\ ends[i] <= Greater(Closing(i).end, Reach(i))
        /\ Len(spans[i]) > 1 => ends[i] > Penult(i).end
  BY DEF IInv, Inside
<1>5. Inside'
  BY <1>1, <1>2, <1>3, <1>4 DEF Inside, Greater
<1> QED BY <1>1, <1>2, <1>5 DEF IInv

\* An end that a correction moves is moved inside the word's reach.
LEMMA EndsKeep ==
  ASSUME IInv, UNCHANGED <<sound, spans, starts>>, step' \notin {"trim", "align"},
         \A i \in DOMAIN ends' :
           /\ ends'[i] <= Greater(Closing(i).end, Reach(i))
           /\ Len(spans[i]) > 1 => ends'[i] > Penult(i).end
  PROVE  IInv'
<1>1. /\ IsFiniteSet(DOMAIN sound') /\ SpansOK' /\ Length' = Length /\ Length \in Nat
      /\ \A i : /\ Opening(i)' = Opening(i) /\ Second(i)' = Second(i)
                /\ Closing(i)' = Closing(i) /\ Penult(i)' = Penult(i) /\ Reach(i)' = Reach(i)
  BY Unmoved
<1>2. \A i \in DOMAIN starts : starts[i] \in (Opening(i).start + 2)..Second(i).start
  BY DEF IInv, Inside
<1>3. Inside'
  BY <1>1, <1>2 DEF Inside, Greater
<1> QED BY <1>1, <1>3 DEF IInv

LEMMA TrimEndsKeeps ==
  ASSUME IInv, TrimEnds
  PROVE  IInv'
<1>1. /\ ends' = [i \in {j \in DOMAIN spans : TrimmedEnd(j) # {}} |-> CHOOSE f \in TrimmedEnd(i) : TRUE]
      /\ step' = "extend" /\ UNCHANGED <<sound, spans, starts>>
  BY DEF TrimEnds
<1>2. SpansOK /\ Length \in Nat
  BY LengthType DEF IInv
<1>3. ASSUME NEW i \in DOMAIN ends'
      PROVE  /\ ends'[i] <= Greater(Closing(i).end, Reach(i))
             /\ Len(spans[i]) > 1 => ends'[i] > Penult(i).end
  <2>1. i \in DOMAIN spans /\ TrimmedEnd(i) # {} /\ ends'[i] = CHOOSE f \in TrimmedEnd(i) : TRUE
    BY <1>1
  <2>2. ends'[i] \in TrimmedEnd(i)
    BY <2>1
  <2> QED BY <1>2, <2>1, <2>2, TrimmedEndInside
<1> QED BY <1>1, <1>3, EndsKeep

LEMMA ExtendEndsKeeps ==
  ASSUME IInv, ExtendEnds
  PROVE  IInv'
<1>1. /\ ends' = [i \in DOMAIN ends \cup {j \in DOMAIN spans : ExtendedEnd(j) # {}} |->
                    IF i \in DOMAIN ends THEN ends[i] ELSE CHOOSE f \in ExtendedEnd(i) : TRUE]
      /\ step' = "times" /\ UNCHANGED <<sound, spans, starts>>
  BY DEF ExtendEnds
<1>2. SpansOK /\ Length \in Nat
  BY LengthType DEF IInv
<1>3. ASSUME NEW i \in DOMAIN ends'
      PROVE  /\ ends'[i] <= Greater(Closing(i).end, Reach(i))
             /\ Len(spans[i]) > 1 => ends'[i] > Penult(i).end
  <2>1. CASE i \in DOMAIN ends
    <3>1. ends'[i] = ends[i]
      BY <1>1, <2>1
    <3> QED BY <2>1, <3>1 DEF IInv, Inside
  <2>2. CASE i \notin DOMAIN ends
    <3>1. i \in DOMAIN spans /\ ExtendedEnd(i) # {} /\ ends'[i] = CHOOSE f \in ExtendedEnd(i) : TRUE
      BY <1>1, <2>2
    <3>2. ends'[i] \in ExtendedEnd(i)
      BY <3>1
    <3> QED BY <1>2, <3>1, <3>2, ExtendedEndInside
  <2> QED BY <2>1, <2>2
<1> QED BY <1>1, <1>3, EndsKeep

LEMMA BreakLinesKeeps ==
  ASSUME IInv, BreakLines
  PROVE  IInv'
<1>1. sound' = <<>> /\ spans' = <<>> /\ starts' = <<>> /\ ends' = <<>> /\ step' = "play"
  BY DEF BreakLines
<1>2. IsFiniteSet(DOMAIN sound')
  BY <1>1, FS_Interval, DOMAIN sound' = 1..0
<1>3. SpansOK' /\ Inside'
  BY <1>1 DEF SpansOK, InShape, Inside
<1> QED BY <1>1, <1>2, <1>3 DEF IInv

\* The steps that leave the corrections alone.
LEMMA OthersKeep ==
  ASSUME IInv, UNCHANGED <<sound, spans, starts, ends>>,
         step' \in {"trim", "align"} => step \in {"trim", "align"}
  PROVE  IInv'
<1>1. /\ IsFiniteSet(DOMAIN sound') /\ SpansOK' /\ Length' = Length
      /\ \A i : /\ Opening(i)' = Opening(i) /\ Second(i)' = Second(i)
                /\ Closing(i)' = Closing(i) /\ Penult(i)' = Penult(i) /\ Reach(i)' = Reach(i)
  BY Unmoved
<1>2. Inside'
  BY <1>1 DEF IInv, Inside, Greater
<1> QED BY <1>1, <1>2 DEF IInv

LEMMA NextKeeps ==
  ASSUME IInv, [Next]_vars
  PROVE  IInv'
<1>1. CASE Trim
  BY <1>1, TrimKeeps
<1>2. CASE Align
  BY <1>2, AlignKeeps
<1>3. CASE AlignRaises
  BY <1>3, OthersKeep DEF AlignRaises
<1>4. CASE AdjustStarts
  BY <1>4, AdjustStartsKeeps
<1>5. CASE TrimEnds
  BY <1>5, TrimEndsKeeps
<1>6. CASE ExtendEnds
  BY <1>6, ExtendEndsKeeps
<1>7. CASE ToSyllables
  BY <1>7, OthersKeep DEF ToSyllables
<1>8. CASE BreakLines
  BY <1>8, BreakLinesKeeps
<1>9. CASE PlayFrame \/ Seek \/ UNCHANGED vars
  BY <1>9, OthersKeep DEF PlayFrame, Seek, vars, wordVars
<1> QED BY <1>1, <1>2, <1>3, <1>4, <1>5, <1>6, <1>7, <1>8, <1>9 DEF Next, Process

\* Whatever was recorded and wherever the aligner puts the phonemes, no correction
\* moves a word past its second phoneme, before its last but one, or into the next word.
THEOREM CorrectionsStayInside == Spec => []Inside
<1>1. InitLines => IInv
  BY InitInv
<1>2. IInv /\ [Next]_vars => IInv'
  BY NextKeeps
<1>3. IInv => Inside
  BY DEF IInv
<1> QED BY <1>1, <1>2, <1>3, PTL DEF Spec

-----------------------------------------------------------------------------
(* Words in order *)

\* Words have phonemes one after another; corrections are of words, of whole frames.
WordsInv ==
  /\ words \in Lyrics /\ offset \in Int
  /\ step \in {"starts", "ends", "extend", "times"} => DOMAIN spans = DOMAIN words /\ Ordered(spans)
  /\ \A i \in DOMAIN starts : i \in DOMAIN spans /\ Len(spans[i]) > 1
  /\ \A i \in DOMAIN ends : i \in DOMAIN spans /\ ends[i] \in Int

LEMMA AlignOrders ==
  ASSUME IInv, WordsInv, Align
  PROVE  WordsInv'
<1>1. /\ step = "align" /\ step' = "starts" /\ UNCHANGED <<words, offset, sound, starts, ends>>
      /\ IsFiniteSet(DOMAIN sound) /\ DOMAIN sound = 0..(Length - 1)
      /\ starts = <<>> /\ ends = <<>>
  BY DEF Align, IInv
<1>2. PICK width \in Widths, at \in Layouts :
        /\ DOMAIN at = DOMAIN words
        /\ \A i \in DOMAIN at : Len(at[i]) = words[i].phones /\ ToSet(at[i]) \subseteq DOMAIN sound
        /\ spans' = Unflatten(at, width)
  BY DEF Align
<1>3. Length \in Nat
  BY <1>1, LengthType
<1>4. \A i \in DOMAIN at : ToSet(at[i]) \subseteq 0..(Length - 1)
  BY <1>1, <1>2
<1>5. Ordered(spans')
  BY <1>2, <1>3, <1>4, UnflattenSpans
<1>6. DOMAIN spans' = DOMAIN words'
  BY <1>1, <1>2 DEF Unflatten
<1> QED BY <1>1, <1>5, <1>6 DEF WordsInv

LEMMA WordsStep ==
  ASSUME IInv, WordsInv, [Next]_vars
  PROVE  WordsInv'
<1>1. CASE Trim
  <2>1. /\ step = "trim" /\ step' = "align" /\ UNCHANGED <<words, spans, starts, ends>>
        /\ starts = <<>> /\ ends = <<>> /\ DOMAIN sound = 0..(Length - 1)
    BY <1>1 DEF Trim, IInv
  <2>2. Length \in Nat
    BY LengthType DEF IInv
  <2>3. offset' \in Int
    <3>1. offset' \in {0} \cup UNION {Refined(d) : d \in {k \in DOMAIN sound : sound[k] > 0}}
      BY <1>1 DEF Trim
    <3>2. \A d \in DOMAIN sound : d \in Nat
      BY <2>1, <2>2
    <3> QED BY <3>1, <3>2, RefinedBack
  <2> QED BY <2>1, <2>3 DEF WordsInv
<1>2. CASE Align
  BY <1>2, AlignOrders
<1>3. CASE AlignRaises
  BY <1>3 DEF AlignRaises, WordsInv
<1>4. CASE AdjustStarts
  <2>1. /\ step = "starts" /\ step' = "ends" /\ UNCHANGED <<words, offset, spans, ends>>
        /\ DOMAIN starts' = {j \in DOMAIN spans : NewStart(j) # {}}
    BY <1>4 DEF AdjustStarts
  <2>2. \A i \in DOMAIN starts' : i \in DOMAIN spans /\ Len(spans[i]) > 1
    <3> SUFFICES ASSUME NEW i \in DOMAIN spans, NewStart(i) # {} PROVE Len(spans[i]) > 1
      BY <2>1
    <3>1. Len(spans[i]) >= 2
      BY DEF NewStart
    <3>2. Len(spans[i]) \in Nat
      BY DEF IInv, SpansOK, InShape
    <3> QED BY <3>1, <3>2
  <2>3. Ordered(spans')
    BY <2>1 DEF WordsInv
  <2> QED BY <2>1, <2>2, <2>3 DEF WordsInv
<1>5. CASE TrimEnds
  <2>1. /\ step = "ends" /\ step' = "extend" /\ UNCHANGED <<words, offset, spans, starts>>
        /\ ends' = [i \in {j \in DOMAIN spans : TrimmedEnd(j) # {}} |-> CHOOSE f \in TrimmedEnd(i) : TRUE]
    BY <1>5 DEF TrimEnds
  <2>2. \A i : TrimmedEnd(i) \subseteq Int
    BY DEF TrimmedEnd
  <2>3. \A i \in DOMAIN ends' : i \in DOMAIN spans /\ ends'[i] \in Int
    BY <2>1, <2>2
  <2>4. Ordered(spans')
    BY <2>1 DEF WordsInv
  <2> QED BY <2>1, <2>3, <2>4 DEF WordsInv
<1>6. CASE ExtendEnds
  <2>1. /\ step = "extend" /\ step' = "times" /\ UNCHANGED <<words, offset, spans, starts>>
        /\ ends' = [i \in DOMAIN ends \cup {j \in DOMAIN spans : ExtendedEnd(j) # {}} |->
                      IF i \in DOMAIN ends THEN ends[i] ELSE CHOOSE f \in ExtendedEnd(i) : TRUE]
    BY <1>6 DEF ExtendEnds
  <2>2. \A i : ExtendedEnd(i) \subseteq Int
    BY DEF ExtendedEnd
  <2>3. \A i \in DOMAIN ends' : i \in DOMAIN spans /\ ends'[i] \in Int
    BY <2>1, <2>2 DEF WordsInv
  <2>4. Ordered(spans')
    BY <2>1 DEF WordsInv
  <2> QED BY <2>1, <2>3, <2>4 DEF WordsInv
<1>7. CASE ToSyllables
  BY <1>7 DEF ToSyllables, WordsInv
<1>8. CASE BreakLines
  <2>1. /\ step' = "play" /\ UNCHANGED words /\ offset' = 0
        /\ DOMAIN starts' = {} /\ DOMAIN ends' = {}
    BY <1>8 DEF BreakLines
  <2> QED BY <2>1 DEF WordsInv
<1>9. CASE PlayFrame \/ Seek \/ UNCHANGED vars
  <2>1. UNCHANGED <<words, offset, spans, starts, ends, step>>
    BY <1>9 DEF PlayFrame, Seek, vars, wordVars
  <2>2. Ordered(spans)' <=> Ordered(spans)
    BY <2>1 DEF Ordered
  <2> QED BY <2>1, <2>2 DEF WordsInv
<1> QED BY <1>1, <1>2, <1>3, <1>4, <1>5, <1>6, <1>7, <1>8, <1>9 DEF Next, Process

LEMMA WordsAlways == Spec => [](IInv /\ WordsInv)
<1>1. InitLines => IInv /\ WordsInv
  <2>1. InitLines => WordsInv
    BY DEF InitLines, Init, WordsInv
  <2> QED BY <2>1, InitInv
<1>2. IInv /\ WordsInv /\ [Next]_vars => (IInv /\ WordsInv)'
  BY NextKeeps, WordsStep
<1> QED BY <1>1, <1>2, PTL DEF Spec

LEMMA PhonemeFacts ==
  ASSUME SpansOK, NEW i \in DOMAIN spans
  PROVE  /\ Len(spans[i]) \in Nat \ {0} /\ DOMAIN spans[i] = 1..Len(spans[i])
         /\ \A m \in 1..Len(spans[i]) : spans[i][m].start \in Nat /\ spans[i][m].end \in Nat
<1>1. spans[i] \in Seq(Span) /\ Len(spans[i]) \in Nat \ {0}
  BY DEF SpansOK, InShape
<1>2. \A n \in 1..Len(spans[i]) : spans[i][n].start \in Nat /\ spans[i][n].end \in Nat
  BY <1>1, SpanFacts
<1> QED BY <1>1, <1>2

\* The frames a word begins and ends with, corrected.
Begins(i) == IF i \in DOMAIN starts THEN starts[i] ELSE Opening(i).start
Ends(i)   == IF i \in DOMAIN ends THEN ends[i] ELSE Closing(i).end

\* A word begins with or behind its first phoneme and before the next word, and does not
\* end behind the beginning of that one.
LEMMA FramesInOrder ==
  ASSUME IInv, Ordered(spans), WordsInv, NEW i \in DOMAIN spans
  PROVE  /\ Begins(i) \in Int /\ Ends(i) \in Int /\ Opening(i).start \in Nat
         /\ Opening(i).start <= Begins(i)
         /\ \A k \in DOMAIN spans : i < k => Begins(i) < Opening(k).start /\ Ends(i) <= Opening(k).start
<1> DEFINE c == Len(spans[i])
<1>1. /\ c \in Nat \ {0} /\ DOMAIN spans[i] = 1..c /\ DOMAIN spans = 1..Len(spans) /\ Len(spans) \in Nat
      /\ \A m \in 1..c : spans[i][m].start \in Nat /\ spans[i][m].end \in Nat
  BY PhonemeFacts DEF IInv, SpansOK, InShape
<1>2. Length \in Nat /\ SpansOK /\ Inside
  BY LengthType DEF IInv
<1>3. /\ Opening(i).start \in Nat /\ Closing(i).end \in Nat /\ Reach(i) \in Int
      /\ c > 1 => Second(i).start \in Nat
  BY <1>2, WordFacts
<1>4. i \in DOMAIN starts => c > 1 /\ starts[i] \in (Opening(i).start + 2)..Second(i).start
  BY <1>2 DEF WordsInv, Inside
<1>5. Begins(i) \in Int /\ Opening(i).start <= Begins(i)
  BY <1>3, <1>4 DEF Begins
<1>6. Ends(i) \in Int /\ (Ends(i) <= Closing(i).end \/ Ends(i) <= Reach(i))
  <2>1. CASE i \in DOMAIN ends
    <3>1. ends[i] <= Greater(Closing(i).end, Reach(i)) /\ ends[i] \in Int
      BY <1>2, <2>1 DEF Inside, WordsInv
    <3> QED BY <1>3, <2>1, <3>1 DEF Greater, Ends
  <2>2. CASE i \notin DOMAIN ends
    BY <1>3, <2>2 DEF Ends
  <2> QED BY <2>1, <2>2
<1>7. ASSUME NEW k \in DOMAIN spans, i < k
      PROVE  Begins(i) < Opening(k).start /\ Ends(i) <= Opening(k).start
  <2>1. /\ Opening(k).start \in Nat /\ 1 \in DOMAIN spans[k]
        /\ \A m \in 1..c : spans[i][m].end <= Opening(k).start
        /\ \A m \in 1..c : spans[i][m].start < spans[i][m].end
    <3>1. 1 \in DOMAIN spans[k] /\ Opening(k).start \in Nat
      BY <1>2, PhonemeFacts DEF Opening
    <3> QED BY <1>1, <1>7, <3>1 DEF Ordered, Opening
  <2>2. Begins(i) < Opening(k).start
    <3>1. CASE i \in DOMAIN starts
      <4>1. Second(i).start < Opening(k).start /\ c > 1
        BY <1>1, <1>4, <2>1, <3>1 DEF Second
      <4> QED BY <1>3, <1>4, <2>1, <3>1, <4>1 DEF Begins
    <3>2. CASE i \notin DOMAIN starts
      <4>1. Opening(i).start < Opening(k).start
        BY <1>1, <2>1 DEF Opening
      <4> QED BY <3>2, <4>1 DEF Begins
    <3> QED BY <3>1, <3>2
  <2>3. Closing(i).end <= Opening(k).start
    BY <1>1, <2>1 DEF Closing
  <2>4. Reach(i) <= Opening(k).start
    <3>1. i + 1 \in DOMAIN spans /\ i < Len(spans) /\ (i + 1 = k \/ i + 1 < k)
      BY <1>1, <1>7
    <3>2. Opening(i + 1).start \in Nat /\ Reach(i) = Opening(i + 1).start - 1
      <4>1. Opening(i + 1).start \in Nat
        BY <1>2, <3>1, WordFacts
      <4> QED BY <3>1, <4>1 DEF Reach, Opening
    <3>3. Opening(i + 1).start <= Opening(k).start
      <4>1. CASE i + 1 = k
        BY <2>1, <4>1
      <4>2. CASE i + 1 < k
        <5>1. 1 \in DOMAIN spans[i + 1] /\ spans[i + 1][1].end \in Nat
          BY <1>2, <3>1, PhonemeFacts
        <5>2. spans[i + 1][1].start < spans[i + 1][1].end /\ spans[i + 1][1].end <= spans[k][1].start
          BY <2>1, <3>1, <4>2, <5>1 DEF Ordered
        <5> QED BY <2>1, <3>2, <5>1, <5>2 DEF Opening
      <4> QED BY <3>1, <4>1, <4>2
    <3> QED BY <2>1, <3>2, <3>3
  <2> QED BY <1>3, <1>6, <2>1, <2>2, <2>3, <2>4
<1> QED BY <1>3, <1>5, <1>6, <1>7

\* A word takes a frame at least, begins before the later ones, and is over by then
\* unless its corrections cross.
LEMMA TimesInOrder ==
  ASSUME IInv, WordsInv, Ordered(spans), NEW i \in DOMAIN spans
  PROVE  /\ StartTime(i) \in Int /\ EndTime(i) \in Int
         /\ StartTime(i) + Frame <= EndTime(i)
         /\ \A k \in DOMAIN spans : i < k =>
              /\ StartTime(i) < StartTime(k)
              /\ EndTime(i) <= StartTime(k) \/ (i \in Crossing /\ EndTime(i) = StartTime(i) + MinWord)
<1>1. /\ Begins(i) \in Int /\ Ends(i) \in Int /\ Opening(i).start \in Nat /\ offset \in Int
      /\ Opening(i).start <= Begins(i)
      /\ \A k \in DOMAIN spans : i < k => Begins(i) < Opening(k).start /\ Ends(i) <= Opening(k).start
  BY FramesInOrder DEF WordsInv
<1>2. StartTime(i) = 20 * (offset + Begins(i))
  BY DEF StartTime, Begins, Frame
<1>3. /\ i \in Crossing <=> ~(Begins(i) < Ends(i))
      /\ EndTime(i) = IF Begins(i) < Ends(i) THEN 20 * (offset + Ends(i)) ELSE StartTime(i) + 50
  <2>1. AlignedEnd(i) = 20 * (offset + Ends(i))
    BY DEF AlignedEnd, Ends, Frame
  <2>2. i \in Crossing <=> ~(Begins(i) < Ends(i))
    BY <1>1, <1>2, <2>1 DEF Crossing
  <2> QED BY <2>1, <2>2 DEF EndTime, MinWord
<1>4. ASSUME NEW k \in DOMAIN spans, i < k
      PROVE  /\ StartTime(i) < StartTime(k)
             /\ EndTime(i) <= StartTime(k) \/ (i \in Crossing /\ EndTime(i) = StartTime(i) + MinWord)
  <2>1. Begins(k) \in Int /\ Opening(k).start <= Begins(k) /\ Opening(k).start \in Nat
    BY FramesInOrder
  <2>2. StartTime(k) = 20 * (offset + Begins(k))
    BY DEF StartTime, Begins, Frame
  <2>3. Begins(i) < Opening(k).start /\ Ends(i) <= Opening(k).start
    BY <1>1, <1>4
  <2>4. Begins(i) < Begins(k) /\ Ends(i) <= Begins(k)
    BY <1>1, <2>1, <2>3
  <2> QED BY <1>1, <1>2, <1>3, <2>1, <2>2, <2>4 DEF MinWord
<1> QED BY <1>1, <1>2, <1>3, <1>4 DEF Frame

\* The syllables of a word share its time one after another; each takes some of it, if the
\* word has no more letters than a frame has milliseconds.
LEMMA SharesInOrder ==
  ASSUME words \in Lyrics, NEW i \in DOMAIN words, StartTime(i) \in Int, EndTime(i) \in Int,
         StartTime(i) + Frame <= EndTime(i)
  PROVE  LET n == Len(words[i].parts)
         IN  /\ n \in Nat \ {0} /\ DOMAIN words[i].parts = 1..n
             /\ Share(i, 0) = StartTime(i) /\ Share(i, n) = EndTime(i)
             /\ \A p \in 0..n : Share(i, p) \in Int
             /\ \A p, q \in 0..n : p <= q => Share(i, p) <= Share(i, q)
             /\ Letters(i) <= Frame => \A p, q \in 0..n : p < q => Share(i, p) < Share(i, q)
<1> DEFINE w == words[i].parts
           n == Len(w)
           sum(q) == SumOf(w, 1..q)
           D == EndTime(i) - StartTime(i)
           L == sum(n)
<1>1. words[i].parts \in Seq(Nat \ {0}) \ {<<>>}
  <2>1. words \in Seq(Word)
    BY LyricsAssumption
  <2>2. words[i] \in Word
    BY <2>1
  <2> QED BY <2>2 DEF Word
<1>2. n \in Nat \ {0} /\ DOMAIN w = 1..n /\ \A k \in 1..n : w[k] \in Nat \ {0}
  BY <1>1
<1>3. Letters(i) = L
  BY <1>2 DEF Letters, SumOf
<1>4. \A p : Share(i, p) = StartTime(i) + Portion(D, L, sum(p))
  BY DEF Share, Portion, SumOf
<1>5. D \in Nat /\ 20 <= D
  BY DEF Frame
<1> HIDE DEF w, n
<1>6. /\ sum(0) = 0
      /\ \A q \in 0..n : sum(q) \in Nat
      /\ \A m, q \in 0..n : m < q => sum(m) + 1 <= sum(q)
  BY <1>2, SumsGrow
<1> HIDE DEF sum, D
<1>7. L \in Nat \ {0}
  <2>1. 0 < n /\ 0 \in 0..n /\ n \in 0..n
    BY <1>2
  <2>2. sum(0) + 1 <= sum(n) /\ sum(n) \in Nat
    BY <1>6, <2>1
  <2> QED BY <1>6, <2>2
<1> HIDE DEF L
<1>8. \A x, y \in Nat : /\ Portion(D, L, 0) = 0 /\ Portion(D, L, L) = D /\ Portion(D, L, x) \in Nat
                        /\ x <= y => Portion(D, L, x) <= Portion(D, L, y)
                        /\ L <= D /\ x + 1 <= y => Portion(D, L, x) < Portion(D, L, y)
  BY <1>5, <1>7, Portions
<1>9. Share(i, 0) = StartTime(i) /\ Share(i, n) = EndTime(i)
  <2>1. Portion(D, L, sum(0)) = 0 /\ Portion(D, L, sum(n)) = D
    BY <1>6, <1>7, <1>8 DEF L
  <2> QED BY <1>4, <2>1 DEF D
<1>10. \A p \in 0..n : Portion(D, L, sum(p)) \in Nat
  BY <1>6, <1>8
<1>11. \A p \in 0..n : Share(i, p) \in Int
  BY <1>4, <1>10
<1>12. ASSUME NEW p \in 0..n, NEW q \in 0..n, p <= q
       PROVE  Share(i, p) <= Share(i, q)
  <2>1. sum(p) <= sum(q) /\ sum(p) \in Nat /\ sum(q) \in Nat
    <3>1. p = q \/ p < q
      BY <1>2, <1>12
    <3>2. sum(p) \in Nat /\ sum(q) \in Nat
      BY <1>6
    <3> QED BY <1>6, <3>1, <3>2
  <2>2. Portion(D, L, sum(p)) <= Portion(D, L, sum(q))
    BY <1>8, <2>1
  <2> QED BY <1>4, <1>10, <2>2
<1>13. ASSUME Letters(i) <= Frame, NEW p \in 0..n, NEW q \in 0..n, p < q
       PROVE  Share(i, p) < Share(i, q)
  <2>1. sum(p) + 1 <= sum(q) /\ sum(p) \in Nat /\ sum(q) \in Nat
    BY <1>6, <1>13
  <2>2. L <= D
    BY <1>3, <1>5, <1>7, <1>13 DEF Frame
  <2>3. Portion(D, L, sum(p)) < Portion(D, L, sum(q))
    BY <1>8, <2>1, <2>2
  <2> QED BY <1>4, <1>10, <2>3
<1> QED BY <1>2, <1>9, <1>11, <1>12, <1>13 DEF n, w

-----------------------------------------------------------------------------
(* Syllables in order *)

Syllable == [word : Nat, prefix : {"", "space", "newline"}, start : Int, end : Int]

\* A syllable with a prefix begins a word, and nothing behind it begins before it.
SyllablesInv ==
  /\ step \notin {"lines", "play"} => timings = <<>>
  /\ step \in {"lines", "play"} =>
    /\ timings \in Seq(Syllable) \ {<<>>}
    /\ InOrder
    /\ \A j \in DOMAIN timings : timings[j].start <= timings[j].end
    /\ \A j, k \in DOMAIN timings : j < k => timings[j].word <= timings[k].word
    /\ \A j \in DOMAIN timings : timings[j].prefix # "" /\ j > 1 => timings[j - 1].word < timings[j].word
    /\ \A h, k \in DOMAIN timings :
         h <= k /\ (h = 1 \/ timings[h].prefix # "") => timings[h].start <= timings[k].start

LEMMA SomeSeq ==
  ASSUME NEW X, NEW s \in Seq(X) \ {<<>>}
  PROVE  Len(s) \in Nat \ {0} /\ DOMAIN s = 1..Len(s) /\ 1 \in DOMAIN s
  OBVIOUS

\* w[j] is the word the j-th syllable belongs to, and p[j] which of its syllables it is.
Placed(t, w, p) ==
  /\ \A j \in DOMAIN t :
       /\ w[j] \in DOMAIN spans /\ p[j] \in 1..Len(words[w[j]].parts)
       /\ t[j] = [word |-> w[j], prefix |-> Prefix(w[j], p[j]),
                  start |-> Share(w[j], p[j] - 1), end |-> Share(w[j], p[j])]
  /\ \A j, k \in DOMAIN t : j < k => w[j] < w[k] \/ (w[j] = w[k] /\ p[j] < p[k])
  /\ \A i \in DOMAIN spans : \A q \in 1..Len(words[i].parts) : \E j \in DOMAIN t : w[j] = i /\ p[j] = q

\* The syllables keep the order of the words.
LEMMA SyllablePlaces ==
  ASSUME IInv, WordsInv, ToSyllables
  PROVE  /\ timings' \in Seq(Syllable) \ {<<>>}
         /\ \E w, p : Placed(timings', w, p)
<1> DEFINE n(i) == Len(words[i].parts)
           s == [i \in DOMAIN spans |-> Syllables(i)]
           c == Len(spans)
<1>1. /\ timings' = FlattenSeq(s) /\ DOMAIN spans = DOMAIN words /\ Ordered(spans)
      /\ words \in Lyrics
  BY DEF ToSyllables, WordsInv
<1>2. c \in Nat \ {0} /\ DOMAIN spans = 1..c
  <2>1. words \in Seq(Word) \ {<<>>}
    BY <1>1, LyricsAssumption
  <2>2. spans \in Seq(Seq(Span) \ {<<>>})
    BY DEF IInv, SpansOK, InShape
  <2>3. c \in Nat /\ DOMAIN spans = 1..c
    BY <2>2
  <2>4. 1 \in DOMAIN words
    BY <2>1, SomeSeq
  <2> QED BY <1>1, <2>3, <2>4
<1>3. ASSUME NEW i \in DOMAIN spans
      PROVE  /\ n(i) \in Nat \ {0} /\ DOMAIN words[i].parts = 1..n(i)
             /\ \A p \in 0..n(i) : Share(i, p) \in Int
  <2>1. StartTime(i) \in Int /\ EndTime(i) \in Int /\ StartTime(i) + Frame <= EndTime(i)
    BY <1>1, TimesInOrder
  <2> QED BY <1>1, <2>1, SharesInOrder
<1>4. ASSUME NEW i \in DOMAIN spans
      PROVE  Syllables(i) \in Seq(Syllable) /\ Len(Syllables(i)) = n(i)
  <2>1. ASSUME NEW p \in 1..n(i)
        PROVE  [word |-> i, prefix |-> Prefix(i, p), start |-> Share(i, p - 1), end |-> Share(i, p)]
                 \in Syllable
    <3>1. Share(i, p) \in Int /\ Share(i, p - 1) \in Int
      BY <1>3
    <3>2. Prefix(i, p) \in {"", "space", "newline"}
      BY DEF Prefix
    <3>3. i \in Nat
      BY <1>2
    <3> QED BY <3>1, <3>2, <3>3 DEF Syllable
  <2>2. Syllables(i) \in [1..n(i) -> Syllable]
    BY <1>3, <2>1 DEF Syllables
  <2> QED BY <1>3, <2>2, FunctionIsSeq
<1>5. s \in Seq(Seq(Syllable)) /\ Len(s) = c
  <2>1. s \in [1..c -> Seq(Syllable)]
    BY <1>2, <1>4
  <2> HIDE DEF s
  <2> QED BY <1>2, <2>1, FunctionIsSeq
<1>6. \A i \in DOMAIN spans : s[i] = Syllables(i) /\ Len(s[i]) = n(i)
  BY <1>4
<1>7. ASSUME NEW i \in DOMAIN spans, NEW p \in 1..n(i)
      PROVE  s[i][p] = [word |-> i, prefix |-> Prefix(i, p), start |-> Share(i, p - 1), end |-> Share(i, p)]
  BY <1>3, <1>6 DEF Syllables
<1> HIDE DEF s, n, c
<1>8. s # <<>>
  BY <1>2, <1>5
<1>9. FlattenSeq(s) \in Seq(Syllable) /\ \E w, p : Lined(FlattenSeq(s), s, c, w, p)
  BY <1>5, <1>8, Flattened
<1> DEFINE t == FlattenSeq(s)
<1>10. PICK w, p : Lined(t, s, c, w, p)
  BY <1>9
<1>11. timings' = t /\ t \in Seq(Syllable)
  BY <1>1, <1>9
<1> HIDE DEF t
<1>12. DOMAIN t = 1..Len(t)
  BY <1>11
<1>13. ASSUME NEW j \in DOMAIN t
       PROVE  /\ w[j] \in DOMAIN spans /\ p[j] \in 1..n(w[j])
              /\ t[j] = [word |-> w[j], prefix |-> Prefix(w[j], p[j]),
                         start |-> Share(w[j], p[j] - 1), end |-> Share(w[j], p[j])]
  <2>1. w[j] \in DOMAIN spans /\ p[j] \in 1..Len(s[w[j]]) /\ t[j] = s[w[j]][p[j]]
    BY <1>2, <1>10, <1>12 DEF Lined
  <2>2. p[j] \in 1..n(w[j])
    BY <1>6, <2>1
  <2> QED BY <1>7, <2>1, <2>2
<1>14. \A j, k \in DOMAIN t : j < k => w[j] < w[k] \/ (w[j] = w[k] /\ p[j] < p[k])
  BY <1>10, <1>12 DEF Lined
<1>15. \A i \in DOMAIN spans : \A q \in 1..n(i) : \E j \in DOMAIN t : w[j] = i /\ p[j] = q
  <2> SUFFICES ASSUME NEW i \in DOMAIN spans, NEW q \in 1..n(i)
               PROVE  \E j \in DOMAIN t : w[j] = i /\ p[j] = q
    OBVIOUS
  <2>1. i \in 1..c /\ q \in 1..Len(s[i])
    BY <1>2, <1>6
  <2>2. \A l \in 1..c : \A r \in 1..Len(s[l]) : \E j \in 1..Len(t) : w[j] = l /\ p[j] = r
    BY <1>10, Zenon DEF Lined
  <2>3. PICK j \in 1..Len(t) : w[j] = i /\ p[j] = q
    BY <2>1, <2>2
  <2> QED BY <1>12, <2>3
<1>16. t # <<>>
  <2>1. 1 \in DOMAIN spans /\ 1 \in 1..n(1)
    BY <1>2, <1>3 DEF n
  <2>2. PICK j \in DOMAIN t : w[j] = 1 /\ p[j] = 1
    BY <1>15, <2>1, Zenon
  <2>3. DOMAIN t # {}
    BY <2>2
  <2> QED BY <2>3
<1>17. t \in Seq(Syllable) \ {<<>>}
  BY <1>11, <1>16
<1>18. \A j \in DOMAIN t :
         /\ w[j] \in DOMAIN spans /\ p[j] \in 1..n(w[j])
         /\ t[j] = [word |-> w[j], prefix |-> Prefix(w[j], p[j]),
                    start |-> Share(w[j], p[j] - 1), end |-> Share(w[j], p[j])]
  BY <1>13
<1>19. Placed(t, w, p)
  BY <1>14, <1>15, <1>18, Zenon DEF Placed, n
<1>20. timings' \in Seq(Syllable) \ {<<>>}
  BY <1>11, <1>17
<1> QED BY <1>11, <1>19, <1>20

LEMMA LettersAreASum == \A i : Letters(i) = SumOf(words[i].parts, DOMAIN words[i].parts)
BY DEF Letters, SumOf

\* The syllables are in order when they are made.
LEMMA SyllablesFollow ==
  ASSUME IInv, WordsInv, ToSyllables
  PROVE  SyllablesInv'
<1> DEFINE t == timings'
           n(i) == Len(words[i].parts)
<1>1. /\ DOMAIN spans = DOMAIN words /\ Ordered(spans) /\ words \in Lyrics
      /\ step' = "lines" /\ words' = words
  BY DEF ToSyllables, WordsInv
<1>2. t \in Seq(Syllable) \ {<<>>} /\ \E w, p : Placed(t, w, p)
  BY SyllablePlaces
<1> HIDE DEF t
<1>3. DOMAIN t = 1..Len(t) /\ Len(t) \in Nat /\ 1 \in DOMAIN t
  BY <1>2, SomeSeq
<1>4. PICK w, p : Placed(t, w, p)
  BY <1>2
<1>5. DOMAIN spans \subseteq Nat
  BY DEF IInv, SpansOK, InShape
<1>6. ASSUME NEW i \in DOMAIN spans
      PROVE  /\ StartTime(i) \in Int /\ EndTime(i) \in Int /\ StartTime(i) + Frame <= EndTime(i)
             /\ \A k \in DOMAIN spans : i < k =>
                  /\ StartTime(i) < StartTime(k)
                  /\ \/ EndTime(i) <= StartTime(k)
                     \/ i \in Crossing /\ EndTime(i) = StartTime(i) + MinWord
             /\ n(i) \in Nat \ {0}
             /\ Share(i, 0) = StartTime(i) /\ Share(i, n(i)) = EndTime(i)
             /\ \A r \in 0..n(i) : Share(i, r) \in Int
             /\ \A r, q \in 0..n(i) : r <= q => Share(i, r) <= Share(i, q)
             /\ Letters(i) <= Frame => \A r, q \in 0..n(i) : r < q => Share(i, r) < Share(i, q)
  <2>1. /\ StartTime(i) \in Int /\ EndTime(i) \in Int /\ StartTime(i) + Frame <= EndTime(i)
        /\ \A k \in DOMAIN spans : i < k =>
             /\ StartTime(i) < StartTime(k)
             /\ EndTime(i) <= StartTime(k) \/ (i \in Crossing /\ EndTime(i) = StartTime(i) + MinWord)
    BY <1>1, TimesInOrder
  <2> QED BY <1>1, <2>1, SharesInOrder
<1>7. ASSUME NEW j \in DOMAIN t
      PROVE  /\ w[j] \in DOMAIN spans /\ w[j] \in Nat /\ p[j] \in 1..n(w[j]) /\ n(w[j]) \in Nat
             /\ t[j].word = w[j] /\ t[j].prefix = Prefix(w[j], p[j])
             /\ t[j].start = Share(w[j], p[j] - 1) /\ t[j].end = Share(w[j], p[j])
             /\ p[j] - 1 \in 0..n(w[j]) /\ p[j] \in 0..n(w[j]) /\ p[j] \in Nat
             /\ t[j].start \in Int /\ t[j].end \in Int
             /\ StartTime(w[j]) <= t[j].start /\ t[j].end <= EndTime(w[j]) /\ t[j].start <= t[j].end
             /\ t[j].start < t[j].end \/ ~(Letters(w[j]) <= Frame)
  <2>1. /\ w[j] \in DOMAIN spans /\ p[j] \in 1..n(w[j])
        /\ t[j] = [word |-> w[j], prefix |-> Prefix(w[j], p[j]),
                   start |-> Share(w[j], p[j] - 1), end |-> Share(w[j], p[j])]
    BY <1>4 DEF Placed
  <2>2. /\ t[j].word = w[j] /\ t[j].prefix = Prefix(w[j], p[j])
        /\ t[j].start = Share(w[j], p[j] - 1) /\ t[j].end = Share(w[j], p[j])
    BY <2>1
  <2>3. n(w[j]) \in Nat \ {0}
    BY <1>6, <2>1
  <2> DEFINE i == w[j]
             c == n(i)
             r == p[j]
  <2>4. i \in DOMAIN spans /\ r \in 1..c /\ c \in Nat \ {0}
    BY <2>1, <2>3
  <2>5. /\ StartTime(i) = Share(i, 0) /\ EndTime(i) = Share(i, c)
        /\ \A q \in 0..c : Share(i, q) \in Int
        /\ \A m, q \in 0..c : m <= q => Share(i, m) <= Share(i, q)
        /\ Letters(i) <= Frame => \A m, q \in 0..c : m < q => Share(i, m) < Share(i, q)
    BY <1>6, <2>4
  <2> HIDE DEF i, c, r
  <2>6. r - 1 \in 0..c /\ r \in 0..c /\ 0 \in 0..c /\ c \in 0..c /\ r \in Nat
        /\ 0 <= r - 1 /\ r - 1 < r /\ r - 1 <= r /\ r <= c
    BY <2>4
  <2>7. /\ Share(i, r - 1) \in Int /\ Share(i, r) \in Int
        /\ StartTime(i) <= Share(i, r - 1) /\ Share(i, r) <= EndTime(i)
        /\ Share(i, r - 1) <= Share(i, r)
        /\ Share(i, r - 1) < Share(i, r) \/ ~(Letters(i) <= Frame)
    BY <2>5, <2>6
  <2>8. i \in Nat
    BY <1>5, <2>4
  <2> QED BY <2>1, <2>2, <2>4, <2>6, <2>7, <2>8 DEF i, c, r
<1>8. \A j, k \in DOMAIN t : j < k => w[j] < w[k] \/ (w[j] = w[k] /\ p[j] < p[k])
  BY <1>4 DEF Placed
<1> HIDE DEF n
<1>9. ASSUME NEW j \in DOMAIN t
      PROVE  t[j].start < t[j].end \/ Letters(t[j].word) > Frame
  <2>1. Letters(w[j]) \in Int
    <3>1. words[w[j]].parts \in Seq(Nat \ {0})
      <4>1. words \in Seq(Word) /\ w[j] \in DOMAIN words
        BY <1>1, <1>7, LyricsAssumption
      <4>2. words[w[j]] \in Word
        BY <4>1
      <4> QED BY <4>2 DEF Word
    <3> DEFINE u == words[w[j]].parts
    <3>2. DOMAIN u = 1..Len(u) /\ Len(u) \in Nat /\ \A k \in 1..Len(u) : u[k] \in Nat \ {0}
      BY <3>1
    <3> HIDE DEF u
    <3>3. SumOf(u, 1..Len(u)) \in Nat
      BY <3>2, SumsGrow, Len(u) \in 0..Len(u)
    <3> QED BY <3>2, <3>3 DEF Letters, SumOf, u
  <2> QED BY <1>7, <2>1 DEF Frame
<1>10. ASSUME NEW j \in DOMAIN t, NEW k \in DOMAIN t, w[j] = w[k], p[j] < p[k]
       PROVE  t[j].end <= t[k].start
  <2>1. p[j] <= p[k] - 1
    BY <1>7, <1>10
  <2>2. Share(w[j], p[j]) <= Share(w[j], p[k] - 1)
    <3>1. p[j] \in 0..n(w[j]) /\ p[k] - 1 \in 0..n(w[j])
      BY <1>7, <1>10
    <3> QED BY <1>6, <1>7, <2>1, <3>1 DEF n
  <2> QED BY <1>7, <1>10, <2>2
<1>11. ASSUME NEW j \in DOMAIN t, NEW k \in DOMAIN t, w[j] < w[k]
       PROVE  /\ StartTime(w[j]) < t[k].start
              /\ \/ t[j].end <= t[k].start
                 \/ w[j] \in Crossing /\ t[j].end < t[k].start + MinWord
  <2>1. /\ StartTime(w[j]) < StartTime(w[k]) /\ StartTime(w[k]) <= t[k].start
        /\ \/ EndTime(w[j]) <= StartTime(w[k])
           \/ w[j] \in Crossing /\ EndTime(w[j]) = StartTime(w[j]) + MinWord
        /\ StartTime(w[j]) \in Int /\ StartTime(w[k]) \in Int /\ EndTime(w[j]) \in Int
        /\ t[j].end <= EndTime(w[j]) /\ t[j].end \in Int /\ t[k].start \in Int
    BY <1>6, <1>7, <1>11
  <2> QED BY <2>1 DEF MinWord
<1>12. ASSUME NEW h \in DOMAIN t, h = 1 \/ t[h].prefix # ""
       PROVE  p[h] = 1
  <2>1. CASE t[h].prefix # ""
    <3>1. Prefix(w[h], p[h]) # ""
      BY <1>7, <2>1
    <3>2. ~(p[h] > 1)
      BY <3>1 DEF Prefix
    <3>3. n(w[h]) \in Nat /\ p[h] \in 1..n(w[h])
      BY <1>7
    <3> QED BY <3>2, <3>3
  <2>2. CASE h = 1
    <3>1. w[h] \in DOMAIN spans /\ 1 \in 1..n(w[h]) /\ p[h] \in Nat \ {0}
      <4>1. n(w[h]) \in Nat /\ p[h] \in 1..n(w[h]) /\ w[h] \in DOMAIN spans
        BY <1>7
      <4> QED BY <4>1
    <3>2. \A i \in DOMAIN spans : \A q \in 1..n(i) : \E a \in DOMAIN t : w[a] = i /\ p[a] = q
      BY <1>4, Zenon DEF Placed, n
    <3>3. PICK a \in DOMAIN t : w[a] = w[h] /\ p[a] = 1
      BY <3>1, <3>2
    <3>4. a = h \/ h < a
      BY <1>3, <2>2
    <3>5. h < a => w[h] < w[a] \/ (w[h] = w[a] /\ p[h] < p[a])
      BY <1>8
    <3> QED BY <1>7, <3>1, <3>3, <3>4, <3>5
  <2> QED BY <1>12, <2>1, <2>2
<1>13. ASSUME NEW h \in DOMAIN t, NEW k \in DOMAIN t, h <= k, h = 1 \/ t[h].prefix # ""
       PROVE  t[h].start <= t[k].start
  <2>1. t[h].start = StartTime(w[h])
    <3>1. p[h] = 1
      BY <1>12, <1>13, Zenon
    <3>2. p[h] - 1 = 0
      BY <3>1
    <3>3. w[h] \in DOMAIN spans /\ t[h].start = Share(w[h], p[h] - 1)
      BY <1>7
    <3> QED BY <1>6, <3>2, <3>3
  <2>2. h = k \/ w[h] < w[k] \/ w[h] = w[k]
    <3>1. h \in 1..Len(t) /\ k \in 1..Len(t) /\ Len(t) \in Nat /\ h <= k
      BY <1>3, <1>13, Zenon
    <3>2. h = k \/ h < k
      BY <3>1
    <3> QED BY <1>8, <3>2
  <2>3. CASE w[h] < w[k]
    <3>1. t[h].start < t[k].start /\ t[h].start \in Int /\ t[k].start \in Int
      BY <1>7, <1>11, <2>1, <2>3
    <3> QED BY <3>1
  <2>4. CASE w[h] = w[k]
    <3>1. StartTime(w[k]) <= t[k].start
      BY <1>7
    <3> QED BY <2>1, <2>4, <3>1
  <2> QED BY <2>2, <2>3, <2>4
<1>14. ASSUME NEW j \in DOMAIN t, NEW k \in DOMAIN t, j < k
       PROVE  t[j].word <= t[k].word
  BY <1>7, <1>8, <1>14
<1>15. ASSUME NEW j \in DOMAIN t, t[j].prefix # "", j > 1
       PROVE  t[j - 1].word < t[j].word
  <2>1. p[j] = 1 /\ j - 1 \in DOMAIN t /\ j - 1 < j
    <3>1. p[j] = 1
      BY <1>12, <1>15, Zenon
    <3>2. j \in 1..Len(t) /\ Len(t) \in Nat /\ j > 1
      BY <1>3, <1>15, Zenon
    <3>3. j - 1 \in 1..Len(t) /\ j - 1 < j
      BY <3>2
    <3> QED BY <1>3, <3>1, <3>3
  <2>2. w[j - 1] < w[j] \/ p[j - 1] < 1
    BY <1>8, <2>1
  <2>3. p[j - 1] \in 1..n(w[j - 1]) /\ n(w[j - 1]) \in Nat
    BY <1>7, <2>1
  <2> QED BY <1>7, <2>1, <2>2, <2>3
<1>16. InOrder'
  <2>1. \A i : Letters(i)' = Letters(i)
    <3>1. (\A i : Letters(i) = SumOf(words[i].parts, DOMAIN words[i].parts))'
      BY LettersAreASum, PTL
    <3> QED BY <1>1, <3>1, LettersAreASum
  <2>2. crossed' = Crossing
    BY DEF ToSyllables
  <2>3. ASSUME NEW j \in DOMAIN t, NEW k \in DOMAIN t
        PROVE  /\ t[j].start < t[j].end \/ Letters(t[j].word) > Frame
               /\ j < k /\ t[j].word = t[k].word => t[j].end <= t[k].start
               /\ t[j].word < t[k].word =>
                    \/ t[j].end <= t[k].start
                    \/ t[j].word \in Crossing /\ t[j].end < t[k].start + MinWord
    <3>1. t[j].word = w[j] /\ t[k].word = w[k] /\ w[j] \in Nat /\ w[k] \in Nat
      BY <1>7
    <3>2. j < k /\ t[j].word = t[k].word => t[j].end <= t[k].start
      <4> SUFFICES ASSUME j < k, w[j] = w[k]
                   PROVE  t[j].end <= t[k].start
        BY <3>1
      <4>1. p[j] < p[k]
        BY <1>8, <3>1
      <4> QED BY <1>10, <4>1, Zenon
    <3>3. t[j].word < t[k].word =>
            \/ t[j].end <= t[k].start
            \/ t[j].word \in Crossing /\ t[j].end < t[k].start + MinWord
      BY <1>11, <3>1
    <3> QED BY <1>9, <3>2, <3>3
  <2> QED BY <2>1, <2>2, <2>3 DEF InOrder, t
<1>17. \A j \in DOMAIN t : t[j].start <= t[j].end
  BY <1>7
<1> QED BY <1>1, <1>2, <1>13, <1>14, <1>15, <1>16, <1>17 DEF SyllablesInv, t

\* t are the syllables of u, perhaps with other lines.
SameTimes(t, u) ==
  /\ t \in Seq(Syllable) \ {<<>>} /\ DOMAIN t = DOMAIN u
  /\ \A j \in DOMAIN t :
       /\ t[j].word = u[j].word /\ t[j].start = u[j].start /\ t[j].end = u[j].end
       /\ t[j].prefix = "" <=> u[j].prefix = ""

\* A line that is marked before words changes nothing else.
LEMMA InjectionKeeps ==
  ASSUME timings \in Seq(Syllable) \ {<<>>}, NEW at, at \subseteq {i \in Later : BeginsWord(i)}
  PROVE  /\ SameTimes(InjectBreaks(at), timings)
         /\ \A i \in DOMAIN timings :
              InjectBreaks(at)[i].prefix = IF i \in at THEN "newline" ELSE timings[i].prefix
<1> DEFINE t == InjectBreaks(at)
           n == Len(timings)
<1>1. n \in Nat \ {0} /\ DOMAIN timings = 1..n
  BY SomeSeq
<1>2. ASSUME NEW i \in 1..n
      PROVE  /\ t[i] \in Syllable /\ t[i].word = timings[i].word
             /\ t[i].start = timings[i].start /\ t[i].end = timings[i].end
             /\ t[i].prefix = IF i \in at THEN "newline" ELSE timings[i].prefix
             /\ t[i].prefix = "" <=> timings[i].prefix = ""
  <2>1. timings[i] \in Syllable
    BY <1>1
  <2>2. CASE i \in at
    <3>1. t[i] = [timings[i] EXCEPT !.prefix = "newline"]
      BY <1>1, <2>2 DEF InjectBreaks
    <3>2. timings[i].prefix = "space"
      BY <2>2 DEF BeginsWord
    <3> HIDE DEF t
    <3> QED BY <2>1, <2>2, <3>1, <3>2 DEF Syllable
  <2>3. CASE i \notin at
    <3>1. t[i] = timings[i]
      BY <1>1, <2>3 DEF InjectBreaks
    <3> HIDE DEF t
    <3> QED BY <2>1, <2>3, <3>1
  <2> QED BY <2>2, <2>3
<1>3. DOMAIN t = 1..n /\ t = [i \in 1..n |-> t[i]]
  BY <1>1 DEF InjectBreaks
<1> HIDE DEF t, n
<1>4. t \in [1..n -> Syllable]
  BY <1>2, <1>3, Zenon
<1>5. t \in Seq(Syllable)
  BY <1>1, <1>4, FunctionIsSeq
<1>6. t # <<>>
  BY <1>1, <1>3
<1>7. SameTimes(t, timings)
  BY <1>1, <1>2, <1>3, <1>5, <1>6 DEF SameTimes
<1> QED BY <1>1, <1>2, <1>7 DEF t

LEMMA BreakLinesMarks ==
  ASSUME timings \in Seq(Syllable) \ {<<>>}, BreakLines
  PROVE  SameTimes(timings', timings)
<1>1. SameTimes(timings, timings)
  BY DEF SameTimes
<1>2. \A floor : GapMode(floor) \subseteq {i \in Later : BeginsWord(i)}
  BY DEF GapMode
<1>3. \A beats : BeatMode(beats) \subseteq {i \in Later : BeginsWord(i)}
  BY DEF BeatMode
<1>4. \/ timings' = timings
      \/ \E floor : timings' = InjectBreaks(GapMode(floor))
      \/ \E beats : timings' = InjectBreaks(BeatMode(beats))
  BY DEF BreakLines
<1>5. \A floor : SameTimes(InjectBreaks(GapMode(floor)), timings)
  BY <1>2, InjectionKeeps
<1>6. \A beats : SameTimes(InjectBreaks(BeatMode(beats)), timings)
  BY <1>3, InjectionKeeps
<1> QED BY <1>1, <1>4, <1>5, <1>6

LEMMA SameTimesKeep ==
  ASSUME SyllablesInv, step \in {"lines", "play"}, step' \in {"lines", "play"},
         words' = words, crossed' = crossed, SameTimes(timings', timings)
  PROVE  SyllablesInv'
<1> DEFINE t == timings'
<1>1. /\ t \in Seq(Syllable) \ {<<>>} /\ DOMAIN t = DOMAIN timings
      /\ \A j \in DOMAIN t :
           /\ t[j].word = timings[j].word /\ t[j].start = timings[j].start /\ t[j].end = timings[j].end
           /\ t[j].prefix = "" <=> timings[j].prefix = ""
  <2>1. SameTimes(t, timings)
    OBVIOUS
  <2> HIDE DEF t
  <2> QED BY <2>1 DEF SameTimes
<1>2. /\ InOrder
      /\ \A j \in DOMAIN timings : timings[j].start <= timings[j].end
      /\ \A j, k \in DOMAIN timings : j < k => timings[j].word <= timings[k].word
      /\ \A j \in DOMAIN timings : timings[j].prefix # "" /\ j > 1 => timings[j - 1].word < timings[j].word
      /\ \A h, k \in DOMAIN timings :
           h <= k /\ (h = 1 \/ timings[h].prefix # "") => timings[h].start <= timings[k].start
  BY DEF SyllablesInv
<1>3. InOrder'
  <2>1. \A i : Letters(i)' = Letters(i)
    <3>1. (\A i : Letters(i) = SumOf(words[i].parts, DOMAIN words[i].parts))'
      BY LettersAreASum, PTL
    <3> QED BY <3>1, LettersAreASum
  <2>2. ASSUME NEW j \in DOMAIN t, NEW k \in DOMAIN t
        PROVE  /\ t[j].start < t[j].end \/ Letters(t[j].word) > Frame
               /\ j < k /\ t[j].word = t[k].word => t[j].end <= t[k].start
               /\ t[j].word < t[k].word =>
                    \/ t[j].end <= t[k].start
                    \/ t[j].word \in crossed' /\ t[j].end < t[k].start + MinWord
    BY <1>1, <1>2 DEF InOrder
  <2> QED BY <2>1, <2>2 DEF InOrder, t
<1> HIDE DEF t
<1>4. \A j \in DOMAIN t : t[j].prefix # "" /\ j > 1 => t[j - 1].word < t[j].word
  <2> DEFINE n == Len(t)
  <2>1. DOMAIN t = 1..n /\ n \in Nat
    BY <1>1, SomeSeq
  <2> HIDE DEF n
  <2>2. \A j \in 1..n : j > 1 => j - 1 \in 1..n
    BY <2>1
  <2> QED BY <1>1, <1>2, <2>1, <2>2
<1>5. \A j, k \in DOMAIN t : j < k => t[j].word <= t[k].word
  BY <1>1, <1>2
<1>6. \A h, k \in DOMAIN t : h <= k /\ (h = 1 \/ t[h].prefix # "") => t[h].start <= t[k].start
  BY <1>1, <1>2
<1>7. \A j \in DOMAIN t : t[j].start <= t[j].end
  BY <1>1, <1>2
<1> QED BY <1>1, <1>3, <1>4, <1>5, <1>6, <1>7 DEF SyllablesInv, t

LEMMA SyllablesStep ==
  ASSUME IInv, WordsInv, SyllablesInv, [Next]_vars
  PROVE  SyllablesInv'
<1>1. ASSUME Trim \/ Align \/ AlignRaises \/ AdjustStarts \/ TrimEnds \/ ExtendEnds
      PROVE  SyllablesInv'
  <2>1. step \notin {"lines", "play"} /\ step' \notin {"lines", "play"} /\ timings' = timings
    BY <1>1 DEF Trim, Align, AlignRaises, AdjustStarts, TrimEnds, ExtendEnds
  <2> QED BY <2>1 DEF SyllablesInv
<1>2. CASE ToSyllables
  BY <1>2, SyllablesFollow
<1>3. CASE BreakLines
  <2>1. step = "lines" /\ step' = "play" /\ words' = words /\ crossed' = crossed
    BY <1>3 DEF BreakLines
  <2>2. timings \in Seq(Syllable) \ {<<>>}
    BY <2>1 DEF SyllablesInv
  <2> QED BY <1>3, <2>1, <2>2, BreakLinesMarks, SameTimesKeep
<1>4. CASE PlayFrame \/ Seek \/ UNCHANGED vars
  <2>1. words' = words /\ timings' = timings /\ crossed' = crossed /\ step' = step
    BY <1>4 DEF PlayFrame, Seek, vars, wordVars
  <2>2. CASE step \in {"lines", "play"}
    <3>1. SameTimes(timings', timings)
      BY <2>1, <2>2 DEF SyllablesInv, SameTimes
    <3> QED BY <2>1, <2>2, <3>1, SameTimesKeep
  <2>3. CASE step \notin {"lines", "play"}
    BY <2>1, <2>3 DEF SyllablesInv
  <2> QED BY <2>2, <2>3
<1> QED BY <1>1, <1>2, <1>3, <1>4 DEF Next, Process

LEMMA SyllablesAlways == Spec => [](IInv /\ WordsInv /\ SyllablesInv)
<1>1. InitLines => SyllablesInv
  BY DEF InitLines, Init, SyllablesInv
<1>2. IInv /\ WordsInv /\ SyllablesInv /\ [Next]_vars => SyllablesInv'
  BY SyllablesStep
<1> QED BY <1>1, <1>2, WordsAlways, PTL DEF Spec

\* The syllables of a song take time and follow one another, in the order of the lyrics;
\* only a word whose corrections cross may last into the next one (_process_word, the two
\* adjustments and the extension of torch_ctc_aligner).
THEOREM SyllablesInOrder == Spec => []InOrder
<1>1. SyllablesInv => InOrder
  <2>1. timings = <<>> => InOrder
    BY DEF InOrder
  <2> QED BY <2>1 DEF SyllablesInv
<1> QED BY <1>1, SyllablesAlways, PTL

-----------------------------------------------------------------------------
(* The lines of the song *)

Count     == Len(timings)
LineCount == Cardinality(Heads)
Before(i) == {h \in Heads : h <= i}
Timed     == timings \in Seq(Syllable) \ {<<>>}

LEMMA Element ==
  ASSUME NEW X, NEW s \in Seq(X) \ {<<>>}, NEW i \in DOMAIN s
  PROVE  s[i] \in X
  OBVIOUS

LEMMA SyllableFacts ==
  ASSUME Timed, NEW i \in DOMAIN timings
  PROVE  /\ timings[i] \in Syllable /\ timings[i].prefix \in {"", "space", "newline"}
         /\ timings[i].start \in Int /\ timings[i].end \in Int /\ timings[i].word \in Nat
<1>1. timings[i] \in Syllable
  BY Element DEF Timed
<1> QED BY <1>1 DEF Syllable

LEMMA HeadFacts ==
  ASSUME Timed
  PROVE  /\ Count \in Nat \ {0} /\ DOMAIN timings = 1..Count
         /\ Heads \subseteq 1..Count /\ 1 \in Heads /\ IsFiniteSet(Heads)
         /\ LineCount \in Nat /\ Lines = 1..LineCount
<1>1. Count \in Nat \ {0} /\ DOMAIN timings = 1..Count
  BY SomeSeq DEF Timed, Count
<1>2. Heads \subseteq 1..Count /\ 1 \in Heads
  <2>1. Later \subseteq 1..Count
    BY <1>1 DEF Later, Count
  <2>2. 1 \in 1..Count
    BY <1>1
  <2> QED BY <2>1, <2>2, Zenon DEF Heads
<1>3. IsFiniteSet(1..Count)
  BY <1>1, FS_Interval
<1>4. IsFiniteSet(Heads)
  BY <1>2, <1>3, FS_Subset
<1>5. LineCount \in Nat
  BY <1>4, FS_CardinalityType DEF LineCount
<1> QED BY <1>1, <1>2, <1>4, <1>5 DEF Lines, LineCount

\* Each head begins the next line.
LEMMA LineSteps ==
  ASSUME Timed
  PROVE  /\ \A i \in 1..Count : LineOf(i) \in 1..LineCount
         /\ LineOf(1) = 1 /\ LineOf(Count) = LineCount
         /\ \A i \in 2..Count : LineOf(i) = IF i \in Heads THEN LineOf(i - 1) + 1 ELSE LineOf(i - 1)
<1>1. /\ Count \in Nat \ {0} /\ Heads \subseteq 1..Count /\ 1 \in Heads /\ IsFiniteSet(Heads)
      /\ LineCount \in Nat
  BY HeadFacts
<1>2. \A i : LineOf(i) = Cardinality(Before(i)) /\ Before(i) \subseteq Heads
  BY DEF LineOf, Before
<1>7. \A i, h : h \in Before(i) <=> h \in Heads /\ h <= i
  BY Zenon DEF Before
<1>8. \A h \in Heads : h \in Int /\ 1 <= h /\ h <= Count
  BY <1>1
<1>3. ASSUME NEW i \in 1..Count
      PROVE  IsFiniteSet(Before(i)) /\ LineOf(i) \in 1..LineCount
  <2>1. IsFiniteSet(Before(i)) /\ Cardinality(Before(i)) <= LineCount
    BY <1>1, <1>2, FS_Subset DEF LineCount
  <2>2. Cardinality(Before(i)) \in Nat
    BY <2>1, FS_CardinalityType
  <2>3. 1 \in Before(i)
    BY <1>1 DEF Before
  <2>4. Cardinality(Before(i)) # 0
    BY <2>1, <2>3, FS_EmptySet
  <2> QED BY <1>1, <1>2, <2>1, <2>2, <2>4
<1>4. LineOf(1) = 1
  <2>1. \A h \in Heads : h <= 1 <=> h = 1
    BY <1>8
  <2>2. Before(1) = {1}
    BY <1>1, <2>1, Zenon DEF Before
  <2> QED BY <1>2, <2>2, FS_Singleton
<1>5. LineOf(Count) = LineCount
  <2>1. \A h : h \in Before(Count) <=> h \in Heads
    BY <1>7, <1>8
  <2>2. Before(Count) = Heads
    BY <2>1, Zenon
  <2> QED BY <1>2, <2>2 DEF LineCount
<1>6. ASSUME NEW i \in 2..Count
      PROVE  LineOf(i) = IF i \in Heads THEN LineOf(i - 1) + 1 ELSE LineOf(i - 1)
  <2>1. i - 1 \in 1..Count /\ i \in 1..Count
    BY <1>1
  <2>2. CASE i \in Heads
    <3>3. /\ \A h \in Heads : h <= i <=> h <= i - 1 \/ h = i
          /\ ~(i <= i - 1)
      BY <1>8, <2>1
    <3>1. Before(i) = Before(i - 1) \cup {i} /\ i \notin Before(i - 1)
      BY <2>2, <3>3, Zenon DEF Before
    <3>2. Cardinality(Before(i)) = Cardinality(Before(i - 1)) + 1
      BY <1>3, <2>1, <3>1, FS_AddElement
    <3> QED BY <1>2, <2>2, <3>2
  <2>3. CASE i \notin Heads
    <3>2. \A h : h \in Before(i) <=> h \in Before(i - 1)
      BY <1>7, <1>8, <2>1, <2>3
    <3>1. Before(i) = Before(i - 1)
      BY <3>2, Zenon DEF Before
    <3> QED BY <1>2, <2>3, <3>1
  <2> QED BY <2>2, <2>3
<1> QED BY <1>3, <1>4, <1>5, <1>6

LEMMA LinesIncrease ==
  ASSUME Timed, NEW i \in 1..Count, NEW k \in 1..Count, i <= k
  PROVE  LineOf(i) <= LineOf(k)
<1>1. /\ Count \in Nat \ {0} /\ Heads \subseteq 1..Count /\ IsFiniteSet(Heads)
  BY HeadFacts
<1>2. IsFiniteSet(Before(k)) /\ Before(i) \subseteq Before(k)
  <2>1. Before(k) \subseteq Heads
    BY DEF Before
  <2>3. \A h \in Heads : h <= i => h <= k
    <3>1. Heads \subseteq Int
      BY <1>1
    <3> QED BY <3>1
  <2>2. Before(i) \subseteq Before(k)
    BY <2>3, Zenon DEF Before
  <2> QED BY <1>1, <2>1, <2>2, FS_Subset
<1> QED BY <1>2, FS_Subset DEF LineOf, Before

\* A line has a first and a last syllable, and the first is a head.
FirstOf(l) == Min({i \in DOMAIN timings : LineOf(i) = l})
LastOf(l)  == Max({i \in DOMAIN timings : LineOf(i) = l})

LEMMA LineEnds ==
  ASSUME Timed, NEW l \in Lines
  PROVE  /\ FirstOf(l) \in 1..Count /\ LastOf(l) \in 1..Count
         /\ LineOf(FirstOf(l)) = l /\ LineOf(LastOf(l)) = l /\ FirstOf(l) \in Heads
         /\ \A i \in 1..Count : LineOf(i) = l => FirstOf(l) <= i /\ i <= LastOf(l)
<1> DEFINE S == {i \in DOMAIN timings : LineOf(i) = l}
           T == {i \in 1..Count : l <= LineOf(i)}
<1>1. /\ Count \in Nat \ {0} /\ DOMAIN timings = 1..Count /\ LineCount \in Nat /\ l \in 1..LineCount
  BY HeadFacts
<1>2. /\ \A i \in 1..Count : LineOf(i) \in 1..LineCount
      /\ LineOf(1) = 1 /\ LineOf(Count) = LineCount
      /\ \A i \in 2..Count : LineOf(i) = IF i \in Heads THEN LineOf(i - 1) + 1 ELSE LineOf(i - 1)
  BY LineSteps
<1>3. T \subseteq Nat /\ T # {}
  <2>1. Count \in T
    BY <1>1, <1>2
  <2> QED BY <1>1, <2>1
<1>4. PICK m \in T : \A x \in T : m <= x
  BY <1>3, LeastNatural
<1>5. m \in 1..Count /\ LineOf(m) = l /\ m \in Heads
  <2>1. m \in 1..Count /\ l <= LineOf(m)
    BY <1>4
  <2>2. CASE m = 1
    BY <1>1, <1>2, <2>1, <2>2, HeadFacts
  <2>3. CASE m # 1
    <3>1. m \in 2..Count /\ m - 1 \in 1..Count /\ ~(m <= m - 1)
      BY <1>1, <2>1, <2>3
    <3>2. ~(l <= LineOf(m - 1))
      BY <1>4, <3>1
    <3>3. LineOf(m) = IF m \in Heads THEN LineOf(m - 1) + 1 ELSE LineOf(m - 1)
      BY <1>2, <3>1
    <3>4. LineOf(m - 1) \in Int /\ LineOf(m) \in Int
      BY <1>2, <2>1, <3>1
    <3> QED BY <1>1, <2>1, <3>2, <3>3, <3>4
  <2> QED BY <2>2, <2>3
<1>6. S \subseteq T /\ m \in S /\ S \subseteq Nat /\ S # {} /\ \A x \in S : x <= Count
  BY <1>1, <1>5
<1>7. FirstOf(l) = CHOOSE x \in S : \A y \in S : x <= y
  BY DEF FirstOf, Min
<1>8. LastOf(l) = CHOOSE x \in S : \A y \in S : x >= y
  BY DEF LastOf, Max
<1> HIDE DEF S, T
<1>9. FirstOf(l) \in S /\ \A y \in S : FirstOf(l) <= y
  <2>1. m \in S /\ \A y \in S : m <= y
    BY <1>4, <1>6
  <2> QED BY <1>7, <2>1
<1>10. FirstOf(l) = m
  <2>1. FirstOf(l) <= m /\ m <= FirstOf(l)
    BY <1>4, <1>6, <1>9
  <2>2. FirstOf(l) \in Nat /\ m \in Nat
    BY <1>6, <1>9
  <2> QED BY <2>1, <2>2
<1>11. LastOf(l) \in S /\ \A y \in S : y <= LastOf(l)
  <2>1. PICK x \in S : \A y \in S : y <= x
    BY <1>1, <1>6, GreatestNatural
  <2>2. \A y \in S : x >= y
    BY <1>6, <2>1
  <2>3. LastOf(l) \in S /\ \A y \in S : LastOf(l) >= y
    BY <1>8, <2>1, <2>2
  <2> QED BY <1>6, <2>3
<1>12. \A i : i \in S <=> i \in 1..Count /\ LineOf(i) = l
  BY <1>1 DEF S
<1> QED BY <1>5, <1>9, <1>10, <1>11, <1>12

-----------------------------------------------------------------------------
(* The line the player shows *)

InSong == step \in {"lines", "play"} /\ SyllablesInv

LEMMA LinesInTime ==
  ASSUME InSong
  PROVE  /\ Timed
         /\ \A l \in Lines : /\ StartOf(l) = timings[FirstOf(l)].start /\ StartOf(l) \in Int
                             /\ EndOf(l) = timings[LastOf(l)].end /\ EndOf(l) \in Int
         /\ \A l \in Lines : \A k \in 1..Count : FirstOf(l) <= k => StartOf(l) <= timings[k].start
         /\ \A l, m \in Lines : l <= m => StartOf(l) <= StartOf(m)
         /\ \A l, m \in Lines : l < m => \A i, k \in 1..Count : LineOf(i) = l /\ LineOf(k) = m => i < k
<1>1. /\ Timed
      /\ \A h, k \in DOMAIN timings :
           h <= k /\ (h = 1 \/ timings[h].prefix # "") => timings[h].start <= timings[k].start
  BY DEF InSong, SyllablesInv, Timed
<1>2. /\ Count \in Nat \ {0} /\ DOMAIN timings = 1..Count /\ LineCount \in Nat /\ Lines = 1..LineCount
  BY <1>1, HeadFacts
<1>3. \A i \in 1..Count : timings[i].start \in Int /\ timings[i].end \in Int
  BY <1>1, <1>2, SyllableFacts
<1>4. \A l \in Lines : /\ FirstOf(l) \in 1..Count /\ LastOf(l) \in 1..Count
                       /\ LineOf(FirstOf(l)) = l /\ FirstOf(l) \in Heads
  BY <1>1, LineEnds
<1>5. \A l : StartOf(l) = timings[FirstOf(l)].start /\ EndOf(l) = timings[LastOf(l)].end
  BY DEF StartOf, EndOf, FirstOf, LastOf
<1>6. \A h \in Heads : h = 1 \/ timings[h].prefix # ""
  BY DEF Heads
<1>7. ASSUME NEW l \in Lines, NEW k \in 1..Count, FirstOf(l) <= k
      PROVE  StartOf(l) <= timings[k].start
  BY <1>1, <1>2, <1>4, <1>5, <1>6, <1>7
<1>8. ASSUME NEW l \in Lines, NEW m \in Lines, l < m, NEW i \in 1..Count, NEW k \in 1..Count,
             LineOf(i) = l, LineOf(k) = m
      PROVE  i < k
  <2>1. l \in Int /\ m \in Int /\ i \in Int /\ k \in Int
    BY <1>2
  <2>2. k <= i => LineOf(k) <= LineOf(i)
    BY <1>1, LinesIncrease
  <2> QED BY <1>8, <2>1, <2>2
<1>9. ASSUME NEW l \in Lines, NEW m \in Lines, l <= m
      PROVE  StartOf(l) <= StartOf(m)
  <2>1. FirstOf(l) <= FirstOf(m)
    <3>1. FirstOf(l) \in Int /\ FirstOf(m) \in Int /\ l \in Int /\ m \in Int
      BY <1>2, <1>4
    <3>2. l < m => FirstOf(l) < FirstOf(m)
      BY <1>4, <1>8
    <3> QED BY <1>9, <3>1, <3>2
  <2> QED BY <1>4, <1>5, <1>7, <2>1
<1> QED BY <1>1, <1>3, <1>4, <1>5, <1>7, <1>8, <1>9

\* Line l is the last to have begun at time t, or none has.
Leads(l, t) ==
  /\ l \in Lines
  /\ StartOf(l) <= t \/ (l = 1 /\ ~(StartOf(l) <= t))
  /\ \A m \in Lines : StartOf(m) <= t => m <= l

LEMMA ActiveLineIs ==
  ASSUME InSong, NEW t \in Int
  PROVE  \E l \in Lines :
           /\ Leads(l, t)
           /\ ActiveLine(t) = IF l < LineCount /\ StartOf(l) <= t /\ t > EndOf(l) THEN l + 1 ELSE l
<1> DEFINE begun == {l \in Lines : \A m \in 1..l : StartOf(m) <= t}
           last == IF begun = {} THEN 1 ELSE Max(begun)
<1>1. /\ \A l \in Lines : StartOf(l) \in Int
      /\ \A l, m \in Lines : l <= m => StartOf(l) <= StartOf(m)
      /\ Timed
  BY LinesInTime
<1>2. LineCount \in Nat \ {0} /\ Lines = 1..LineCount
  <2>1. LineCount \in Nat /\ Lines = 1..LineCount /\ 1 \in 1..Count
    BY <1>1, HeadFacts
  <2>2. LineOf(1) \in 1..LineCount
    BY <1>1, <2>1, LineSteps
  <2> QED BY <2>1, <2>2
<1>3. \A l \in Lines : l \in begun <=> StartOf(l) <= t
  <2> SUFFICES ASSUME NEW l \in Lines PROVE l \in begun <=> StartOf(l) <= t
    OBVIOUS
  <2>1. \A m \in 1..l : m \in Lines /\ m <= l
    BY <1>2
  <2>2. l \in 1..l
    BY <1>2
  <2>3. ASSUME StartOf(l) <= t, NEW m \in 1..l
        PROVE  StartOf(m) <= t
    <3>1. StartOf(m) <= StartOf(l) /\ StartOf(m) \in Int /\ StartOf(l) \in Int
      BY <1>1, <2>1
    <3> QED BY <2>3, <3>1
  <2> QED BY <2>2, <2>3
<1>4. begun \subseteq 1..LineCount
  BY <1>2
<1>5. Max(Lines) = LineCount
  <2>1. Max(Lines) = CHOOSE x \in Lines : \A y \in Lines : x >= y
    BY DEF Max
  <2>2. LineCount \in Lines /\ \A y \in Lines : LineCount >= y
    BY <1>2
  <2>3. Max(Lines) \in Lines /\ \A y \in Lines : Max(Lines) >= y
    BY <2>1, <2>2
  <2>4. Max(Lines) >= LineCount /\ LineCount >= Max(Lines) /\ Max(Lines) \in Int
    BY <1>2, <2>2, <2>3
  <2> QED BY <1>2, <2>4
<1>6. ActiveLine(t) = IF last < LineCount /\ begun # {} /\ t > EndOf(last) THEN last + 1 ELSE last
  BY <1>5 DEF ActiveLine
<1> HIDE DEF begun
<1>7. CASE begun = {}
  <2>1. last = 1 /\ 1 \in Lines
    BY <1>2, <1>7
  <2>2. ~(StartOf(1) <= t) /\ \A m \in Lines : ~(StartOf(m) <= t)
    BY <1>3, <1>7, <2>1
  <2>3. ActiveLine(t) = 1
    BY <1>6, <1>7
  <2> QED BY <2>1, <2>2, <2>3 DEF Leads
<1>8. CASE begun # {}
  <2>1. last = Max(begun)
    BY <1>8
  <2>2. Max(begun) \in begun /\ \A y \in begun : Max(begun) >= y
    <3>1. PICK x \in begun : \A y \in begun : y <= x
      <4>1. begun \subseteq Nat /\ \A x \in begun : x <= LineCount
        BY <1>2, <1>4
      <4> QED BY <1>2, <1>8, <4>1, GreatestNatural
    <3>2. \A y \in begun : x >= y
      BY <1>4, <3>1
    <3> QED BY <3>1, <3>2 DEF Max
  <2> HIDE DEF last
  <2>3. last \in Lines /\ last \in begun /\ \A y \in begun : y <= last
    BY <1>2, <1>4, <2>1, <2>2
  <2>4. StartOf(last) <= t /\ \A m \in Lines : StartOf(m) <= t => m <= last
    BY <1>3, <2>3
  <2>5. ActiveLine(t) = IF last < LineCount /\ begun # {} /\ t > EndOf(last) THEN last + 1 ELSE last
    BY <1>6 DEF last
  <2> QED BY <1>8, <2>3, <2>4, <2>5 DEF Leads
<1> QED BY <1>7, <1>8

\* A later time never shows an earlier line.
LEMMA ActiveLineGrows ==
  ASSUME InSong, NEW t \in Int, NEW u \in Int, t <= u
  PROVE  ActiveLine(t) <= ActiveLine(u) /\ ActiveLine(t) \in Nat \ {0}
<1>1. PICK a \in Lines :
        /\ Leads(a, t)
        /\ ActiveLine(t) = IF a < LineCount /\ StartOf(a) <= t /\ t > EndOf(a) THEN a + 1 ELSE a
  BY ActiveLineIs
<1>2. PICK b \in Lines :
        /\ Leads(b, u)
        /\ ActiveLine(u) = IF b < LineCount /\ StartOf(b) <= u /\ u > EndOf(b) THEN b + 1 ELSE b
  BY ActiveLineIs
<1>3. a \in Nat \ {0} /\ b \in Nat \ {0} /\ LineCount \in Nat
  <2>1. LineCount \in Nat /\ Lines = 1..LineCount
    BY LinesInTime, HeadFacts
  <2> QED BY <2>1
<1>4. StartOf(a) \in Int /\ EndOf(a) \in Int
  BY LinesInTime
<1>5. a <= b
  <2>1. CASE StartOf(a) <= t
    <3>1. StartOf(a) <= u
      BY <1>4, <2>1
    <3> QED BY <1>2, <3>1 DEF Leads
  <2>2. CASE ~(StartOf(a) <= t)
    BY <1>1, <1>3, <2>2 DEF Leads
  <2> QED BY <2>1, <2>2
<1>6. CASE a = b
  BY <1>1, <1>2, <1>3, <1>4, <1>6
<1>7. CASE a < b
  BY <1>1, <1>2, <1>3, <1>7
<1> QED BY <1>1, <1>3, <1>5, <1>6, <1>7

\* The line of a syllable that sounds leads, and is not over, unless a later word has
\* begun.
LEMMA SungLeads ==
  ASSUME InSong, clock \in Int, NEW i \in DOMAIN timings, Sung(i), ~Overtaken(i)
  PROVE  /\ LineOf(i) \in Lines /\ Leads(LineOf(i), clock) /\ StartOf(LineOf(i)) <= clock
         /\ clock < EndOf(LineOf(i))
         /\ \A m \in Lines : LineOf(i) < m => clock < StartOf(m)
<1> DEFINE l == LineOf(i)
<1>1. /\ Timed /\ InOrder
      /\ \A j \in DOMAIN timings : timings[j].start <= timings[j].end
      /\ \A j, k \in DOMAIN timings : j < k => timings[j].word <= timings[k].word
      /\ \A j \in DOMAIN timings : timings[j].prefix # "" /\ j > 1 => timings[j - 1].word < timings[j].word
  BY DEF InSong, SyllablesInv, Timed
<1>2. /\ Count \in Nat \ {0} /\ DOMAIN timings = 1..Count /\ LineCount \in Nat /\ Lines = 1..LineCount
  BY <1>1, HeadFacts
<1>3. ASSUME NEW j \in 1..Count
      PROVE  timings[j].start \in Int /\ timings[j].end \in Int /\ timings[j].word \in Nat
  BY <1>1, <1>2, SyllableFacts
<1>4. i \in 1..Count /\ l \in Lines /\ timings[i].start <= clock /\ clock < timings[i].end
  BY <1>1, <1>2, LineSteps DEF Sung
<1>5. ASSUME NEW k \in 1..Count, timings[i].word < timings[k].word
      PROVE  clock < timings[k].start
  <2>1. CASE timings[i].word \in crossed
    <3>1. k \in DOMAIN timings /\ timings[k].word > timings[i].word
      BY <1>2, <1>3, <1>4, <1>5
    <3>2. ~(timings[k].start <= clock)
      BY <2>1, <3>1 DEF Overtaken
    <3> QED BY <1>3, <3>2
  <2>2. CASE timings[i].word \notin crossed
    <3>1. timings[i].end <= timings[k].start
      BY <1>1, <1>2, <1>4, <1>5, <2>2 DEF InOrder
    <3> QED BY <1>3, <1>4, <3>1
  <2> QED BY <2>1, <2>2
<1> HIDE DEF l
<1>6. /\ \A m \in Lines : /\ StartOf(m) = timings[FirstOf(m)].start /\ StartOf(m) \in Int
                          /\ EndOf(m) = timings[LastOf(m)].end /\ EndOf(m) \in Int
      /\ \A m \in Lines : \A k \in 1..Count : FirstOf(m) <= k => StartOf(m) <= timings[k].start
      /\ \A m, q \in Lines : m < q => \A j, k \in 1..Count : LineOf(j) = m /\ LineOf(k) = q => j < k
  BY LinesInTime
<1>7. \A m \in Lines : /\ FirstOf(m) \in 1..Count /\ LastOf(m) \in 1..Count
                       /\ LineOf(FirstOf(m)) = m /\ LineOf(LastOf(m)) = m /\ FirstOf(m) \in Heads
                       /\ \A j \in 1..Count : LineOf(j) = m => FirstOf(m) <= j /\ j <= LastOf(m)
  BY <1>1, LineEnds
<1>8. LineOf(i) = l
  BY DEF l
<1>9. StartOf(l) <= clock
  <2>1. StartOf(l) <= timings[i].start
    BY <1>4, <1>6, <1>7, <1>8
  <2> QED BY <1>3, <1>4, <1>6, <2>1
<1>10. ASSUME NEW m \in Lines, l < m
       PROVE  clock < StartOf(m)
  <2> DEFINE f == FirstOf(m)
  <2>1. f \in 1..Count /\ i < f /\ f \in Heads /\ StartOf(m) = timings[f].start
    BY <1>4, <1>6, <1>7, <1>8, <1>10
  <2> HIDE DEF f
  <2>2. f - 1 \in 1..Count /\ f \in 1..Count /\ f > 1 /\ (i = f - 1 \/ i < f - 1)
    BY <1>2, <1>4, <2>1
  <2>3. timings[f].prefix # ""
    <3>1. f # 1
      BY <2>2
    <3> QED BY <2>1, <3>1, Zenon DEF Heads
  <2>4. timings[f - 1].word < timings[f].word
    BY <1>1, <1>2, <2>2, <2>3
  <2>5. timings[i].word <= timings[f - 1].word
    <3>1. timings[i].word \in Nat /\ timings[f - 1].word \in Nat
      BY <1>3, <1>4, <2>2
    <3>2. i < f - 1 => timings[i].word <= timings[f - 1].word
      BY <1>1, <1>2, <1>4, <2>2
    <3> QED BY <2>2, <3>1, <3>2
  <2>6. timings[i].word < timings[f].word
    BY <1>3, <1>4, <2>2, <2>4, <2>5
  <2>7. clock < timings[f].start
    BY <1>5, <2>1, <2>6
  <2> QED BY <2>1, <2>7
<1>11. clock < EndOf(l)
  <2> DEFINE k == LastOf(l)
  <2>1. k \in 1..Count /\ i <= k /\ EndOf(l) = timings[k].end
    BY <1>4, <1>6, <1>7, <1>8
  <2> HIDE DEF k
  <2>2. timings[k].start <= timings[k].end
    BY <1>1, <1>2, <2>1
  <2>3. CASE i = k
    BY <1>4, <2>1, <2>3
  <2>4. CASE i < k
    <3>1. timings[i].word <= timings[k].word
      BY <1>1, <1>2, <1>4, <2>1, <2>4
    <3>2. timings[i].word < timings[k].word \/ timings[i].word = timings[k].word
      BY <1>3, <1>4, <2>1, <3>1
    <3>3. timings[i].word = timings[k].word => timings[i].end <= timings[k].start
      BY <1>1, <1>2, <1>4, <2>1, <2>4 DEF InOrder
    <3>4. clock < timings[k].start
      BY <1>3, <1>4, <1>5, <2>1, <3>2, <3>3
    <3> QED BY <1>3, <2>1, <2>2, <3>4
  <2>5. i = k \/ i < k
    BY <1>4, <2>1
  <2> QED BY <2>3, <2>4, <2>5
<1>12. Leads(l, clock)
  <2>1. ASSUME NEW m \in Lines, StartOf(m) <= clock
        PROVE  m <= l
    <3>1. ~(l < m)
      <4>1. l < m => clock < StartOf(m)
        BY <1>10
      <4>2. StartOf(m) \in Int
        BY <1>6
      <4> QED BY <2>1, <4>1, <4>2
    <3>2. l \in Int /\ m \in Int
      BY <1>2, <1>4
    <3> QED BY <3>1, <3>2
  <2> QED BY <1>4, <1>9, <2>1 DEF Leads
<1> QED BY <1>4, <1>9, <1>10, <1>11, <1>12 DEF l

LEMMA SungIsShown ==
  ASSUME InSong, clock \in Int, NEW i \in DOMAIN timings, Sung(i), ~Overtaken(i)
  PROVE  LineOf(i) = ActiveLine(clock) /\ ~Countdown(clock)
<1> DEFINE l == LineOf(i)
<1>1. /\ l \in Lines /\ Leads(l, clock) /\ StartOf(l) <= clock
      /\ clock < EndOf(l)
      /\ \A m \in Lines : l < m => clock < StartOf(m)
  BY SungLeads
<1>2. PICK a \in Lines :
        /\ Leads(a, clock)
        /\ ActiveLine(clock) = IF a < LineCount /\ StartOf(a) <= clock /\ clock > EndOf(a) THEN a + 1 ELSE a
  BY ActiveLineIs
<1> HIDE DEF l
<1>3. LineCount \in Nat /\ Lines = 1..LineCount
  BY LinesInTime, HeadFacts
<1>4. /\ \A m \in Lines : StartOf(m) \in Int /\ EndOf(m) \in Int
      /\ \A m, q \in Lines : m <= q => StartOf(m) <= StartOf(q)
  BY LinesInTime
<1>5. a = l
  <2>1. l <= a
    BY <1>1, <1>2 DEF Leads
  <2>2. a <= l
    <3>1. CASE StartOf(a) <= clock
      BY <1>1, <1>2, <3>1 DEF Leads
    <3>2. CASE a = 1
      BY <1>1, <1>3, <3>2
    <3> QED BY <1>2, <3>1, <3>2 DEF Leads
  <2> QED BY <1>1, <1>2, <1>3, <2>1, <2>2
<1>6. ActiveLine(clock) = l
  <2>1. ~(clock > EndOf(l))
    BY <1>1, <1>4
  <2> QED BY <1>2, <1>5, <2>1
<1>7. ~(clock < StartOf(1))
  <2>1. 1 \in Lines /\ 1 <= l
    BY <1>1, <1>3
  <2>2. StartOf(1) <= StartOf(l) /\ StartOf(1) \in Int /\ StartOf(l) \in Int
    BY <1>1, <1>4, <2>1
  <2> QED BY <1>1, <2>2
<1>8. ASSUME NEW m \in Lines \ {Max(Lines)}, EndOf(m) <= clock, clock < StartOf(m + 1)
      PROVE  FALSE
  <2>1. m \in Lines /\ m + 1 \in Lines
    <3>1. LineCount \in Lines /\ \A y \in Lines : LineCount >= y
      BY <1>1, <1>3
    <3>2. m # LineCount
      <4>1. Max(Lines) = CHOOSE x \in Lines : \A y \in Lines : x >= y
        BY DEF Max
      <4>2. Max(Lines) \in Lines /\ \A y \in Lines : Max(Lines) >= y
        BY <3>1, <4>1
      <4>3. Max(Lines) >= LineCount /\ LineCount >= Max(Lines) /\ Max(Lines) \in Int
        BY <1>3, <3>1, <4>2
      <4>4. Max(Lines) = LineCount
        BY <1>3, <4>3
      <4> QED BY <4>4
    <3> QED BY <1>3, <3>2
  <2>2. m < l \/ m = l \/ l < m
    BY <1>1, <1>3, <2>1
  <2>3. CASE m < l
    <3>1. m + 1 <= l
      BY <1>1, <1>3, <2>1, <2>3
    <3>2. StartOf(m + 1) <= StartOf(l) /\ StartOf(m + 1) \in Int /\ StartOf(l) \in Int
      BY <1>1, <1>4, <2>1, <3>1
    <3> QED BY <1>1, <1>8, <3>2
  <2>4. CASE m = l
    BY <1>1, <1>4, <1>8, <2>4
  <2>5. CASE l < m
    <3>1. clock < StartOf(m)
      BY <1>1, <2>1, <2>5
    <3>2. StartOf(m) <= EndOf(m)
      <4>1. /\ LastOf(m) \in 1..Count /\ FirstOf(m) <= LastOf(m) /\ EndOf(m) = timings[LastOf(m)].end
            /\ StartOf(m) <= timings[LastOf(m)].start
        BY <2>1, LinesInTime, LineEnds
      <4>2. timings[LastOf(m)].start \in Int /\ timings[LastOf(m)].start <= timings[LastOf(m)].end
        <5>1. LastOf(m) \in DOMAIN timings /\ Timed
          BY <4>1, LinesInTime, HeadFacts
        <5> QED BY <5>1, SyllableFacts DEF InSong, SyllablesInv
      <4> QED BY <1>4, <2>1, <4>1, <4>2
    <3> QED BY <1>4, <1>8, <2>1, <3>1, <3>2
  <2> QED BY <2>2, <2>3, <2>4, <2>5
<1> QED BY <1>6, <1>7, <1>8 DEF Countdown, l

-----------------------------------------------------------------------------
(* The player *)

\* What the player shows is the line of the time it has reached.
PlayInv ==
  /\ clock \in Int /\ shown \in Nat
  /\ shown # 0 => step = "play" /\ shown = ActiveLine(clock)

LEMMA LinesStay ==
  ASSUME timings' = timings
  PROVE  \A t : ActiveLine(t)' = ActiveLine(t)
<1>1. Heads' = Heads
  BY DEF Heads, Later
<1>2. Lines' = Lines /\ \A i : LineOf(i)' = LineOf(i)
  BY <1>1 DEF Lines, LineOf
<1>3. \A l : {i \in DOMAIN timings' : LineOf(i)' = l} = {i \in DOMAIN timings : LineOf(i) = l}
  BY <1>2
<1>4. \A l : StartOf(l)' = StartOf(l) /\ EndOf(l)' = EndOf(l)
  BY <1>3 DEF StartOf, EndOf
<1>5. \A t : {l \in Lines' : \A m \in 1..l : StartOf(m)' <= t} = {l \in Lines : \A m \in 1..l : StartOf(m) <= t}
  BY <1>2, <1>4
<1>6. Max(Lines') = Max(Lines)
  BY <1>2
<1> QED BY <1>4, <1>5, <1>6 DEF ActiveLine

LEMMA PlayStep ==
  ASSUME SyllablesInv, PlayInv, [Next]_vars
  PROVE  /\ PlayInv'
         /\ clock < clock' /\ ~seeking' => shown <= shown'
<1>1. CASE PlayFrame \/ Seek
  <2>1. /\ step = "play" /\ step' = step /\ timings' = timings /\ clock' \in Clock
        /\ shown' = ActiveLine(clock')
    BY <1>1 DEF PlayFrame, Seek, wordVars
  <2>2. clock' \in Int /\ InSong
    BY <2>1, PlayerAssumption DEF InSong
  <2>3. ActiveLine(clock)' = ActiveLine(clock')
    BY <2>1, LinesStay
  <2>4. ActiveLine(clock') \in Nat \ {0}
    BY <2>2, ActiveLineGrows
  <2>5. ASSUME clock < clock' PROVE shown <= shown'
    <3>1. shown # 0 => shown <= ActiveLine(clock')
      <4>1. clock \in Int /\ clock <= clock'
        BY <2>2, <2>5 DEF PlayInv
      <4>2. ActiveLine(clock) <= ActiveLine(clock')
        BY <2>2, <4>1, ActiveLineGrows
      <4> QED BY <4>2 DEF PlayInv
    <3> QED BY <2>1, <2>4, <3>1
  <2> QED BY <2>1, <2>2, <2>3, <2>4, <2>5 DEF PlayInv
<1>2. ASSUME ~(PlayFrame \/ Seek) PROVE clock' = clock /\ shown' = shown
  <2>1. CASE BreakLines
    BY <2>1 DEF BreakLines
  <2>2. CASE UNCHANGED lineVars
    BY <2>2 DEF lineVars
  <2>3. CASE UNCHANGED vars
    BY <2>3 DEF vars, lineVars
  <2> QED BY <1>2, <2>1, <2>2, <2>3 DEF Next
<1>3. ASSUME ~(PlayFrame \/ Seek) PROVE PlayInv'
  <2>1. CASE shown = 0
    BY <1>2, <1>3, <2>1 DEF PlayInv
  <2>2. CASE shown # 0
    <3>1. step = "play"
      BY <2>2 DEF PlayInv
    <3>2. step' = step /\ timings' = timings
      BY <1>3, <3>1 DEF Next, Process, Trim, Align, AlignRaises, AdjustStarts, TrimEnds, ExtendEnds,
                        ToSyllables, BreakLines, vars, wordVars
    <3>3. ActiveLine(clock)' = ActiveLine(clock)
      BY <1>2, <1>3, <3>2, LinesStay
    <3> QED BY <1>2, <1>3, <3>1, <3>2, <3>3 DEF PlayInv
  <2> QED BY <2>1, <2>2
<1>4. ASSUME ~(PlayFrame \/ Seek) PROVE ~(clock < clock')
  BY <1>2, <1>4 DEF PlayInv
<1> QED BY <1>1, <1>3, <1>4

LEMMA PlayAlways == Spec => [](SyllablesInv /\ PlayInv)
<1>1. InitLines => PlayInv
  BY DEF InitLines, Init, PlayInv
<1>2. SyllablesInv /\ PlayInv /\ [Next]_vars => PlayInv'
  BY PlayStep
<1> QED BY <1>1, <1>2, SyllablesAlways, PTL DEF Spec

\* While the song plays the lines scroll only forward: the line that findActiveLineIndex
\* chooses grows with the time.
THEOREM LinesScrollForward == Spec => LinesGoForward
<1>1. SyllablesInv /\ PlayInv /\ [Next]_vars => [clock < clock' /\ ~seeking' => shown <= shown']_vars
  BY PlayStep
<1> QED BY <1>1, PlayAlways, PTL DEF Spec, LinesGoForward

\* Whatever sounds is on the line that is shown, and no countdown covers it, except a crossed
\* word that still sounds when a later word has begun: the line breaker and the player agree
\* on where a line is over (findActiveLineIndex, the countdown gaps of LyricHighlight).
THEOREM SingersSee == Spec => []SingersSeeTheirLine
<1>1. SyllablesInv /\ PlayInv => SingersSeeTheirLine
  <2> SUFFICES ASSUME SyllablesInv, PlayInv, shown # 0, NEW i \in DOMAIN timings, Sung(i), ~Overtaken(i)
               PROVE  LineOf(i) = shown /\ ~Countdown(clock)
    BY DEF SingersSeeTheirLine
  <2>1. InSong /\ clock \in Int /\ shown = ActiveLine(clock)
    BY DEF PlayInv, InSong
  <2> QED BY <2>1, SungIsShown
<1> QED BY <1>1, PlayAlways, PTL

-----------------------------------------------------------------------------
(* The length of a line *)

\* Which of the syllables of its word syllable i is.
PartOf(t, i) == Cardinality({j \in 1..i : t[j].word = t[i].word})

\* No word has more syllables than it has parts, so each syllable has a length.
LEMMA CharsKnown ==
  ASSUME IInv, WordsInv, ToSyllables
  PROVE  \A i \in DOMAIN timings' : Chars'[i] \in Int
<1> DEFINE t == timings'
           n(i) == Len(words[i].parts)
<1>1. words' = words /\ words \in Lyrics /\ DOMAIN spans = DOMAIN words
  BY DEF ToSyllables, WordsInv
<1>2. t \in Seq(Syllable) \ {<<>>} /\ \E w, p : Placed(t, w, p)
  BY SyllablePlaces
<1>3. \A i \in DOMAIN t : Chars'[i] = words[t[i].word].parts[PartOf(t, i)]
                                     + IF t[i].prefix = "" THEN 0 ELSE 1
  BY <1>1 DEF Chars, PartOf
<1> HIDE DEF t
<1>4. DOMAIN t = 1..Len(t) /\ Len(t) \in Nat
  BY <1>2, SomeSeq
<1>5. PICK w, p : Placed(t, w, p)
  BY <1>2
<1>6. \A i \in DOMAIN t : w[i] \in DOMAIN spans /\ p[i] \in 1..n(w[i]) /\ t[i].word = w[i]
  <2> SUFFICES ASSUME NEW i \in DOMAIN t
               PROVE  w[i] \in DOMAIN spans /\ p[i] \in 1..n(w[i]) /\ t[i].word = w[i]
    OBVIOUS
  <2>1. /\ w[i] \in DOMAIN spans /\ p[i] \in 1..Len(words[w[i]].parts)
        /\ t[i] = [word |-> w[i], prefix |-> Prefix(w[i], p[i]),
                   start |-> Share(w[i], p[i] - 1), end |-> Share(w[i], p[i])]
    BY <1>5 DEF Placed
  <2>2. t[i].word = w[i]
    BY <2>1
  <2> QED BY <2>1, <2>2
<1>7. \A j, k \in DOMAIN t : j < k => w[j] < w[k] \/ (w[j] = w[k] /\ p[j] < p[k])
  BY <1>5 DEF Placed
<1> SUFFICES ASSUME NEW i \in DOMAIN t PROVE Chars'[i] \in Int
  BY DEF t
<1> DEFINE S == {j \in 1..i : t[j].word = t[i].word}
           c == n(w[i])
<1>8. words[w[i]].parts \in Seq(Nat \ {0}) \ {<<>>}
  <2>1. words \in Seq(Word)
    BY <1>1, LyricsAssumption
  <2>2. w[i] \in DOMAIN words
    BY <1>1, <1>6
  <2>3. words[w[i]] \in Word
    BY <2>1, <2>2
  <2> QED BY <2>3 DEF Word
<1>9. c \in Nat \ {0} /\ \A q \in 1..c : words[w[i]].parts[q] \in Nat
  BY <1>8
<1>10. i \in Nat \ {0} /\ \A j \in 1..i : j \in DOMAIN t
  BY <1>4
<1>11. \A j \in S : j \in 1..i /\ w[j] = w[i] /\ p[j] \in 1..c
  BY <1>6, <1>10
<1>12. S \subseteq 1..i /\ i \in S
  BY <1>10
<1> HIDE DEF S, c
<1>13. IsFiniteSet(S)
  <2>1. IsFiniteSet(1..i)
    BY <1>10, FS_Interval
  <2> QED BY <1>12, <2>1, FS_Subset
<1> DEFINE f == [j \in S |-> p[j]]
<1>14. ASSUME NEW j \in S, NEW k \in S, f[j] = f[k]
       PROVE  j = k
  <2>1. j \in 1..i /\ k \in 1..i /\ j \in DOMAIN t /\ k \in DOMAIN t /\ w[j] = w[i] /\ w[k] = w[i]
    BY <1>10, <1>11
  <2>2. p[j] = p[k] /\ p[j] \in Int /\ w[i] \in Int
    <3>1. p[j] = p[k] /\ p[j] \in 1..c
      BY <1>11, <1>14
    <3>2. DOMAIN spans \subseteq Nat
      BY DEF IInv, SpansOK, InShape
    <3>3. w[i] \in DOMAIN spans
      BY <1>6
    <3> QED BY <3>1, <3>2, <3>3
  <2>3. ~(j < k) /\ ~(k < j)
    BY <1>7, <2>1, <2>2
  <2>4. j \in Int /\ k \in Int
    BY <2>1
  <2> QED BY <2>3, <2>4
<1>15. f \in Injection(S, 1..c)
  BY <1>11, <1>14 DEF Injection, IsInjective
<1>16. IsFiniteSet(1..c) /\ Cardinality(1..c) = c
  <2>1. IsFiniteSet(1..c) /\ Cardinality(1..c) = IF 1 > c THEN 0 ELSE c - 1 + 1
    BY <1>9, FS_Interval
  <2> QED BY <1>9, <2>1
<1>17. Cardinality(S) <= c
  BY <1>15, <1>16, FS_Injection
<1>18. Cardinality(S) \in Nat /\ Cardinality(S) # 0
  <2>1. S # {}
    BY <1>12
  <2> QED BY <1>13, <2>1, FS_CardinalityType, FS_EmptySet
<1>19. PartOf(t, i) \in 1..c
  <2>1. PartOf(t, i) = Cardinality(S)
    BY DEF PartOf, S
  <2> QED BY <1>9, <1>17, <1>18, <2>1
<1>20. words[w[i]].parts[PartOf(t, i)] \in Nat
  BY <1>9, <1>19
<1> DEFINE x == words[w[i]].parts[PartOf(t, i)]
<1>21. Chars'[i] = x + IF t[i].prefix = "" THEN 0 ELSE 1
  BY <1>3, <1>6
<1> HIDE DEF x, f
<1>22. Chars'[i] = x + 0 \/ Chars'[i] = x + 1
  BY <1>21
<1> QED BY <1>20, <1>22 DEF x

\* What a line has gathered when syllable i has been read: it begins with the first
\* syllable and with those of B that are in G or find more than m.
Runs(r, n, c, B, G, m) ==
  r = [i \in 1..n |-> IF i = 1 \/ (i \in B /\ (i \in G \/ r[i - 1] > m)) THEN c[i] ELSE r[i - 1] + c[i]]

LEMMA RunsExist ==
  ASSUME NEW n \in Nat, NEW c, NEW B, NEW G, NEW m
  PROVE  \E r : Runs(r, n, c, B, G, m)
<1> DEFINE Val(x, i) == IF i = 1 \/ (i \in B /\ (i \in G \/ x > m)) THEN c[i] ELSE x + c[i]
           Up(r, k) == \A i \in 1..k : r[i] = Val(r[i - 1], i)
           D == {k \in Nat : \E r : Up(r, k)}
<1>1. 0 \in D
  OBVIOUS
<1>2. ASSUME NEW k \in 0..(n - 1), k \in D
      PROVE  k + 1 \in D
  <2>1. PICK r : Up(r, k)
    BY <1>2
  <2> DEFINE v == Val(r[k], k + 1)
             g == [i \in 0..(k + 1) |-> IF i = k + 1 THEN v ELSE r[i]]
  <2> HIDE DEF Val
  <2>2. \A i \in 0..k : g[i] = r[i]
    OBVIOUS
  <2>3. g[k + 1] = v
    BY k + 1 \in 0..(k + 1)
  <2> HIDE DEF g
  <2>4. ASSUME NEW i \in 1..(k + 1)
        PROVE  g[i] = Val(g[i - 1], i)
    <3>1. CASE i = k + 1
      <4>1. g[k] = r[k] /\ i - 1 = k
        BY <2>2, <3>1
      <4> QED BY <2>3, <3>1, <4>1
    <3>2. CASE i # k + 1
      <4>1. i \in 1..k /\ i - 1 \in 0..k /\ i \in 0..k
        BY <3>2
      <4>2. r[i] = Val(r[i - 1], i)
        BY <2>1, <4>1
      <4> QED BY <2>2, <4>1, <4>2
    <3> QED BY <3>1, <3>2
  <2>5. Up(g, k + 1)
    BY <2>4
  <2> HIDE DEF Up
  <2> QED BY <2>5
<1>3. n \in D
  <2> HIDE DEF D
  <2> QED BY <1>1, <1>2, CountingUp
<1>4. PICK r : Up(r, n)
  BY <1>3
<1> DEFINE g == [i \in 1..n |-> r[i]]
<1>5. \A i \in 1..n : g[i] = Val(g[i - 1], i)
  <2> SUFFICES ASSUME NEW i \in 1..n PROVE g[i] = Val(g[i - 1], i)
    OBVIOUS
  <2>1. g[i] = r[i] /\ r[i] = Val(r[i - 1], i)
    BY <1>4
  <2>2. CASE i = 1
    BY <2>1, <2>2
  <2>3. CASE i # 1
    <3>1. g[i - 1] = r[i - 1]
      BY <2>3
    <3> QED BY <2>1, <3>1
  <2> QED BY <2>2, <2>3
<1>6. g = [i \in 1..n |-> g[i]]
  OBVIOUS
<1> HIDE DEF g
<1>7. g = [i \in 1..n |-> Val(g[i - 1], i)]
  BY <1>5, <1>6
<1> QED BY <1>7 DEF Runs

\* What has been gathered is the sum over the syllables of the line so far; g are the lines.
SoFar(g, i) == {j \in 1..i : g[j] = g[i]}

Gathers(n, c, g, r, at) ==
  /\ \A i \in 1..n : c[i] \in Int
  /\ \A i \in 1..n : g[i] \in Nat
  /\ \A i, k \in 1..n : i <= k => g[i] <= g[k]
  /\ r[1] = c[1]
  /\ \A i \in 2..n : i \in at => r[i] = c[i] /\ g[i] = g[i - 1] + 1
  /\ \A i \in 2..n : i \notin at => r[i] = r[i - 1] + c[i] /\ g[i] = g[i - 1]

LEMMA RunSums ==
  ASSUME NEW n \in Nat \ {0}, NEW c, NEW g, NEW r, NEW at, Gathers(n, c, g, r, at)
  PROVE  \A i \in 1..n : r[i] = SumOf(c, SoFar(g, i)) /\ r[i] \in Int
<1> USE DEF Gathers
<1> DEFINE Good(i) == r[i] = SumOf(c, SoFar(g, i)) /\ r[i] \in Int
           D == {k \in 0..(n - 1) : Good(k + 1)}
<1>1. ASSUME NEW i \in 1..n
      PROVE  /\ IsFiniteSet(SoFar(g, i)) /\ SoFar(g, i) \subseteq 1..n /\ i \in SoFar(g, i)
             /\ SumOf(c, SoFar(g, i)) = c[i] + SumOf(c, SoFar(g, i) \ {i})
  <2>1. SoFar(g, i) \subseteq 1..i /\ SoFar(g, i) \subseteq 1..n /\ i \in SoFar(g, i)
    BY DEF SoFar
  <2>2. IsFiniteSet(1..i)
    BY FS_Interval
  <2>3. IsFiniteSet(SoFar(g, i))
    BY <2>1, <2>2, FS_Subset
  <2>4. \A y \in SoFar(g, i) : c[y] \in Int
    BY <2>1
  <2> QED BY <2>1, <2>3, <2>4, SumStep, SMTT(20)
<1>2. ASSUME NEW i \in 1..n, SoFar(g, i) \ {i} = {}, r[i] = c[i]
      PROVE  Good(i)
  <2>1. SumOf(c, {}) = 0
    BY FS_EmptySet, SumFirst
  <2>2. c[i] \in Int
    OBVIOUS
  <2> QED BY <1>1, <1>2, <2>1, <2>2
<1>3. 0 \in D
  <2>1. SoFar(g, 1) \ {1} = {} /\ 1 \in 1..n
    BY DEF SoFar
  <2>2. Good(1)
    BY <1>2, <2>1
  <2> HIDE DEF Good
  <2> QED BY <2>2
<1>4. ASSUME NEW k \in 0..(n - 2), k \in D
      PROVE  k + 1 \in D
  <2> DEFINE i == k + 2
  <2>1. i \in 2..n /\ i \in 1..n /\ i - 1 \in 1..n /\ i - 1 = k + 1 /\ k + 1 \in 0..(n - 1) /\ (k + 1) + 1 = i
    BY <1>4
  <2>2. Good(i - 1)
    BY <1>4, <2>1
  <2> HIDE DEF i, D, Good
  <2>3. ASSUME i \in at PROVE Good(i)
    <3>1. r[i] = c[i] /\ g[i] = g[i - 1] + 1 /\ g[i - 1] \in Nat
      BY <2>1, <2>3
    <3>2. ASSUME NEW j \in SoFar(g, i) \ {i} PROVE FALSE
      <4>1. j \in 1..i /\ g[j] = g[i] /\ j # i
        BY DEF SoFar
      <4>2. j \in 1..n /\ j <= i - 1
        BY <2>1, <4>1
      <4>3. g[j] <= g[i - 1]
        BY <2>1, <4>2
      <4> QED BY <3>1, <4>1, <4>3
    <3>3. SoFar(g, i) \ {i} = {}
      BY <3>2, Zenon
    <3> QED BY <1>2, <2>1, <3>1, <3>3
  <2>4. ASSUME i \notin at PROVE Good(i)
    <3>1. r[i] = r[i - 1] + c[i] /\ g[i] = g[i - 1] /\ c[i] \in Int
      BY <2>1, <2>4
    <3>2. \A j : j \in 1..i /\ j # i <=> j \in 1..(i - 1)
      BY <2>1
    <3>3. SoFar(g, i) \ {i} = SoFar(g, i - 1)
      BY <3>1, <3>2, Zenon DEF SoFar
    <3>4. SumOf(c, SoFar(g, i)) = c[i] + SumOf(c, SoFar(g, i - 1))
      BY <1>1, <2>1, <3>3
    <3> QED BY <2>2, <3>1, <3>4 DEF Good
  <2>5. Good((k + 1) + 1)
    BY <2>1, <2>3, <2>4
  <2> QED BY <2>1, <2>5 DEF D
<1> HIDE DEF Good
<1>5. \A k \in 0..(n - 1) : k \in D
  <2> HIDE DEF D
  <2>1. n - 1 \in Nat /\ (n - 1) - 1 = n - 2
    OBVIOUS
  <2> DEFINE m == n - 1
  <2>2. \A k \in 0..(m - 1) : k \in D => k + 1 \in D
    BY <1>4, <2>1
  <2>3. m \in Nat
    BY <2>1
  <2> HIDE DEF m
  <2>4. \A k \in 0..m : k \in D
    BY <1>3, <2>2, <2>3, CountingUp
  <2> QED BY <2>4 DEF m
<1>6. ASSUME NEW i \in 1..n PROVE Good(i)
  <2>1. i - 1 \in 0..(n - 1) /\ (i - 1) + 1 = i
    OBVIOUS
  <2>2. i - 1 \in D
    BY <1>5, <2>1
  <2> HIDE DEF Good
  <2>3. Good((i - 1) + 1)
    BY <2>2
  <2> QED BY <2>1, <2>3
<1> QED BY <1>6 DEF Good

-----------------------------------------------------------------------------
(* Whole lines *)

\* What GapMode gathers, and which pauses end a line whatever it has.
LargeGapsAt(floor) ==
  {i \in Later : GapBefore(i) > floor /\ 8 * GapBefore(i) > 5 * Percentile75(GapBefore)}
WordsAt == {i \in Later : BeginsWord(i)}
Gathered(floor) ==
  CHOOSE chars : chars = [i \in DOMAIN timings |->
    IF i = 1 \/ (BeginsWord(i) /\ (\/ GapBefore(i) > floor /\ 8 * GapBefore(i) > 5 * Percentile75(GapBefore)
                                   \/ chars[i - 1] > MaxChars))
    THEN Chars[i] ELSE chars[i - 1] + Chars[i]]

LEMMA GapModeIs ==
  ASSUME Timed, NEW floor
  PROVE  LET r == Gathered(floor)
             at == GapMode(floor)
         IN  /\ r[1] = Chars[1]
             /\ at \subseteq WordsAt
             /\ \A i \in Later : i \in at => r[i] = Chars[i]
             /\ \A i \in Later : i \notin at => r[i] = r[i - 1] + Chars[i]
             /\ \A i \in WordsAt : i \notin at => ~(r[i - 1] > MaxChars)
<1> DEFINE r == Gathered(floor)
           at == GapMode(floor)
           large(i) == GapBefore(i) > floor /\ 8 * GapBefore(i) > 5 * Percentile75(GapBefore)
           Val(i, x) == IF i = 1 \/ (BeginsWord(i) /\ (large(i) \/ x > MaxChars)) THEN Chars[i] ELSE x + Chars[i]
           Is(f) == f = [i \in DOMAIN timings |-> Val(i, f[i - 1])]
<1>1. Count \in Nat \ {0} /\ DOMAIN timings = 1..Count /\ Later = 2..Count
  BY HeadFacts DEF Later, Count
<1>2. \E f : Is(f)
  <2>1. PICK f : Runs(f, Count, Chars, WordsAt, LargeGapsAt(floor), MaxChars)
    BY <1>1, RunsExist
  <2>2. ASSUME NEW i \in 1..Count, i # 1
        PROVE  (i \in WordsAt <=> BeginsWord(i)) /\ (i \in LargeGapsAt(floor) <=> large(i))
    <3>1. i \in Later
      BY <1>1, <2>2
    <3> QED BY <3>1 DEF WordsAt, LargeGapsAt
  <2> DEFINE v(i) == IF i = 1 \/ (i \in WordsAt /\ (i \in LargeGapsAt(floor) \/ f[i - 1] > MaxChars))
                     THEN Chars[i] ELSE f[i - 1] + Chars[i]
  <2>3. f = [i \in 1..Count |-> v(i)]
    BY <2>1 DEF Runs
  <2>4. \A i \in 1..Count : v(i) = Val(i, f[i - 1])
    BY <2>2
  <2> HIDE DEF v, Val
  <2>5. f = [i \in 1..Count |-> Val(i, f[i - 1])]
    BY <2>3, <2>4
  <2> QED BY <1>1, <2>5
<1>3. r = CHOOSE f : Is(f)
  BY DEF Gathered
<1>4. at = {i \in Later : BeginsWord(i) /\ (large(i) \/ r[i - 1] > MaxChars)}
  BY DEF GapMode, Gathered
<1>5. Is(r)
  BY <1>2, <1>3
<1> HIDE DEF r, at, large
<1>6. \A i \in DOMAIN timings : r[i] = Val(i, r[i - 1])
  <2> HIDE DEF Val
  <2> QED BY <1>5
<1>7. r[1] = Chars[1]
  BY <1>1, <1>6
<1>8. at \subseteq WordsAt
  BY <1>4 DEF WordsAt
<1>9. ASSUME NEW i \in Later
      PROVE  i \in DOMAIN timings /\ i # 1
  BY <1>1
<1>10. \A i \in Later : i \in at => r[i] = Chars[i]
  BY <1>4, <1>6, <1>9
<1>11. \A i \in Later : i \notin at => r[i] = r[i - 1] + Chars[i]
  BY <1>4, <1>6, <1>9
<1>12. \A i \in WordsAt : i \notin at => ~(r[i - 1] > MaxChars)
  BY <1>4 DEF WordsAt
<1> QED BY <1>7, <1>8, <1>10, <1>11, <1>12 DEF r, at

LinesOK ==
  /\ Count \in Nat \ {0} /\ DOMAIN timings = 1..Count /\ Later = 2..Count
  /\ \A i \in 1..Count : LineOf(i) \in Nat
  /\ \A i \in 2..Count : LineOf(i) = IF i \in Heads THEN LineOf(i - 1) + 1 ELSE LineOf(i - 1)
  /\ \A i, k \in 1..Count : i <= k => LineOf(i) <= LineOf(k)

LEMMA LinesKnown == Timed => LinesOK
<1> SUFFICES ASSUME Timed PROVE LinesOK
  OBVIOUS
<1>1. Count \in Nat \ {0} /\ DOMAIN timings = 1..Count /\ Later = 2..Count /\ LineCount \in Nat
  BY HeadFacts DEF Later, Count
<1>2. /\ \A i \in 1..Count : LineOf(i) \in 1..LineCount
      /\ \A i \in 2..Count : LineOf(i) = IF i \in Heads THEN LineOf(i - 1) + 1 ELSE LineOf(i - 1)
  BY LineSteps
<1>3. \A i \in 1..Count : LineOf(i) \in Nat
  BY <1>1, <1>2
<1>4. \A i, k \in 1..Count : i <= k => LineOf(i) <= LineOf(k)
  BY LinesIncrease
<1> QED BY <1>1, <1>2, <1>3, <1>4 DEF LinesOK

\* Another line changes no length.
LEMMA CharsStay ==
  ASSUME Timed, SameTimes(timings', timings), words' = words
  PROVE  Chars' = Chars
<1> DEFINE Val(t, i) == words[t[i].word].parts[PartOf(t, i)] + IF t[i].prefix = "" THEN 0 ELSE 1
           t == timings'
           u == timings
<1>1. Chars = [i \in DOMAIN u |-> Val(u, i)]
  BY DEF Chars, PartOf
<1>2. Chars' = [i \in DOMAIN t |-> Val(t, i)]
  BY DEF Chars, PartOf
<1>3. Count \in Nat /\ DOMAIN u = 1..Count
  BY HeadFacts
<1>4. SameTimes(t, u)
  OBVIOUS
<1> HIDE DEF t, u
<1>5. /\ DOMAIN t = DOMAIN u
      /\ \A j \in DOMAIN t : t[j].word = u[j].word /\ (t[j].prefix = "" <=> u[j].prefix = "")
  BY <1>4 DEF SameTimes
<1>6. ASSUME NEW i \in DOMAIN u PROVE Val(t, i) = Val(u, i)
  <2>1. \A j \in 1..i : j \in DOMAIN t
    <3>1. i \in 1..Count /\ DOMAIN t = 1..Count
      BY <1>3, <1>5, Zenon
    <3>2. \A j \in 1..i : j \in 1..Count
      BY <1>3, <3>1
    <3> QED BY <3>1, <3>2, Zenon
  <2>2. {j \in 1..i : t[j].word = t[i].word} = {j \in 1..i : u[j].word = u[i].word}
    BY <1>5, <2>1
  <2>3. PartOf(t, i) = PartOf(u, i)
    BY <2>2 DEF PartOf
  <2> QED BY <1>5, <2>3
<1> HIDE DEF Val
<1> QED BY <1>1, <1>2, <1>5, <1>6

\* No line was longer than MaxChars when its last word began.
ShortLines ==
  \A i \in Later : timings[i].prefix = "space" =>
    SumOf(Chars, {j \in 1..(i - 1) : LineOf(j) = LineOf(i)}) <= MaxChars

LEMMA GapModeShort ==
  ASSUME Timed, \A i \in DOMAIN timings : Chars[i] \in Int,
         \A i \in DOMAIN timings : timings[i].prefix # "newline",
         NEW floor, timings' = InjectBreaks(GapMode(floor)), words' = words
  PROVE  ShortLines'
<1> DEFINE r == Gathered(floor)
           at == GapMode(floor)
           c == Chars
           n == Count
           line(i) == LineOf(i)'
           g == [i \in 1..n |-> line(i)]
<1>1. /\ r[1] = c[1] /\ at \subseteq WordsAt
      /\ \A i \in Later : i \in at => r[i] = c[i]
      /\ \A i \in Later : i \notin at => r[i] = r[i - 1] + c[i]
      /\ \A i \in WordsAt : i \notin at => ~(r[i - 1] > MaxChars)
  BY GapModeIs
<1>2. /\ SameTimes(timings', timings)
      /\ \A i \in DOMAIN timings : timings'[i].prefix = IF i \in at THEN "newline" ELSE timings[i].prefix
  BY <1>1, InjectionKeeps DEF WordsAt, Timed
<1>3. n \in Nat \ {0} /\ DOMAIN timings = 1..n /\ Later = 2..n /\ \A i \in 1..n : c[i] \in Int
  BY LinesKnown DEF LinesOK
<1>4. LinesOK'
  <2>1. (Timed => LinesOK)'
    BY LinesKnown, PTL
  <2>2. Timed'
    BY <1>2 DEF SameTimes, Timed
  <2> QED BY <2>1, <2>2
<1>5. Count' = n /\ Later' = 2..n
  <2>1. Count' \in Nat \ {0} /\ DOMAIN timings' = 1..Count' /\ Later' = 2..Count'
    BY <1>4 DEF LinesOK
  <2>2. 1..Count' = 1..n
    BY <1>2, <1>3, <2>1 DEF SameTimes
  <2>3. Count' \in 1..n /\ n \in 1..Count'
    BY <1>3, <2>1, <2>2
  <2>4. Count' = n
    BY <1>3, <2>1, <2>3
  <2> QED BY <2>1, <2>4
<1>6. \A i \in 2..n : i \in Heads' <=> i \in at
  <2>1. Heads' = {1} \cup {i \in Later' : timings'[i].prefix = "newline"}
    BY DEF Heads
  <2>2. ASSUME NEW i \in 2..n PROVE i \in DOMAIN timings /\ i # 1
    BY <1>3
  <2> HIDE DEF at
  <2> QED BY <1>2, <1>5, <2>1, <2>2
<1>7. /\ \A i \in 1..n : line(i) \in Nat
      /\ \A i \in 2..n : line(i) = IF i \in Heads' THEN line(i - 1) + 1 ELSE line(i - 1)
      /\ \A i, k \in 1..n : i <= k => line(i) <= line(k)
  BY <1>4, <1>5 DEF LinesOK
<1>8. Chars' = c
  BY <1>2, CharsStay
<1>9. ShortLines' <=> \A i \in Later' : timings'[i].prefix = "space" =>
                        SumOf(Chars', {j \in 1..(i - 1) : line(j) = line(i)}) <= MaxChars
  BY DEF ShortLines
<1> HIDE DEF r, at, c, n, line
<1>10. \A i \in 1..n : g[i] = line(i)
  OBVIOUS
<1> HIDE DEF g
<1>11. \A i \in 2..n : i \in 1..n /\ i - 1 \in 1..n
  BY <1>3
<1>12. /\ \A i \in 1..n : g[i] \in Nat
       /\ \A i, k \in 1..n : i <= k => g[i] <= g[k]
       /\ \A i \in 2..n : i \in at => r[i] = c[i] /\ g[i] = g[i - 1] + 1
       /\ \A i \in 2..n : i \notin at => r[i] = r[i - 1] + c[i] /\ g[i] = g[i - 1]
  BY <1>1, <1>3, <1>6, <1>7, <1>10, <1>11
<1>13. \A i \in 1..n : r[i] = SumOf(c, SoFar(g, i)) /\ r[i] \in Int
  <2>1. r[1] = c[1] /\ n \in Nat \ {0} /\ \A i \in 1..n : c[i] \in Int
    BY <1>1, <1>3, Zenon
  <2>2. Gathers(n, c, g, r, at)
    BY <1>12, <2>1, Zenon DEF Gathers
  <2> QED BY <2>1, <2>2, RunSums
<1>14. ASSUME NEW i \in Later', timings'[i].prefix = "space"
       PROVE  SumOf(Chars', {j \in 1..(i - 1) : line(j) = line(i)}) <= MaxChars
  <2>1. i \in 2..n /\ i \in 1..n /\ i - 1 \in 1..n /\ i \in DOMAIN timings
    BY <1>3, <1>5, <1>11
  <2>2. i \notin at /\ timings[i].prefix = "space"
    BY <1>2, <1>14, <2>1
  <2>3. i \in WordsAt
    BY <1>3, <2>1, <2>2 DEF WordsAt, BeginsWord
  <2>4. ~(r[i - 1] > MaxChars) /\ r[i - 1] \in Int /\ r[i - 1] = SumOf(c, SoFar(g, i - 1))
    BY <1>1, <1>13, <2>1, <2>2, <2>3
  <2>5. g[i] = g[i - 1]
    BY <1>12, <2>1, <2>2
  <2>6. \A j \in 1..(i - 1) : g[j] = line(j)
    <3>1. i \in 2..n /\ n \in Nat
      BY <1>3, <2>1, Zenon
    <3>2. \A j \in 1..(i - 1) : j \in 1..n
      BY <3>1
    <3> QED BY <1>10, <3>2, Zenon
  <2>7. line(i) = g[i - 1]
    BY <1>10, <2>1, <2>5
  <2>8. {j \in 1..(i - 1) : line(j) = line(i)} = SoFar(g, i - 1)
    BY <2>6, <2>7, Zenon DEF SoFar
  <2>9. r[i - 1] <= MaxChars
    BY <2>4, PlayerAssumption
  <2> QED BY <1>8, <2>4, <2>8, <2>9
<1> QED BY <1>9, <1>14

\* Lines found by pauses are short, and a syllable has a number of letters.
WholeInv ==
  /\ breaks = "gaps" => step = "play" /\ ShortLines
  /\ step \in {"lines", "play"} => \A i \in DOMAIN timings : Chars[i] \in Int

LEMMA WholeStep ==
  ASSUME IInv, WordsInv, SyllablesInv, WholeInv, [Next]_vars
  PROVE  WholeInv'
<1>1. ASSUME Trim \/ Align \/ AlignRaises \/ AdjustStarts \/ TrimEnds \/ ExtendEnds, UNCHANGED lineVars
      PROVE  WholeInv'
  <2>1. step \notin {"lines", "play"} /\ step' \notin {"lines", "play"} /\ breaks' = breaks
    BY <1>1 DEF Trim, Align, AlignRaises, AdjustStarts, TrimEnds, ExtendEnds, lineVars
  <2> QED BY <2>1 DEF WholeInv
<1>2. ASSUME ToSyllables, UNCHANGED lineVars
      PROVE  WholeInv'
  <2>1. step = "times" /\ breaks' = breaks
    BY <1>2 DEF ToSyllables, lineVars
  <2>2. \A i \in DOMAIN timings' : Chars'[i] \in Int
    BY <1>2, CharsKnown
  <2> QED BY <2>1, <2>2 DEF WholeInv
<1>3. CASE BreakLines
  <2>1. step = "lines" /\ step' = "play" /\ words' = words
    BY <1>3 DEF BreakLines
  <2>2. Timed /\ \A i \in DOMAIN timings : Chars[i] \in Int
    BY <2>1 DEF SyllablesInv, Timed, WholeInv
  <2>3. SameTimes(timings', timings)
    BY <1>3, <2>2, BreakLinesMarks DEF Timed
  <2>4. Chars' = Chars /\ DOMAIN timings' = DOMAIN timings
    BY <2>1, <2>2, <2>3, CharsStay DEF SameTimes
  <2>5. ASSUME breaks' = "gaps" PROVE ShortLines'
    <3>1. /\ \A i \in DOMAIN timings : timings[i].prefix # "newline"
          /\ \E floor : timings' = InjectBreaks(GapMode(floor))
      BY <1>3, <2>5 DEF BreakLines
    <3> QED BY <2>1, <2>2, <3>1, GapModeShort
  <2> QED BY <2>1, <2>2, <2>4, <2>5 DEF WholeInv
<1>4. CASE PlayFrame \/ Seek \/ UNCHANGED vars
  <2>1. words' = words /\ timings' = timings /\ step' = step /\ breaks' = breaks
    BY <1>4 DEF PlayFrame, Seek, vars, wordVars, lineVars
  <2>2. Chars' = Chars
    BY <2>1 DEF Chars
  <2>3. Heads' = Heads /\ Later' = Later
    BY <2>1 DEF Heads, Later
  <2>4. \A i : LineOf(i)' = LineOf(i)
    BY <2>3 DEF LineOf
  <2>5. \A i : {j \in 1..(i - 1) : LineOf(j)' = LineOf(i)'} = {j \in 1..(i - 1) : LineOf(j) = LineOf(i)}
    BY <2>4
  <2>6. ShortLines' <=> ShortLines
    BY <2>1, <2>2, <2>3, <2>5 DEF ShortLines
  <2> QED BY <2>1, <2>2, <2>6 DEF WholeInv
<1> QED BY <1>1, <1>2, <1>3, <1>4 DEF Next, Process

LEMMA WholeAlways == Spec => [](SyllablesInv /\ WholeInv)
<1>1. InitLines => WholeInv
  BY DEF InitLines, Init, WholeInv
<1>2. IInv /\ WordsInv /\ SyllablesInv /\ WholeInv /\ [Next]_vars => WholeInv'
  BY WholeStep
<1> QED BY <1>1, <1>2, SyllablesAlways, PTL DEF Spec

\* A line never begins inside a word, and one that was made at a pause was not longer than
\* MaxChars before its last word (_gap_based_breaks, _beat_based_breaks of line_break_injector).
THEOREM LinesWhole == Spec => []LinesAreWhole
<1>1. SyllablesInv /\ WholeInv => LinesAreWhole
  <2> SUFFICES ASSUME SyllablesInv, WholeInv PROVE LinesAreWhole
    OBVIOUS
  <2>1. ASSUME step = "play", NEW h \in Heads
        PROVE  h = 1 \/ timings[h].word # timings[h - 1].word
    <3> SUFFICES ASSUME h # 1 PROVE timings[h].word # timings[h - 1].word
      OBVIOUS
    <3>1. Timed /\ \A j \in DOMAIN timings : timings[j].prefix # "" /\ j > 1 => timings[j - 1].word < timings[j].word
      BY <2>1 DEF SyllablesInv, Timed
    <3>2. timings[h].prefix # "" /\ h \in 2..Count /\ h \in 1..Count /\ h - 1 \in 1..Count /\ DOMAIN timings = 1..Count
      <4>1. h \in Later /\ timings[h].prefix = "newline"
        BY DEF Heads
      <4>2. Later = 2..Count /\ Count \in Nat \ {0} /\ DOMAIN timings = 1..Count
        BY <3>1, LinesKnown DEF LinesOK
      <4>3. h \in 2..Count
        BY <4>1, <4>2
      <4>4. h \in 1..Count /\ h - 1 \in 1..Count
        BY <4>2, <4>3
      <4> QED BY <4>1, <4>2, <4>3, <4>4
    <3>3. timings[h - 1].word < timings[h].word
      <4>1. h \in 2..Count
        BY <3>2, Zenon
      <4>2. h > 1
        BY <4>1
      <4> QED BY <3>1, <3>2, <4>2
    <3>4. timings[h - 1].word \in Nat /\ timings[h].word \in Nat
      BY <3>1, <3>2, SyllableFacts
    <3> QED BY <3>3, <3>4
  <2>2. \A S : MapThenSumSet(LAMBDA j : Chars[j], S) = SumOf(Chars, S)
    BY DEF SumOf
  <2>3. ASSUME breaks = "gaps", NEW i \in Later, timings[i].prefix = "space"
        PROVE  MapThenSumSet(LAMBDA j : Chars[j], {j \in 1..(i - 1) : LineOf(j) = LineOf(i)}) <= MaxChars
    <3>1. SumOf(Chars, {j \in 1..(i - 1) : LineOf(j) = LineOf(i)}) <= MaxChars
      BY <2>3 DEF WholeInv, ShortLines
    <3> QED BY <3>1 DEF SumOf
  <2> QED BY <2>1, <2>3 DEF LinesAreWhole
<1> QED BY <1>1, WholeAlways, PTL
=============================================================================
