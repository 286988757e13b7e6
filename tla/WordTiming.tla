----------------------------- MODULE WordTiming -----------------------------
(***************************************************************************)
(* How the words of a song get their times.  The forced aligner places each *)
(* phoneme of the lyrics on some frame of the lead vocals; it tends to pull *)
(* the first phoneme of a line into the silence before it, to push the last *)
(* phoneme of a word into the silence after it, and to end a held vowel at  *)
(* its attack.  Three corrections listen to the loudness around each word.  *)
(*                                                                         *)
(* A frame is 20 ms, for the loudness and for the aligner alike; the times  *)
(* of the result are milliseconds.  A loudness is an integer, 0 is silence. *)
(***************************************************************************)
EXTENDS Integers, Sequences, FiniteSets, FiniteSetsExt, SequencesExt

CONSTANTS Sounds,   \* recordings: functions from 0..n-1 to loudness
          Lyrics,   \* sequences of words: number of phonemes, whether the word
                    \* begins a line, lengths of its syllables
          Layouts,  \* frames the aligner may choose for the phonemes, word by word
          Widths,   \* frames a phoneme may take
          MaxBack   \* frames the onset may lie before the detected speech (1 s)

ASSUME SoundsAssumption ==
  \A s \in Sounds : /\ IsFiniteSet(DOMAIN s) /\ DOMAIN s = 0..(Cardinality(DOMAIN s) - 1)
                     /\ \A k \in DOMAIN s : s[k] \in Nat
Word == [phones : Nat \ {0}, first : BOOLEAN, parts : Seq(Nat \ {0}) \ {<<>>}]
ASSUME LyricsAssumption == Lyrics \subseteq Seq(Word) \ {<<>>}   \* align() raises without a word
ASSUME LayoutsAssumption ==
  \A at \in Layouts :
    /\ at \in Seq(Seq(Nat) \ {<<>>})
    /\ \A i \in DOMAIN at : \A m \in 1..(Len(at[i]) - 1) : at[i][m] < at[i][m + 1]
    /\ \A i \in 1..(Len(at) - 1) : at[i][Len(at[i])] < at[i + 1][1]
ASSUME BoundsAssumption == Widths \subseteq Nat \ {0} /\ MaxBack \in Nat

VARIABLES
  words,      \* the lyrics, word by word
  sound,      \* the recording, from where the alignment begins
  offset,     \* frames cut off before it
  spans,      \* for each word its phonemes: frames from start to before end
  starts,     \* line_adjustments: words to their corrected first frame
  ends,       \* end_adjustments: words to their corrected end
  timings,    \* the syllables, each with its word and its times
  crossed,    \* history: the words that were given MinWord, which nothing else records
  step        \* the next step of align()

wordVars == <<words, sound, offset, spans, starts, ends, timings, crossed, step>>

Frame   == 20
MinWord == 50

Init == /\ words \in Lyrics
        /\ sound \in Sounds
        /\ offset = 0
        /\ spans = <<>> /\ starts = <<>> /\ ends = <<>> /\ timings = <<>>
        /\ crossed = {}
        /\ step = "trim"

-----------------------------------------------------------------------------
(* Loudness *)

Length == Cardinality(DOMAIN sound)

Lesser(a, b)  == IF a < b THEN a ELSE b
Greater(a, b) == IF a < b THEN b ELSE a

Peak(a, b) == Max({sound[k] : k \in (a..(b - 1)) \cap DOMAIN sound} \cup {0})

\* Frame k has at least one part in r of the peak; r is 5 or 10.
Voiced(k, peak, r) == sound[k] * r >= peak

\* The n frames that end with k are silent, and none lies before frame a.
Silence(k, n, a, peak, r) ==
  a + n <= k + 1 /\ \A j \in (k - n + 1)..k : ~Voiced(j, peak, r)

FirstSilence(k, n, a, peak, r) ==
  Silence(k, n, a, peak, r) /\ \A j \in a..(k - 1) : ~Silence(j, n, a, peak, r)

\* Twice the median of the values V takes on S.
Nth(S, V(_), n) == CHOOSE v \in {V(p) : p \in S} :
                     /\ Cardinality({p \in S : V(p) < v}) < n
                     /\ Cardinality({p \in S : V(p) <= v}) >= n
TwiceMedian(S, V(_)) == Nth(S, V, (Cardinality(S) + 1) \div 2) + Nth(S, V, Cardinality(S) \div 2 + 1)

\* The gaps between phonemes inside words: the first gap of a word never counts,
\* and where ends are concerned its last one does not either.
Gap(i, m) == spans[i][m + 1].start - spans[i][m].end
InnerGaps(last) == UNION {{i} \X (2..(Len(spans[i]) - last)) : i \in DOMAIN spans}
TwiceMedianGap(last) == TwiceMedian(InnerGaps(last), LAMBDA p : Gap(p[1], p[2]))

\* Where the next word begins, as far as the word may reach.
Reach(i) == IF i < Len(spans) THEN spans[i + 1][1].start - 1 ELSE Length

Opening(i) == spans[i][1]
Second(i) == spans[i][2]
Closing(i) == spans[i][Len(spans[i])]
Penult(i) == spans[i][Len(spans[i]) - 1]

-----------------------------------------------------------------------------
(* Before the alignment: silence and noise are cut off *)

\* Twice the median loudness of the half second from frame k on.
TwiceLevel(k) == TwiceMedian(k..Lesser(k + 24, Length - 1), LAMBDA j : sound[j])

\* From the detected speech back to two silent frames, 20 dB below the level there.
Refined(detected) ==
  LET level == TwiceLevel(detected)
      quiet(k) == 20 * sound[k] < level
      begins(k) == quiet(k - 1) /\ quiet(k - 2)
      onsets == {k \in 2..detected : /\ begins(k) /\ \A j \in (k + 1)..detected : ~begins(j)
                                     /\ detected - k <= MaxBack}
  IN IF level = 0 \/ onsets = {} THEN {detected} ELSE onsets

\* The detector is external: it finds any frame that is not silent, or none.
Trim ==
  /\ step = "trim"
  /\ offset' \in {0} \cup UNION {Refined(d) : d \in {k \in DOMAIN sound : sound[k] > 0}}
  /\ sound' = [k \in 0..(Length - offset' - 1) |-> sound[k + offset']]
  /\ step' = "align"
  /\ UNCHANGED <<words, spans, starts, ends, timings, crossed>>

-----------------------------------------------------------------------------
(* The forced alignment: external, but in order and inside the recording *)

Phones == MapThenSumSet(LAMBDA i : words[i].phones, DOMAIN words)

\* Where the phoneme after phoneme m of word i begins.
Follows(at, i, m) == IF m < Len(at[i]) THEN at[i][m + 1]
                  ELSE IF i < Len(at) THEN at[i + 1][1] ELSE Length

\* The phonemes of the words, each of the width given unless the next one is nearer.
Unflatten(at, width) ==
  [i \in DOMAIN at |-> [m \in DOMAIN at[i] |->
     [start |-> at[i][m], end |-> Lesser(at[i][m] + width, Follows(at, i, m))]]]

Align ==
  /\ step = "align"
  /\ \E width \in Widths, at \in Layouts :
       /\ DOMAIN at = DOMAIN words
       /\ \A i \in DOMAIN at : Len(at[i]) = words[i].phones /\ ToSet(at[i]) \subseteq DOMAIN sound
       /\ spans' = Unflatten(at, width)
  /\ step' = "starts"
  /\ UNCHANGED <<words, sound, offset, starts, ends, timings, crossed>>

\* The recording is too short for the lyrics.
AlignRaises ==
  /\ step = "align"
  /\ Length < Phones
  /\ step' = "failed"
  /\ UNCHANGED <<words, sound, offset, spans, starts, ends, timings, crossed>>

-----------------------------------------------------------------------------
(* The first word of a line may begin too early *)

LineStart(i) == i = 1 \/ words[i].first

\* Attack after the first silence between the first two phonemes.
AttackAfterSilence(i, f, n, peak) ==
  /\ f \in Opening(i).start..(Second(i).start - 1)
  /\ Voiced(f, peak, 5)
  /\ \E d \in Opening(i).start..(f - 1) :
       FirstSilence(d, n, Opening(i).start, peak, 5) /\ \A k \in (d + 1)..(f - 1) : ~Voiced(k, peak, 5)

\* Beginning of the sound that leads to the second phoneme: walking back from it,
\* the last voiced frame before the first silence that has one behind it.
AttackBeforeSecond(i, f, n, peak) ==
  LET a == Opening(i).start
      b == Second(i).start - 1
      after(k) == {v \in (k + 1)..b : Voiced(v, peak, 5)}
      stops == {k \in a..(b - n) : after(k) # {} /\ \A j \in k..(k + n - 1) : ~Voiced(j, peak, 5)}
  IN stops # {} /\ f = Min(after(Max(stops)))

\* Mutant: the last phoneme instead of the second.
NewStartLate(i) == {f \in {Closing(i).start} : LineStart(i)}

NewStart(i) ==
  LET median == TwiceMedianGap(1)
      unit   == Max({median, 2})   \* twice the reference gap; as long is the silence asked for
      peak   == Peak(Opening(i).start, Reach(i))
      found  == {f \in Opening(i).start..Second(i).start :
                   IF 2 * Gap(i, 1) >= 7 * unit THEN AttackBeforeSecond(i, f, unit, peak)
                                                ELSE AttackAfterSilence(i, f, unit, peak)}
      chosen == IF 2 * Gap(i, 1) >= 7 * unit /\ found = {} THEN {Second(i).start} ELSE found
  IN IF /\ LineStart(i) /\ Len(spans[i]) >= 2 /\ InnerGaps(1) # {}
        /\ Gap(i, 1) > median
        /\ peak > 0
     THEN {f \in chosen : f > Opening(i).start + 1} ELSE {}

AdjustStarts ==
  /\ step = "starts"
  /\ starts' = [i \in {j \in DOMAIN spans : NewStart(j) # {}} |-> CHOOSE f \in NewStart(i) : TRUE]
  /\ step' = "ends"
  /\ UNCHANGED <<words, sound, offset, spans, ends, timings, crossed>>

-----------------------------------------------------------------------------
(* A word may end too late, or too early *)

\* The end of the last voiced frame from a on, before n silent ones or frame b.
EndOfVoice(f, a, b, n, peak) ==
  /\ f - 1 \in a..(b - 1)
  /\ Voiced(f - 1, peak, 10)
  /\ \A k \in a..(f - 1) : ~Silence(k, n, a, peak, 10)
  /\ \/ \A k \in f..(b - 1) : ~Voiced(k, peak, 10)
     \/ \E d \in f..(b - 1) : /\ FirstSilence(d, n, a, peak, 10)
                              /\ \A k \in f..d : ~Voiced(k, peak, 10)

TrimmedEnd(i) ==
  LET unit == Max({TwiceMedianGap(2), 2})
      peak == Peak(Opening(i).start, Closing(i).end)
  IN IF /\ Len(spans[i]) >= 2 /\ InnerGaps(2) # {}
        /\ Gap(i, Len(spans[i]) - 1) > unit
        /\ peak > 0
     THEN {f \in (Penult(i).end + 2)..(Closing(i).end - 2) :
             EndOfVoice(f, Penult(i).end, Closing(i).end, unit, peak)}
     ELSE {}

TrimEnds ==
  /\ step = "ends"
  /\ ends' = [i \in {j \in DOMAIN spans : TrimmedEnd(j) # {}} |-> CHOOSE f \in TrimmedEnd(i) : TRUE]
  /\ step' = "extend"
  /\ UNCHANGED <<words, sound, offset, spans, starts, timings, crossed>>

\* Mutant: the next word is no bound.
ExtendedEndFreely(i) ==
  {f \in (Closing(i).end + 2)..Length :
     i \notin DOMAIN ends /\ EndOfVoice(f, Closing(i).end, Length, 2, Peak(Opening(i).start, Closing(i).end))}

ExtendedEnd(i) ==
  LET peak == Peak(Opening(i).start, Closing(i).end)
  IN IF i \notin DOMAIN ends /\ Reach(i) - Closing(i).end >= 2 /\ peak > 0
     THEN {f \in (Closing(i).end + 2)..Reach(i) :
             EndOfVoice(f, Closing(i).end, Reach(i), 2, peak)}
     ELSE {}

ExtendEnds ==
  /\ step = "extend"
  /\ ends' = [i \in DOMAIN ends \cup {j \in DOMAIN spans : ExtendedEnd(j) # {}} |->
                IF i \in DOMAIN ends THEN ends[i] ELSE CHOOSE f \in ExtendedEnd(i) : TRUE]
  /\ step' = "times"
  /\ UNCHANGED <<words, sound, offset, spans, starts, timings, crossed>>

-----------------------------------------------------------------------------
(* Words become syllables *)

StartTime(i) == Frame * (offset + IF i \in DOMAIN starts THEN starts[i] ELSE Opening(i).start)

AlignedEnd(i) == Frame * (offset + IF i \in DOMAIN ends THEN ends[i] ELSE Closing(i).end)

\* The two corrections of a word cross: both may act on the gap of a word with two
\* phonemes.
Crossing == {i \in DOMAIN spans : AlignedEnd(i) <= StartTime(i)}
EndTime(i) == IF i \in Crossing THEN StartTime(i) + MinWord ELSE AlignedEnd(i)

\* What a syllable begins with: a space or a new line where a word does.
Prefix(i, p) == IF p > 1 \/ i = 1 THEN "" ELSE IF words[i].first THEN "newline" ELSE "space"

\* A word's time is shared by the lengths of its syllables, rounded.
Share(i, p) ==
  LET parts == words[i].parts
      sum(q) == MapThenSumSet(LAMBDA k : parts[k], 1..q)
  IN StartTime(i) + (2 * (EndTime(i) - StartTime(i)) * sum(p) + sum(Len(parts)))
                      \div (2 * sum(Len(parts)))

Syllables(i) ==
  [p \in DOMAIN words[i].parts |->
     [word |-> i, prefix |-> Prefix(i, p), start |-> Share(i, p - 1), end |-> Share(i, p)]]

ToSyllables ==
  /\ step = "times"
  /\ timings' = FlattenSeq([i \in DOMAIN spans |-> Syllables(i)])
  /\ crossed' = Crossing
  /\ step' = "lines"
  /\ UNCHANGED <<words, sound, offset, spans, starts, ends>>

Process == \/ Trim \/ Align \/ AlignRaises \/ AdjustStarts
           \/ TrimEnds \/ ExtendEnds \/ ToSyllables

-----------------------------------------------------------------------------
(* Properties *)

\* A correction never leaves the word's own stretch of the recording: it begins at
\* the latest with its second phoneme, ends behind the last phoneme but one,
\* and reaches no further than the next word as aligned.
Inside ==
  /\ \A i \in DOMAIN starts : starts[i] \in (Opening(i).start + 2)..Second(i).start
  /\ \A i \in DOMAIN ends :
       /\ ends[i] <= Greater(Closing(i).end, Reach(i))
       /\ Len(spans[i]) > 1 => ends[i] > Penult(i).end

\* A syllable takes time, unless its word has more letters than a frame has
\* milliseconds.  The syllables of a word, and the words, begin one after another, and
\* a word is over when the next one begins.  Only a crossed word may last into the
\* next ones, for less than MinWord.
Letters(i) == MapThenSumSet(LAMBDA k : words[i].parts[k], DOMAIN words[i].parts)
InOrder ==
  \A j, k \in DOMAIN timings :
    /\ timings[j].start < timings[j].end \/ Letters(timings[j].word) > Frame
    /\ j < k /\ timings[j].word = timings[k].word => timings[j].end <= timings[k].start
    /\ timings[j].word < timings[k].word =>
         \/ timings[j].end <= timings[k].start
         \/ timings[j].word \in crossed /\ timings[j].end < timings[k].start + MinWord
=============================================================================
