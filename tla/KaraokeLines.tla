---------------------------- MODULE KaraokeLines ----------------------------
(***************************************************************************)
(* From timed syllables to the lines a singer sees: the line breaker marks  *)
(* where lines begin when the lyrics do not say, and the player shows, as   *)
(* the clock runs or is set, the line to sing and the countdown before it.  *)
(***************************************************************************)
EXTENDS WordTiming

CONSTANTS Beats,      \* what the beat tracker may hear: sequences of times
          LargeGap,   \* a pause between syllables that may end a line (400 ms)
          LargeGaps,  \* so many of them make it a song with pauses (5)
          MaxChars,   \* a line longer than this is broken (50)
          BarLead,    \* a line may begin this long before its bar (300 ms)
          MinPause,   \* a pause that gets a countdown (5 s)
          Clock       \* bound: the times the player is looked at

ASSUME PlayerAssumption == Clock \subseteq Nat /\ MaxChars \in Nat

VARIABLES breaks,     \* how the lines were found
          clock,      \* the player's time
          shown,      \* the line the player shows, 0 before it shows one
          seeking     \* the clock was set, not run

lineVars == <<breaks, clock, shown, seeking>>
vars == <<wordVars, lineVars>>

InitLines == Init /\ breaks = "none" /\ clock = 0 /\ shown = 0 /\ seeking = FALSE

-----------------------------------------------------------------------------
(* Line breaks *)

GapBefore(i) == timings[i].start - timings[i - 1].end
Later == 2..Len(timings)
BeginsWord(i) == timings[i].prefix = "space"

\* Characters of a syllable: a share of its word, and its prefix.
Chars ==
  [i \in DOMAIN timings |->
     LET w == timings[i].word
         p == Cardinality({j \in 1..i : timings[j].word = w})
     IN words[w].parts[p] + IF timings[i].prefix = "" THEN 0 ELSE 1]

\* Four times the 75th percentile of the gaps.
Percentile75(V(_)) ==
  LET n == Len(timings) - 1
      low == (3 * (n - 1)) \div 4
      rest == (3 * (n - 1)) % 4
  IN (4 - rest) * Nth(Later, V, low + 1) + rest * Nth(Later, V, Min({low + 2, n}))

\* Mutant: a line may begin inside a word.
GapModeAnywhere(floor) ==
  {i \in Later : GapBefore(i) > floor \/ MapThenSumSet(LAMBDA j : Chars[j], 1..(i - 1)) > MaxChars}

\* A pause that is large for this song, or a line that has become too long.
GapMode(floor) ==
  LET large(i) == GapBefore(i) > floor /\ 8 * GapBefore(i) > 5 * Percentile75(GapBefore)
      chars[i \in DOMAIN timings] ==
        IF i = 1 \/ (BeginsWord(i) /\ (large(i) \/ chars[i - 1] > MaxChars))
        THEN Chars[i] ELSE chars[i - 1] + Chars[i]
  IN {i \in Later : BeginsWord(i) /\ (large(i) \/ chars[i - 1] > MaxChars)}

\* The first word at each bar of four beats, but the first bar.
BeatMode(beats) ==
  LET bars == [b \in 1..((Len(beats) + 3) \div 4) |-> beats[4 * (b - 1) + 1]]
      begins(i, b) == b < Len(bars) /\ BeginsWord(i) /\ timings[i].start >= bars[b + 1] - BarLead
      passed[i \in DOMAIN timings] ==
        IF i = 1 THEN 1 ELSE passed[i - 1] + IF begins(i, passed[i - 1]) THEN 1 ELSE 0
  IN {i \in Later : begins(i, passed[i - 1])}

InjectBreaks(at) == [i \in DOMAIN timings |->
                      IF i \in at THEN [timings[i] EXCEPT !.prefix = "newline"] ELSE timings[i]]

\* align() has returned: only the syllables are left.
BreakLines ==
  /\ step = "lines"
  /\ \/ /\ Len(timings) < 2 \/ \E i \in DOMAIN timings : timings[i].prefix = "newline"
        /\ timings' = timings /\ breaks' = "lyrics"
     \/ /\ Len(timings) >= 2 /\ \A i \in DOMAIN timings : timings[i].prefix # "newline"
        /\ IF Cardinality({i \in Later : GapBefore(i) > LargeGap}) >= LargeGaps
           THEN timings' = InjectBreaks(GapMode((3 * LargeGap) \div 4)) /\ breaks' = "gaps"
           ELSE \E beats \in Beats :
                  IF Len(beats) < 4
                  THEN timings' = InjectBreaks(GapMode(LargeGap \div 2)) /\ breaks' = "gaps"
                  ELSE timings' = InjectBreaks(BeatMode(beats)) /\ breaks' = "beats"
  /\ step' = "play"
  /\ sound' = <<>> /\ spans' = <<>> /\ starts' = <<>> /\ ends' = <<>> /\ offset' = 0
  /\ UNCHANGED <<words, crossed, clock, shown, seeking>>

-----------------------------------------------------------------------------
(* The player *)

Heads == {1} \cup {i \in Later : timings[i].prefix = "newline"}
Lines == 1..Cardinality(Heads)
LineOf(i) == Cardinality({h \in Heads : h <= i})
StartOf(l) == timings[Min({i \in DOMAIN timings : LineOf(i) = l})].start
EndOf(l) == timings[Max({i \in DOMAIN timings : LineOf(i) = l})].end

\* Mutants: a line is left when its last syllable begins; the next one is shown
\* for the time of the scroll only.
ActiveLineEarly(t) ==
  LET left == {l \in Lines \ {Max(Lines)} : t > EndOf(l) - 20} IN Max(left \cup {0}) + 1
ActiveLineBriefly(t) ==
  LET begun == {l \in Lines : StartOf(l) <= t} \cup {1}
  IN IF Max(begun) < Max(Lines) /\ t > EndOf(Max(begun)) /\ t <= EndOf(Max(begun)) + 20
     THEN Max(begun) + 1 ELSE Max(begun)

\* The last of the lines that have begun, and the next one when it is over.
ActiveLine(t) ==
  LET begun == {l \in Lines : \A m \in 1..l : StartOf(m) <= t}
      last == IF begun = {} THEN 1 ELSE Max(begun)
  IN IF last < Max(Lines) /\ begun # {} /\ t > EndOf(last) THEN last + 1 ELSE last

\* Where the countdown runs: before the first line and in long pauses.
Countdown(t) ==
  \/ StartOf(1) > 100 /\ t < StartOf(1)
  \/ \E l \in Lines \ {Max(Lines)} : /\ StartOf(l + 1) - EndOf(l) >= MinPause
                                     /\ EndOf(l) <= t /\ t < StartOf(l + 1)

\* A frame of the animation while the song plays.
PlayFrame ==
  /\ step = "play"
  /\ \E t \in Clock : t > clock /\ clock' = t
  /\ shown' = ActiveLine(clock')
  /\ seeking' = FALSE
  /\ UNCHANGED <<wordVars, breaks>>

\* The position is set by the singer.
Seek ==
  /\ step = "play"
  /\ clock' \in Clock
  /\ shown' = ActiveLine(clock')
  /\ seeking' = TRUE
  /\ UNCHANGED <<wordVars, breaks>>

Next == (Process /\ UNCHANGED lineVars) \/ BreakLines \/ PlayFrame \/ Seek

Spec == InitLines /\ [][Next]_vars

-----------------------------------------------------------------------------
(* Properties *)

Sung(i) == timings[i].start <= clock /\ clock < timings[i].end

\* A crossed word still sounds, and a later word has begun.
Overtaken(i) ==
  /\ timings[i].word \in crossed
  /\ \E k \in DOMAIN timings : timings[k].word > timings[i].word /\ timings[k].start <= clock

\* Whoever sings reads the line on the screen, and no countdown runs meanwhile.  Only
\* the end of a crossed word may sound when its line has gone: once a word after it
\* has begun.
SingersSeeTheirLine ==
  shown # 0 => \A i \in DOMAIN timings :
    Sung(i) /\ ~Overtaken(i) => LineOf(i) = shown /\ ~Countdown(clock)

\* The lines scroll only forward while the song plays.
LinesGoForward == [][clock < clock' /\ ~seeking' => shown <= shown']_vars

\* A line begins with a word; unless the lines follow the lyrics or the beat, it was
\* no longer than MaxChars when its last word began.
LinesAreWhole ==
  /\ step = "play" => \A h \in Heads : h = 1 \/ timings[h].word # timings[h - 1].word
  /\ breaks = "gaps" =>
       \A i \in Later : timings[i].prefix = "space" =>
         MapThenSumSet(LAMBDA j : Chars[j], {j \in 1..(i - 1) : LineOf(j) = LineOf(i)}) <= MaxChars
=============================================================================
