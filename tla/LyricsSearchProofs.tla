-------------------------- MODULE LyricsSearchProofs --------------------------
(***************************************************************************)
(* Theorems about LyricsSearch: which of the candidates is answered, the   *)
(* order in which the agent's engines have their turn, that the transcript *)
(* is taken only when no candidate is acceptable, and what a text that is  *)
(* exactly what was heard can lose to.  The first two hold however a text  *)
(* is scored; for the others the scores of LyricsMatching are shown to be  *)
(* numbers within their bounds.  Nothing depends on what providers, models *)
(* and agent say.                                                          *)
(***************************************************************************)
EXTENDS LyricsSearch, OrderLemmas

-----------------------------------------------------------------------------
(* The answer *)

\* An answer is given once, and then the search is over.
AnswerInv ==
  /\ AnswerIsBest
  /\ result.kind = "found" => phase = "done"

LEMMA AnswerInit == Init => AnswerInv
<1>1. ASSUME Init PROVE result.kind = "pending"
  <2>1. result = [kind |-> "pending"]
    BY <1>1 DEF Init, Pending
  <2> QED BY <2>1
<1> QED BY <1>1 DEF AnswerInv, AnswerIsBest

LEMMA NoAnswerYet ==
  ASSUME AnswerInv, phase # "done", result' = result
  PROVE  AnswerInv'
  BY DEF AnswerInv, AnswerIsBest

\* Rank compares the best two; the model's choice is one of them.
LEMMA RankAnswers ==
  ASSUME AnswerInv, Rank
  PROVE  AnswerInv'
<1> DEFINE top == First(scores)
           alone == Len(scores) < 2
           ahead == alone \/ Lead(scores) >= Margin
<1>1. UNCHANGED <<key, written, scores>> /\ phase = "rank"
  BY DEF Rank, given
<1>2. ASSUME NEW i, NEW c, result' = Found(i, c), phase' = "done",
             ~key => i = top,
             c = "high" /\ i # top => ~(scores[top] - scores[i] >= Margin)
      PROVE  AnswerInv'
  <2>1. /\ result'.kind = "found" /\ result'.from = i
        /\ result'.lyrics = written[i] /\ result'.confidence = c
    BY <1>2 DEF Found
  <2> QED BY <1>1, <1>2, <2>1 DEF AnswerInv, AnswerIsBest
<1>3. ASSUME NEW i \in Picks(scores), i # 0, i # top
      PROVE  i = Second(scores) /\ key /\ (~alone => Lead(scores) = scores[top] - scores[i])
  <2>1. i = Second(scores) /\ key
    BY <1>3 DEF Picks
  <2> QED BY <2>1 DEF Lead
<1>4. CASE result' = result
  BY <1>1, <1>4, NoAnswerYet
<1>5. CASE phase' = "done" /\ result' = Found(top, "high")
  BY <1>2, <1>5
<1>6. CASE /\ ~ahead /\ phase' = "done"
           /\ \E i \in Picks(scores) :
                result' = IF i = 0 THEN Found(top, "medium") ELSE Found(i, "high")
  <2>1. PICK i \in Picks(scores) :
          result' = IF i = 0 THEN Found(top, "medium") ELSE Found(i, "high")
    BY <1>6
  <2>2. CASE i = 0
    BY <1>2, <1>6, <2>1, <2>2
  <2>3. CASE i # 0 /\ i = top
    BY <1>2, <1>6, <2>1, <2>3
  <2>4. CASE i # 0 /\ i # top
    <3>1. key /\ ~(scores[top] - scores[i] >= Margin)
      BY <1>3, <1>6, <2>4
    <3>2. result' = Found(i, "high")
      BY <2>1, <2>4
    <3> QED BY <1>2, <1>6, <3>1, <3>2
  <2> QED BY <2>2, <2>3, <2>4
<1>7. CASE /\ phase' = "done"
           /\ \E i \in IF alone THEN {0} ELSE Picks(scores) :
                result' = Found(IF i = 0 THEN top ELSE i, "medium")
  <2>1. PICK i \in IF alone THEN {0} ELSE Picks(scores) :
          result' = Found(IF i = 0 THEN top ELSE i, "medium")
    BY <1>7
  <2>2. ~key => (IF i = 0 THEN top ELSE i) = top
    BY <2>1 DEF Picks
  <2> QED BY <1>2, <1>7, <2>1, <2>2
<1> QED BY <1>4, <1>5, <1>6, <1>7 DEF Rank

\* Without a model the best candidate is answered; with one, an answer given as sure
\* is the best or the runner-up within the margin, and never changes any more.
THEOREM AnswersAreBest == Spec => []AnswerIsBest
<1>1. AnswerInv /\ [Next]_vars => AnswerInv'
  <2> SUFFICES ASSUME AnswerInv, [Next]_vars PROVE AnswerInv'
    OBVIOUS
  <2>1. CASE ParseFilename \/ ProviderAnswers \/ ProviderFails \/ Collect
    BY <2>1, NoAnswerYet DEF ParseFilename, ProviderAnswers, ProviderFails, Collect
  <2>2. CASE Expand \/ Rewrite \/ Score
    BY <2>2, NoAnswerYet DEF Expand, Rewrite, Score
  <2>3. CASE Rank
    BY <2>3, RankAnswers
  <2>4. CASE CallAgent \/ UseTools \/ AgentAnswers \/ AgentExhausted
    BY <2>4, NoAnswerYet DEF CallAgent, UseTools, AgentAnswers, AgentExhausted
  <2>5. CASE AgentRaises
    BY <2>5 DEF AgentRaises, AnswerInv, AnswerIsBest
  <2>6. CASE UseTranscript
    BY <2>6 DEF UseTranscript, AnswerInv, AnswerIsBest
  <2>7. CASE UNCHANGED vars
    BY <2>7 DEF vars, given, AnswerInv, AnswerIsBest
  <2> QED BY <2>1, <2>2, <2>3, <2>4, <2>5, <2>6, <2>7 DEF Next, Returned
<1>2. AnswerInv => AnswerIsBest
  BY DEF AnswerInv
<1> QED BY <1>1, <1>2, AnswerInit, PTL DEF Spec
-----------------------------------------------------------------------------
(* The engines of the agent *)

Pass == [engine : STRING, found : BOOLEAN]

NothingFound(n) == \A k \in 1..n : ~passes[k].found

\* The agent has done what it could.
Over == /\ passes # <<>>
        /\ passes[Len(passes)].found \/ Len(passes) = Len(engines)

\* While the agent works, the passes before this one found nothing; the search is
\* "rejected" a second time only when it is over.
EnginesInv ==
  /\ engines \in Seq(STRING) /\ passes \in Seq(Pass)
  /\ result.kind \in {"transcript", "apierror"} => phase = "done"
  /\ result.kind = "transcript" => agentRan \/ engines = <<>>
  /\ ~agentRan => passes = <<>> /\ pass = 1 /\ phase # "agent"
  /\ phase = "agent" => /\ agentRan /\ pass \in 1..Len(engines)
                        /\ Len(passes) = pass - 1 /\ NothingFound(Len(passes))
  /\ agentRan /\ phase # "agent" /\ result.kind # "apierror" => Over
  /\ NothingFound(Len(passes) - 1)
  /\ agentRan \in BOOLEAN

LEMMA EnginesInit == Init => EnginesInv
<1> SUFFICES ASSUME Init PROVE EnginesInv
  OBVIOUS
<1>1. result.kind = "pending"
  <2>1. result = [kind |-> "pending"]
    BY DEF Init, Pending
  <2> QED BY <2>1
<1>2. engines \in Seq(STRING)
  <2>1. engines \in (IF key THEN Engines ELSE {<<>>})
    BY DEF Init
  <2>2. engines \in Engines \/ engines = <<>>
    BY <2>1
  <2>3. CASE engines = <<>>
    BY <2>3
  <2>4. CASE engines \in Engines
    BY <2>4, EnginesAssumption, Zenon DEF EnginesAssumption
  <2> QED BY <2>2, <2>3, <2>4
<1>3. passes = <<>> /\ pass = 1 /\ phase = "parse" /\ agentRan = FALSE
  BY DEF Init
<1>4. passes \in Seq(Pass) /\ Len(passes) = 0
  BY <1>3
<1>5. NothingFound(Len(passes)) /\ NothingFound(Len(passes) - 1)
  BY <1>4 DEF NothingFound
<1>6. ~agentRan /\ agentRan \in BOOLEAN
  BY <1>3
<1>7. phase # "agent"
  BY <1>3
<1> QED BY <1>1, <1>2, <1>3, <1>4, <1>5, <1>6, <1>7, Zenon DEF EnginesInv

\* Steps before the agent is called, or after it has answered.
LEMMA ElsewhereNothingChanges ==
  ASSUME EnginesInv, UNCHANGED <<engines, passes, pass, agentRan>>,
         phase \notin {"agent", "done"}, phase' # "agent",
         result' = result \/ result'.kind = "found"
  PROVE  EnginesInv'
<1>1. result.kind \notin {"transcript", "apierror"}
  BY DEF EnginesInv
<1>2. result'.kind \notin {"transcript", "apierror"}
  BY <1>1
<1> QED BY <1>1, <1>2 DEF EnginesInv, NothingFound, Over

LEMMA CallKeeps ==
  ASSUME EnginesInv, CallAgent
  PROVE  EnginesInv'
<1>1. /\ UNCHANGED <<engines, passes, pass, result>> /\ agentRan' = TRUE /\ phase' = "agent"
      /\ phase = "rejected" /\ agentRan = FALSE /\ engines # <<>>
  BY DEF CallAgent, given, agent, EnginesInv
<1>2. passes = <<>> /\ pass = 1 /\ Len(passes) = 0
  BY <1>1 DEF EnginesInv
<1>3. pass \in 1..Len(engines)
  BY <1>1, <1>2 DEF EnginesInv
<1>4. result.kind \notin {"transcript", "apierror"}
  BY <1>1 DEF EnginesInv
<1> QED BY <1>1, <1>2, <1>3, <1>4 DEF EnginesInv, NothingFound

\* One more pass is over.
LEMMA EndPassKeeps ==
  ASSUME EnginesInv, phase = "agent", NEW cands, EndPass(cands),
         UNCHANGED <<engines, agentRan, result>>
  PROVE  EnginesInv'
<1> DEFINE this == [engine |-> engines[pass], found |-> cands # <<>>]
<1>1. /\ agentRan /\ agentRan' /\ pass \in 1..Len(engines) /\ Len(passes) = pass - 1
      /\ engines \in Seq(STRING) /\ passes \in Seq(Pass) /\ NothingFound(Len(passes))
  BY DEF EnginesInv
<1>2. this \in Pass
  BY <1>1 DEF Pass
<1>3. passes' = Append(passes, this)
  BY DEF EndPass
<1>4. /\ passes' \in Seq(Pass) /\ Len(passes') = pass /\ passes' # <<>>
      /\ passes'[pass] = this /\ \A k \in 1..(pass - 1) : passes'[k] = passes[k]
  BY <1>1, <1>2, <1>3
<1>5. NothingFound(Len(passes) - 1)'
  BY <1>1, <1>4 DEF NothingFound
<1>6. result'.kind \notin {"transcript", "apierror"}
  BY DEF EnginesInv
<1>7. CASE cands = <<>> /\ pass < Len(engines)
  <2>1. pass' = pass + 1 /\ phase' = "agent"
    BY <1>7 DEF EndPass
  <2>2. this.found = FALSE
    BY <1>7
  <2>3. NothingFound(Len(passes))'
    BY <1>1, <1>4, <2>2 DEF NothingFound
  <2>4. pass' \in 1..Len(engines)' /\ Len(passes') = pass' - 1
    BY <1>1, <1>4, <1>7, <2>1
  <2> QED BY <1>1, <1>4, <1>5, <1>6, <2>1, <2>3, <2>4 DEF EnginesInv
<1>8. CASE ~(cands = <<>> /\ pass < Len(engines))
  <2>1. phase' \in {"rejected", "expand"}
    BY <1>8 DEF EndPass, Consider
  <2>2. cands # <<>> \/ pass = Len(engines)
    BY <1>1, <1>8
  <2>3. Over'
    <3>1. CASE pass = Len(engines)
      BY <1>4, <3>1 DEF Over
    <3>2. CASE cands # <<>>
      <4>1. this.found
        BY <3>2
      <4> HIDE DEF this
      <4> QED BY <1>4, <4>1 DEF Over
    <3> QED BY <2>2, <3>1, <3>2
  <2> QED BY <1>1, <1>4, <1>5, <1>6, <2>1, <2>3 DEF EnginesInv
<1> QED BY <1>7, <1>8

LEMMA RoundKeeps ==
  ASSUME EnginesInv, UseTools \/ AgentRaises
  PROVE  EnginesInv'
<1>1. CASE UseTools
  <2>1. UNCHANGED <<engines, passes, pass, agentRan, phase, result>>
    BY <1>1 DEF UseTools, given
  <2> QED BY <2>1 DEF EnginesInv, NothingFound, Over
<1>2. CASE AgentRaises
  <2>1. /\ UNCHANGED <<engines, passes, pass, agentRan>>
        /\ phase = "agent" /\ phase' = "done" /\ result' = [kind |-> "apierror"]
    BY <1>2 DEF AgentRaises, given, agent
  <2>2. result'.kind = "apierror"
    BY <2>1
  <2> QED BY <2>1, <2>2 DEF EnginesInv, NothingFound
<1> QED BY <1>1, <1>2

LEMMA TranscriptKeeps ==
  ASSUME EnginesInv, UseTranscript
  PROVE  EnginesInv'
<1>1. /\ UNCHANGED <<engines, passes, pass, agentRan>>
      /\ phase = "rejected" /\ phase' = "done"
      /\ agentRan \/ engines = <<>>
  BY DEF UseTranscript, given, agent
<1>2. result.kind \notin {"transcript", "apierror"} /\ result'.kind \in {"transcript", "notfound"}
  BY <1>1 DEF UseTranscript, EnginesInv
<1> QED BY <1>1, <1>2 DEF EnginesInv, NothingFound, Over

\* Rank ends the search with an answer, or rejects what there is.
LEMMA RankMoves ==
  ASSUME Rank
  PROVE  /\ UNCHANGED <<engines, passes, pass, agentRan>>
         /\ phase = "rank" /\ phase' \in {"rejected", "done"}
         /\ result' = result \/ result'.kind = "found"
<1>1. UNCHANGED <<engines, passes, pass, agentRan>> /\ phase = "rank"
  BY DEF Rank, given, agent
<1>2. phase' \in {"rejected", "done"}
  BY DEF Rank
<1>3. result' = result \/ \E i, c : result' = Found(i, c)
  BY DEF Rank
<1>4. result' = result \/ result'.kind = "found"
  BY <1>3 DEF Found
<1> QED BY <1>1, <1>2, <1>4

\* Whatever the agent finds and however its rounds end, an engine has its turn only
\* when the ones before found nothing, and no transcript is taken for the lyrics
\* before the agent found a text or all of the engines have had theirs.
THEOREM TurnsAreTaken == Spec => []EnginesTakeTurns
<1>1. EnginesInv /\ [Next]_vars => EnginesInv'
  <2> SUFFICES ASSUME EnginesInv, [Next]_vars PROVE EnginesInv'
    OBVIOUS
  <2>1. CASE ParseFilename \/ ProviderAnswers \/ ProviderFails
    BY <2>1, ElsewhereNothingChanges DEF ParseFilename, ProviderAnswers, ProviderFails, given, agent
  <2>2. CASE Collect
    BY <2>2, ElsewhereNothingChanges DEF Collect, Consider, given, agent
  <2>3. CASE Expand \/ Rewrite \/ Score
    BY <2>3, ElsewhereNothingChanges DEF Expand, Rewrite, Score, given, agent
  <2>4. CASE Rank
    <3>1. phase \notin {"agent", "done"} /\ phase' # "agent"
      BY <2>4, RankMoves
    <3> QED BY <2>4, <3>1, RankMoves, ElsewhereNothingChanges
  <2>5. CASE CallAgent
    BY <2>5, CallKeeps
  <2>6. CASE UseTools \/ AgentRaises
    BY <2>6, RoundKeeps
  <2>7. CASE AgentAnswers
    BY <2>7, EndPassKeeps DEF AgentAnswers, given
  <2>8. CASE AgentExhausted
    BY <2>8, EndPassKeeps DEF AgentExhausted, given
  <2>9. CASE UseTranscript
    BY <2>9, TranscriptKeeps
  <2>10. CASE UNCHANGED vars
    BY <2>10 DEF vars, given, agent, EnginesInv, NothingFound, Over
  <2> QED BY <2>1, <2>2, <2>3, <2>4, <2>5, <2>6, <2>7, <2>8, <2>9, <2>10 DEF Next, Returned
<1>2. EnginesInv => EnginesTakeTurns
  <2> SUFFICES ASSUME EnginesInv PROVE EnginesTakeTurns
    OBVIOUS
  <2>1. result.kind = "transcript" /\ engines # <<>> => Over
    BY DEF EnginesInv
  <2> QED BY <2>1 DEF EnginesInv, EnginesTakeTurns, NothingFound, Over
<1> QED BY <1>1, <1>2, EnginesInit, PTL DEF Spec
-----------------------------------------------------------------------------
(* Scores are numbers *)

\* A text that can be scored.
Text(words) == words \in Seq(DOMAIN Lemma) /\ (words # <<>> => Log[Len(words)] \in Nat)

\* The thresholds are numbers, and an exact text has a score that counts as sure.
LEMMA Thresholds ==
  /\ Weak \in Int /\ Margin \in Int /\ Strong \in Int /\ Strong <= 70 * 1000
  /\ GramSize \in Nat /\ AnchorSize \in Nat
<1> DEFINE full == 70 * 1000
<1>1. full \in Int
  OBVIOUS
<1>2. /\ GramSize \in Nat \ {0} /\ AnchorSize \in Nat \ {0} /\ Margin \in Nat
      /\ Weak \in 1..Strong /\ Strong \in 1..full
  BY ScoreAssumption, Zenon DEF ScoreAssumption
<1> HIDE DEF full
<1>3. Strong \in Int /\ Strong <= full
  BY ONLY <1>1, <1>2, SMT
<1>4. Weak \in Int
  BY ONLY <1>2, <1>3, SMT
<1>5. Margin \in Int /\ GramSize \in Nat /\ AnchorSize \in Nat
  BY ONLY <1>2, SMT
<1> QED BY ONLY <1>3, <1>4, <1>5, Zenon DEF full

LEMMA TextsCanBeScored == \A words \in Texts : Text(words)
  BY TextsAssumption DEF TextsAssumption, Text

LEMMA WholeQuotient ==
  ASSUME NEW a \in Int, NEW m \in Nat \ {0}
  PROVE  a \div m \in Int
  OBVIOUS

\* The permille of one natural in another that is no less.
LEMMA PermilleOfMore ==
  ASSUME NEW a \in Nat, NEW m \in Nat \ {0}, a <= m
  PROVE  /\ (1000 * a) \div m \in Nat /\ (1000 * a) \div m <= 1000
         /\ (1000 * a) \div m = 1000 <=> a = m
<1>1. PICK r \in 0..(m - 1) : 1000 * a = m * ((1000 * a) \div m) + r /\ (1000 * a) \div m \in Int
  <2> DEFINE n == 1000 * a
  <2>1. n \in Nat
    OBVIOUS
  <2> HIDE DEF n
  <2>2. \E r \in 0..(m - 1) : n = m * (n \div m) + r /\ n \div m \in Int
    BY <2>1, Quotient
  <2> QED BY <2>2 DEF n
<1> DEFINE x == (1000 * a) \div m
<1>2. x \in Nat
  <2>1. 1000 * a \in Nat
    OBVIOUS
  <2> QED BY <2>1, Rounds
<1> HIDE DEF x
<1>3. 1000 * a = m * x + r
  BY <1>1 DEF x
<1>4. x <= 1000
  <2>1. ASSUME x >= 1001 PROVE FALSE
    <3>1. m * 1001 <= m * x /\ m * x \in Int
      BY <1>2, <2>1, Scales
    <3> QED BY <1>3, <3>1
  <2> QED BY <1>2, <2>1
<1>5. ASSUME a = m PROVE x = 1000
  <2>1. ASSUME x <= 999 PROVE FALSE
    <3>1. m * x <= m * 999 /\ m * x \in Int
      BY <1>2, <2>1, Scales
    <3> QED BY <1>3, <1>5, <3>1
  <2> QED BY <1>2, <1>4, <2>1
<1>6. ASSUME x = 1000 PROVE a = m
  BY <1>3, <1>6
<1> QED BY <1>2, <1>4, <1>5, <1>6 DEF x

LEMMA HitsAreCounted ==
  ASSUME NEW words, Text(words), NEW others, NEW least
  PROVE  /\ Len(words) \in Nat /\ (words # <<>> => Len(words) > 0)
         /\ Hits(words, others, least) \in Nat
<1>1. Len(words) \in Nat /\ DOMAIN words = 1..Len(words) /\ (words # <<>> => Len(words) > 0)
  BY DEF Text
<1> DEFINE S == {i \in DOMAIN words : MatchScore(words[i], ToSet(others)) >= least}
<1>2. IsFiniteSet(DOMAIN words)
  BY <1>1, FS_Interval
<1>3. IsFiniteSet(S)
  <2>1. S \in SUBSET DOMAIN words
    OBVIOUS
  <2> HIDE DEF S
  <2> QED BY <1>2, <2>1, FS_Subset
<1>4. Cardinality(S) \in Nat
  <2> HIDE DEF S
  <2> QED BY <1>3, FS_CardinalityType
<1> QED BY <1>1, <1>4 DEF Hits

LEMMA SharesAreNumbers ==
  ASSUME NEW words, Text(words), words # <<>>, NEW others
  PROVE  Coverage(words, others) \in Nat /\ MatchRate(words, others) \in Nat
<1> DEFINE l == Len(words)
           h(k) == Hits(words, others, k)
<1>1. l \in Nat \ {0} /\ h(1) \in Nat /\ h(2) \in Nat /\ h(3) \in Nat
  BY HitsAreCounted
<1> HIDE DEF l, h
<1>2. 1000 * h(2) \in Nat /\ 1000 * (h(1) + h(2) + h(3)) \in Nat /\ 3 * l \in Nat \ {0}
  BY <1>1
<1>3. (1000 * h(2)) \div l \in Nat
  <2> DEFINE a == 1000 * h(2)
  <2>1. a \in Nat
    BY <1>2
  <2> HIDE DEF a
  <2>2. a \div l \in Nat
    BY <1>1, <2>1, Rounds
  <2> QED BY <2>2 DEF a
<1>4. (1000 * (h(1) + h(2) + h(3))) \div (3 * l) \in Nat
  <2> DEFINE a == 1000 * (h(1) + h(2) + h(3))
             m == 3 * l
  <2>1. a \in Nat /\ m \in Nat \ {0}
    BY <1>2
  <2> HIDE DEF a, m
  <2>2. a \div m \in Nat
    BY <2>1, Rounds
  <2> QED BY <2>2 DEF a, m
<1> QED BY <1>3, <1>4 DEF Coverage, MatchRate, l, h

LEMMA MeansAreNumbers ==
  ASSUME NEW a \in Nat, NEW b \in Nat
  PROVE  HarmonicMean(a, b) \in Nat
<1>1. CASE a + b = 0
  BY <1>1 DEF HarmonicMean
<1>2. CASE a + b # 0
  <2>1. 2 * a * b \in Nat /\ a + b \in Nat \ {0}
    BY <1>2
  <2>2. (2 * a * b) \div (a + b) \in Nat
    BY <2>1, Rounds
  <2> QED BY <1>2, <2>2 DEF HarmonicMean
<1> QED BY <1>1, <1>2

LEMMA GramsAreFinite ==
  ASSUME NEW keys, Len(keys) \in Nat, NEW n \in Nat
  PROVE  IsFiniteSet(Grams(keys, n))
<1> DEFINE I == 1..(Len(keys) - n + 1)
           f == [i \in I |-> SubSeq(keys, i, i + n - 1)]
<1>1. IsFiniteSet(DOMAIN f) /\ DOMAIN f = I
  <2>1. Len(keys) - n + 1 \in Int
    OBVIOUS
  <2> QED BY <2>1, FS_Interval
<1>2. f = [i \in DOMAIN f |-> f[i]]
  OBVIOUS
<1>3. IsFiniteSet({f[i] : i \in DOMAIN f})
  <2> HIDE DEF f
  <2> QED BY <1>1, <1>2, ValuesAreFinite
<1>4. Grams(keys, n) = {f[i] : i \in DOMAIN f}
  BY Zenon DEF Grams
<1> QED BY <1>3, <1>4

LEMMA PhrasesAreFinite ==
  ASSUME NEW words, Text(words)
  PROVE  IsFiniteSet(SoundGrams(words)) /\ IsFiniteSet(LemmaGrams(words))
<1>1. Len(words) \in Nat /\ DOMAIN words = 1..Len(words)
  BY DEF Text
<1>2. ASSUME NEW F PROVE Len([i \in DOMAIN words |-> F[words[i]]]) \in Nat
  BY <1>1
<1>3. GramSize \in Nat /\ AnchorSize \in Nat
  BY ONLY Thresholds, Zenon
<1> QED BY <1>2, <1>3, GramsAreFinite DEF SoundGrams, LemmaGrams

LEMMA SimilaritiesAreNumbers ==
  ASSUME NEW S, NEW T, IsFiniteSet(S), IsFiniteSet(T)
  PROVE  Jaccard(S, T) \in Int
<1>1. CASE S = {} \/ T = {}
  BY <1>1 DEF Jaccard
<1>2. CASE ~(S = {} \/ T = {})
  <2>1. IsFiniteSet(S \cap T) /\ IsFiniteSet(S \cup T)
    BY FS_Intersection, FS_Union
  <2>2. Cardinality(S \cap T) \in Nat /\ Cardinality(S \cup T) \in Nat
    BY <2>1, FS_CardinalityType
  <2>3. Cardinality(S \cup T) # 0
    <3>1. S \cup T # {}
      BY <1>2
    <3> QED BY <2>1, <3>1, FS_EmptySet
  <2>4. 1000 * Cardinality(S \cap T) \in Int /\ Cardinality(S \cup T) \in Nat \ {0}
    BY <2>2, <2>3
  <2> QED BY <1>2, <2>4, WholeQuotient DEF Jaccard
<1> QED BY <1>1, <1>2

LEMMA ExtremesAreNumbers ==
  ASSUME NEW a \in Int, NEW b \in Int
  PROVE  Min({a, b}) \in Int /\ Max({a, b}) \in Int
<1>1. Min({a, b}) \in {a, b} /\ Max({a, b}) \in {a, b}
  BY ExtremesOfTwo
<1> QED BY <1>1

LEMMA PenaltiesAreNumbers ==
  ASSUME NEW asr_, NEW words, Text(asr_), Text(words), asr_ # <<>>, words # <<>>
  PROVE  LengthPenalty(asr_, words) \in Int
<1> DEFINE a == Log[Len(words)] - Log[Len(asr_)]
           b == Log[Len(asr_)] - Log[Len(words)]
<1>1. a \in Int /\ b \in Int
  BY DEF Text
<1> HIDE DEF a, b
<1>2. Max({a, b}) \in Int
  BY <1>1, ExtremesAreNumbers
<1>3. Min({1000, Max({a, b})}) \in Int
  <2> DEFINE thousand == 1000
  <2>1. thousand \in Int
    OBVIOUS
  <2> HIDE DEF thousand
  <2>2. Min({thousand, Max({a, b})}) \in Int
    BY <1>2, <2>1, ExtremesAreNumbers
  <2> QED BY <2>2 DEF thousand
<1> QED BY <1>3 DEF LengthPenalty, a, b

LEMMA HintsAreNumbers ==
  ASSUME NEW c, NEW as, NEW ts
  PROVE  HintScore(c, as, ts) \in Int
<1> DEFINE fits(side, names) == IF side \in names THEN 1000 ELSE 0
           sides == (IF as = {} THEN 0 ELSE 1) + (IF ts = {} THEN 0 ELSE 1)
           x == fits(c.artist, as) + fits(c.title, ts)
<1>1. sides \in Nat /\ x \in Int
  <2>1. fits(c.artist, as) \in {0, 1000}
    BY Zenon
  <2>2. fits(c.title, ts) \in {0, 1000}
    BY Zenon
  <2>3. (IF as = {} THEN 0 ELSE 1) \in {0, 1} /\ (IF ts = {} THEN 0 ELSE 1) \in {0, 1}
    BY Zenon
  <2> DEFINE u == fits(c.artist, as)
             v == fits(c.title, ts)
             y == IF as = {} THEN 0 ELSE 1
             z == IF ts = {} THEN 0 ELSE 1
  <2>4. u \in {0, 1000} /\ v \in {0, 1000} /\ y \in {0, 1} /\ z \in {0, 1}
    BY <2>1, <2>2, <2>3
  <2>5. sides = y + z /\ x = u + v
    BY Zenon
  <2> HIDE DEF fits, sides, x, u, v, y, z
  <2> QED BY <2>4, <2>5
<1>2. HintScore(c, as, ts) = IF sides = 0 THEN 0 ELSE x \div sides
  BY DEF HintScore
<1> HIDE DEF sides, x
<1> QED BY <1>1, <1>2, WholeQuotient

\* What the rare phrases of a text weigh.
LEMMA AnchorsAreNumbers ==
  ASSUME NEW asr_, Text(asr_), NEW texts, IsFiniteSet(DOMAIN texts),
         \A i \in DOMAIN texts : Text(texts[i])
  PROVE  \A i \in DOMAIN texts : ShareOf(RareAnchors(asr_, texts), i) \in 0..1000
<1> DEFINE grams(i) == {<<i, g>> : g \in LemmaGrams(texts[i])}
           held == UNION {grams(i) : i \in DOMAIN texts}
           of(i) == {p \in held : p[1] = i}
           same(p) == {q \in held : q[2] = p[2]}
           weight == [p \in held |-> 1000 \div Cardinality(same(p))]
           shared(i) == {p \in of(i) : p[2] \in LemmaGrams(asr_)}
           size(i) == Max({Cardinality(of(i)), 1})
           density(i) == SumOf(weight, shared(i)) \div size(i)
           dense == {<<i, density(i)>> : i \in DOMAIN texts}
           most == Max({p[2] : p \in dense} \cup {1})
           anchors == {<<p[1], (1000 * p[2]) \div most>> : p \in dense}
<1>1. RareAnchors(asr_, texts) = anchors
  BY Zenon DEF RareAnchors, SumOf
<1>2. IsFiniteSet(held)
  <2>1. ASSUME NEW i \in DOMAIN texts PROVE IsFiniteSet(grams(i))
    <3> DEFINE G == LemmaGrams(texts[i])
               f == [g \in G |-> <<i, g>>]
    <3>1. IsFiniteSet(G)
      BY PhrasesAreFinite
    <3> HIDE DEF G
    <3>2. IsFiniteSet(DOMAIN f) /\ f = [g \in DOMAIN f |-> f[g]]
      BY <3>1
    <3>3. IsFiniteSet({f[g] : g \in DOMAIN f})
      <4> HIDE DEF f
      <4> QED BY <3>2, ValuesAreFinite
    <3>4. grams(i) = {f[g] : g \in DOMAIN f}
      BY Zenon DEF G
    <3> QED BY <3>3, <3>4
  <2> DEFINE rows == [i \in DOMAIN texts |-> grams(i)]
  <2>2. IsFiniteSet({rows[i] : i \in DOMAIN rows})
    <3>1. DOMAIN rows = DOMAIN texts /\ rows = [i \in DOMAIN rows |-> rows[i]]
      BY Zenon
    <3> HIDE DEF rows
    <3> QED BY <3>1, ValuesAreFinite
  <2>3. {grams(i) : i \in DOMAIN texts} = {rows[i] : i \in DOMAIN rows}
    BY Zenon
  <2>4. IsFiniteSet({grams(i) : i \in DOMAIN texts})
    BY <2>2, <2>3
  <2>5. \A T \in {grams(i) : i \in DOMAIN texts} : IsFiniteSet(T)
    BY <2>1
  <2> HIDE DEF grams
  <2> QED BY <2>4, <2>5, FS_UNION
<1> HIDE DEF held
<1>3. \A p \in held : weight[p] \in Nat
  <2> TAKE p \in held
  <2>1. IsFiniteSet(same(p)) /\ p \in same(p)
    BY <1>2, FS_Subset
  <2>2. Cardinality(same(p)) \in Nat \ {0}
    <3> HIDE DEF same
    <3>1. same(p) # {}
      BY <2>1
    <3> QED BY <2>1, <3>1, FS_CardinalityType, FS_EmptySet
  <2>3. 1000 \div Cardinality(same(p)) \in Nat
    <3> HIDE DEF same
    <3> QED BY <2>2, Rounds
  <2> QED BY <2>3
<1>4. ASSUME NEW S, S \subseteq held PROVE SumOf(weight, S) \in Nat
  <2> HIDE DEF weight
  <2>1. IsFiniteSet(S)
    BY <1>2, <1>4, FS_Subset
  <2>2. \A y \in S : weight[y] \in Nat
    BY <1>3, <1>4
  <2> QED BY <2>1, <2>2, SumIsNatural
<1>5. \A i : SumOf(weight, shared(i)) \in Nat
  <2> TAKE i
  <2>1. shared(i) \subseteq held
    OBVIOUS
  <2> HIDE DEF weight, shared
  <2> QED BY <1>4, <2>1
<1>6. \A i : size(i) \in Nat \ {0}
  <2> TAKE i
  <2>1. IsFiniteSet(of(i))
    BY <1>2, FS_Subset
  <2> DEFINE c == Cardinality(of(i))
  <2>2. c \in Nat
    <3> HIDE DEF of
    <3> QED BY <2>1, FS_CardinalityType
  <2> DEFINE one == 1
  <2>3. c \in Int /\ one \in Int
    BY <2>2
  <2> HIDE DEF c, one
  <2>4. Max({c, one}) \in {c, one} /\ Max({c, one}) >= one
    BY <2>3, ExtremesOfTwo
  <2>5. Max({c, one}) \in Nat \ {0}
    BY <2>3, <2>4 DEF one
  <2> QED BY <2>5 DEF c, one
<1>7. \A i : density(i) \in Nat
  <2> TAKE i
  <2> DEFINE a == SumOf(weight, shared(i))
             m == size(i)
  <2>1. a \in Nat /\ m \in Nat \ {0}
    BY <1>5, <1>6, Zenon
  <2> HIDE DEF a, m
  <2>2. a \div m \in Nat
    BY <2>1, Rounds
  <2> QED BY <2>2 DEF a, m
<1> HIDE DEF density
<1>8. most \in Nat \ {0} /\ \A i \in DOMAIN texts : density(i) <= most
  <2> DEFINE V == {p[2] : p \in dense}
             f == [i \in DOMAIN texts |-> density(i)]
  <2>1. V = {f[i] : i \in DOMAIN f}
    <3>1. \A i \in DOMAIN texts : <<i, density(i)>>[2] = f[i]
      OBVIOUS
    <3>2. \A v \in V : \E i \in DOMAIN texts : v = density(i)
      OBVIOUS
    <3>3. \A i \in DOMAIN texts : density(i) \in V
      <4> TAKE i \in DOMAIN texts
      <4> DEFINE q == <<i, density(i)>>
      <4>1. q \in dense /\ q[2] = density(i)
        OBVIOUS
      <4> HIDE DEF q, dense
      <4> QED BY <4>1
    <3> QED BY <3>1, <3>2, <3>3
  <2>2. IsFiniteSet({f[i] : i \in DOMAIN f})
    <3>1. DOMAIN f = DOMAIN texts /\ f = [i \in DOMAIN f |-> f[i]]
      BY Zenon
    <3> HIDE DEF f
    <3> QED BY <3>1, ValuesAreFinite
  <2>3. V \subseteq Int /\ \A i \in DOMAIN texts : density(i) \in V
    BY <1>7, <2>1
  <2> HIDE DEF V
  <2>4. IsFiniteSet(V \cup {1}) /\ V \cup {1} # {} /\ V \cup {1} \subseteq Int
    <3>1. IsFiniteSet(V)
      BY <2>1, <2>2
    <3>2. IsFiniteSet({1})
      BY FS_Singleton, Zenon
    <3>3. IsFiniteSet(V \cup {1})
      BY <3>1, <3>2, FS_Union, Zenon
    <3> QED BY <2>3, <3>3
  <2>5. /\ Max(V \cup {1}) \in Int /\ 1 <= Max(V \cup {1})
        /\ \A v \in V : v <= Max(V \cup {1})
    <3> DEFINE W == V \cup {1}
    <3>1. IsFiniteSet(W) /\ W # {} /\ W \subseteq Int /\ 1 \in W
      BY <2>4
    <3> HIDE DEF W
    <3>2. Max(W) \in W /\ \A x \in W : x <= Max(W)
      BY <3>1, Extremes
    <3>3. Max(W) \in Int /\ 1 <= Max(W)
      BY <3>1, <3>2
    <3>4. \A v \in V : v <= Max(W)
      <4>1. \A v \in V : v \in W
        BY DEF W
      <4> QED BY <3>2, <4>1
    <3> QED BY <3>3, <3>4 DEF W
  <2>6. Max(V \cup {1}) \in Nat \ {0} /\ \A i \in DOMAIN texts : density(i) <= Max(V \cup {1})
    <3> DEFINE m == Max(V \cup {1})
    <3>1. m \in Int /\ 1 <= m /\ \A v \in V : v <= m
      BY <2>5, Zenon
    <3>2. \A i \in DOMAIN texts : density(i) <= m
      BY <2>3, <3>1, Zenon
    <3> HIDE DEF m
    <3>3. m \in Nat \ {0}
      BY <3>1
    <3> QED BY <3>2, <3>3 DEF m
  <2>7. most = Max(V \cup {1})
    BY Zenon DEF V
  <2> HIDE DEF most
  <2> QED BY <2>6, <2>7
<1> HIDE DEF most
<1>9. ASSUME NEW i \in DOMAIN texts PROVE ShareOf(anchors, i) \in 0..1000
  <2>1. \A p \in dense : p[2] \in Nat /\ p[2] <= most
    BY <1>7, <1>8
  <2> HIDE DEF dense
  <2>2. \A p \in anchors : p[2] \in 0..1000
    <3>1. ASSUME NEW p \in dense PROVE (1000 * p[2]) \div most \in 0..1000
      <4> DEFINE d == p[2]
      <4>1. d \in Nat /\ d <= most /\ most \in Nat \ {0}
        BY <1>8, <2>1
      <4> HIDE DEF d
      <4>2. (1000 * d) \div most \in Nat /\ (1000 * d) \div most <= 1000
        BY <4>1, PermilleOfMore
      <4> QED BY <4>2 DEF d
    <3> QED BY <3>1
  <2>3. \E p \in anchors : p[1] = i
    <3> DEFINE q == <<i, density(i)>>
               p == <<q[1], (1000 * q[2]) \div most>>
    <3>1. q \in dense /\ q[1] = i
      BY DEF dense
    <3> HIDE DEF q
    <3>2. p \in anchors /\ p[1] = q[1]
      BY <3>1
    <3> HIDE DEF anchors, p
    <3> QED BY <3>1, <3>2
  <2> HIDE DEF anchors
  <2>4. (CHOOSE p \in anchors : p[1] = i)[2] \in 0..1000
    BY ONLY <2>2, <2>3, SMTT(20)
  <2> QED BY <2>4 DEF ShareOf
<1> QED BY <1>1, <1>9

\* What a text scores, before it is cut off.
Worth(asr_, words, anchor, hint) ==
  55 * HarmonicMean(Coverage(asr_, words), Coverage(words, asr_))
    + 15 * MatchRate(asr_, words)
    + 10 * Jaccard(SoundGrams(asr_), SoundGrams(words))
    + 20 * anchor
    + 30 * hint
    - 10 * LengthPenalty(asr_, words)

LEMMA WorthIsNumber ==
  ASSUME NEW asr_, NEW words, Text(asr_), Text(words), asr_ # <<>>, words # <<>>,
         NEW anchor \in Int, NEW hint \in Int
  PROVE  /\ Worth(asr_, words, anchor, hint) \in Int
         /\ HarmonicMean(Coverage(asr_, words), Coverage(words, asr_)) \in Nat
         /\ MatchRate(asr_, words) \in Nat
         /\ Jaccard(SoundGrams(asr_), SoundGrams(words)) \in Int
         /\ LengthPenalty(asr_, words) \in Int
<1> DEFINE m == HarmonicMean(Coverage(asr_, words), Coverage(words, asr_))
           r == MatchRate(asr_, words)
           j == Jaccard(SoundGrams(asr_), SoundGrams(words))
           l == LengthPenalty(asr_, words)
           x == 55 * m + 15 * r + 10 * j + 20 * anchor + 30 * hint - 10 * l
<1>1. m \in Nat
  <2>1. Coverage(asr_, words) \in Nat /\ Coverage(words, asr_) \in Nat
    BY SharesAreNumbers
  <2> QED BY <2>1, MeansAreNumbers
<1>2. r \in Nat
  BY SharesAreNumbers
<1>3. j \in Int
  BY PhrasesAreFinite, SimilaritiesAreNumbers
<1>4. l \in Int
  BY PenaltiesAreNumbers
<1>5. Worth(asr_, words, anchor, hint) = x
  BY DEF Worth
<1>6. x \in Int
  <2> HIDE DEF m, r, j, l
  <2> QED BY <1>1, <1>2, <1>3, <1>4
<1> HIDE DEF x
<1> QED BY <1>1, <1>2, <1>3, <1>4, <1>5, <1>6

\* The cut leaves what is worth no less than nothing and no more than the full score.
LEMMA CutOff ==
  ASSUME NEW x \in Int, NEW most \in Nat
  PROVE  /\ Max({0, Min({most, x})}) \in Nat /\ Max({0, Min({most, x})}) <= most
         /\ 0 <= x /\ x <= most => Max({0, Min({most, x})}) = x
         /\ x < 0 => Max({0, Min({most, x})}) = 0
<1> DEFINE none == 0
           y == Min({most, x})
           z == Max({none, y})
<1>1. none = 0 /\ none \in Int /\ most \in Int
  OBVIOUS
<1> HIDE DEF none
<1>2. y \in {most, x} /\ y <= most /\ y <= x
  BY <1>1, ExtremesOfTwo
<1>3. y \in Int
  BY <1>1, <1>2
<1> HIDE DEF y
<1>4. z \in {none, y} /\ z >= none /\ z >= y
  BY <1>1, <1>3, ExtremesOfTwo
<1> HIDE DEF z
<1>5. z \in Int
  BY <1>1, <1>3, <1>4
<1>6. z \in Nat /\ z <= most
  BY <1>1, <1>2, <1>3, <1>4, <1>5
<1>7. ASSUME 0 <= x, x <= most PROVE z = x
  BY <1>1, <1>2, <1>3, <1>4, <1>5, <1>7
<1>8. ASSUME x < 0 PROVE z = 0
  BY <1>1, <1>2, <1>3, <1>4, <1>5, <1>8
<1>9. Max({0, Min({most, x})}) = z
  <2>1. Min({most, x}) = y
    BY DEF y
  <2>2. Max({0, y}) = z
    BY <1>1 DEF z
  <2> QED BY <2>1, <2>2
<1> QED BY <1>6, <1>7, <1>8, <1>9

LEMMA CompositesAreNumbers ==
  ASSUME NEW asr_, NEW words, Text(asr_), Text(words), NEW anchor \in Int, NEW hint \in Int
  PROVE  Composite(asr_, words, anchor, hint) \in Int
<1>1. CASE asr_ = <<>> \/ words = <<>>
  BY <1>1 DEF Composite
<1>2. CASE ~(asr_ = <<>> \/ words = <<>>)
  <2> DEFINE x == Worth(asr_, words, anchor, hint)
  <2>1. x \in Int
    BY <1>2, WorthIsNumber
  <2>2. Composite(asr_, words, anchor, hint) = Max({0, Min({FullScore, x})})
    BY <1>2 DEF Composite, Worth
  <2>3. FullScore \in Nat
    BY DEF FullScore
  <2> HIDE DEF x
  <2>4. Max({0, Min({FullScore, x})}) \in Nat
    BY <2>1, <2>3, CutOff
  <2> QED BY <2>2, <2>3, <2>4
<1> QED BY <1>1, <1>2

LEMMA AllScoresAreNumbers ==
  ASSUME NEW asr_, Text(asr_), NEW texts, IsFiniteSet(DOMAIN texts), NEW hints,
         \A i \in DOMAIN texts : Text(texts[i]) /\ hints[i] \in Int
  PROVE  /\ DOMAIN ScoreAll(asr_, texts, hints) = DOMAIN texts
         /\ \A i \in DOMAIN texts : ScoreAll(asr_, texts, hints)[i] \in Int
<1> DEFINE share(i) == ShareOf(RareAnchors(asr_, texts), i)
<1>1. \A i \in DOMAIN texts : share(i) \in Int
  <2>1. \A i \in DOMAIN texts : share(i) \in 0..1000
    BY AnchorsAreNumbers
  <2> HIDE DEF share
  <2> QED BY <2>1
<1>2. ScoreAll(asr_, texts, hints) =
        [i \in DOMAIN texts |-> Composite(asr_, texts[i], share(i), hints[i])]
  BY Zenon DEF ScoreAll
<1> HIDE DEF share
<1>3. \A i \in DOMAIN texts : Composite(asr_, texts[i], share(i), hints[i]) \in Int
  BY <1>1, CompositesAreNumbers
<1> QED BY <1>2, <1>3

-----------------------------------------------------------------------------
(* Exactly what was heard *)

\* Only a word that is among the others has the full score.
LEMMA FullMatch ==
  ASSUME NEW w, NEW S
  PROVE  MatchScore(w, S) \in 0..3 /\ (MatchScore(w, S) >= 3 <=> w \in S)
  BY DEF MatchScore

\* All are hits when there are as many hits as words.
LEMMA HitsAreFew ==
  ASSUME NEW words, Text(words), NEW others, NEW least
  PROVE  /\ Hits(words, others, least) <= Len(words)
         /\ Hits(words, others, least) = Len(words) <=>
              \A i \in DOMAIN words : MatchScore(words[i], ToSet(others)) >= least
<1> DEFINE D == DOMAIN words
           S == {i \in DOMAIN words : MatchScore(words[i], ToSet(others)) >= least}
<1>1. IsFiniteSet(D) /\ Cardinality(D) = Len(words)
  <2>1. Len(words) \in Nat /\ D = 1..Len(words)
    BY DEF Text
  <2>2. ASSUME NEW n \in Nat PROVE IsFiniteSet(1..n) /\ Cardinality(1..n) = n
    <3>1. IsFiniteSet(1..n) /\ Cardinality(1..n) = IF 1 > n THEN 0 ELSE n - 1 + 1
      BY FS_Interval
    <3>2. (IF 1 > n THEN 0 ELSE n - 1 + 1) = n
      OBVIOUS
    <3> QED BY <3>1, <3>2
  <2> QED BY <2>1, <2>2
<1>2. S \in SUBSET D
  OBVIOUS
<1>3. (\A i \in D : MatchScore(words[i], ToSet(others)) >= least) <=> S = D
  BY Zenon
<1> HIDE DEF S, D
<1>4. Cardinality(S) <= Cardinality(D) /\ (Cardinality(S) = Cardinality(D) <=> S = D)
  BY <1>1, <1>2, FS_Subset
<1>5. Hits(words, others, least) = Cardinality(S)
  BY Zenon DEF Hits, S
<1> QED BY <1>1, <1>3, <1>4, <1>5 DEF D

LEMMA SharesOfText ==
  ASSUME NEW words, Text(words), words # <<>>, NEW others
  PROVE  /\ Coverage(words, others) \in Nat /\ Coverage(words, others) <= 1000
         /\ MatchRate(words, others) \in Nat /\ MatchRate(words, others) <= 1000
         /\ MatchRate(words, others) = 1000 => ToSet(words) \subseteq ToSet(others)
         /\ ToSet(words) \subseteq ToSet(others) =>
              Coverage(words, others) = 1000 /\ MatchRate(words, others) = 1000
<1> DEFINE l == Len(words)
           h(k) == Hits(words, others, k)
           all(k) == \A i \in DOMAIN words : MatchScore(words[i], ToSet(others)) >= k
<1>1. /\ l \in Nat \ {0} /\ h(1) \in Nat /\ h(2) \in Nat /\ h(3) \in Nat
      /\ h(1) <= l /\ h(2) <= l /\ h(3) <= l
  BY HitsAreCounted, HitsAreFew
<1>2. (h(1) = l <=> all(1)) /\ (h(2) = l <=> all(2)) /\ (h(3) = l <=> all(3))
  BY HitsAreFew
<1>3. all(3) <=> ToSet(words) \subseteq ToSet(others)
  <2>1. all(3) <=> \A i \in DOMAIN words : words[i] \in ToSet(others)
    BY FullMatch
  <2> QED BY <2>1 DEF ToSet
<1>4. all(3) => all(1) /\ all(2)
  <2>1. \A i \in DOMAIN words : MatchScore(words[i], ToSet(others)) \in 0..3
    BY FullMatch
  <2> QED BY <2>1
<1> DEFINE a == h(1) + h(2) + h(3)
           m == 3 * l
<1>5. a \in Nat /\ m \in Nat \ {0} /\ a <= m /\ (a = m => h(3) = l)
  <2> HIDE DEF h, l
  <2> QED BY <1>1
<1>6. h(1) = l /\ h(2) = l /\ h(3) = l => a = m
  <2> HIDE DEF h, l
  <2> QED BY <1>1
<1>7. Coverage(words, others) = (1000 * h(2)) \div l /\ MatchRate(words, others) = (1000 * a) \div m
  BY DEF Coverage, MatchRate
<1> HIDE DEF h, l, all, a, m
<1>8. /\ (1000 * h(2)) \div l \in Nat /\ (1000 * h(2)) \div l <= 1000
      /\ (1000 * h(2)) \div l = 1000 <=> h(2) = l
  <2> DEFINE b == h(2)
  <2>1. b \in Nat /\ b <= l /\ l \in Nat \ {0}
    BY <1>1
  <2> HIDE DEF b
  <2>2. /\ (1000 * b) \div l \in Nat /\ (1000 * b) \div l <= 1000
        /\ (1000 * b) \div l = 1000 <=> b = l
    BY <2>1, PermilleOfMore
  <2> QED BY <2>2 DEF b
<1>9. /\ (1000 * a) \div m \in Nat /\ (1000 * a) \div m <= 1000
      /\ (1000 * a) \div m = 1000 <=> a = m
  BY <1>5, PermilleOfMore
<1> QED BY <1>2, <1>3, <1>4, <1>5, <1>6, <1>7, <1>8, <1>9

LEMMA MeansOfShares ==
  ASSUME NEW a \in Nat, NEW b \in Nat, a <= 1000, b <= 1000
  PROVE  /\ HarmonicMean(a, b) \in Nat /\ HarmonicMean(a, b) <= 1000
         /\ a = 1000 /\ b = 1000 => HarmonicMean(a, b) = 1000
<1>1. HarmonicMean(a, b) \in Nat
  BY MeansAreNumbers
<1>2. CASE a + b = 0
  BY <1>2 DEF HarmonicMean
<1>3. CASE a + b # 0
  <2> DEFINE m == a + b
             p == 2 * a * b
             q == 1000 * m
  <2>1. m \in Nat \ {0} /\ p \in Nat /\ q \in Nat
    BY <1>3
  <2>2. p <= q /\ (a = 1000 /\ b = 1000 => p = q)
    <3>1. a * b <= a * 1000 /\ b * a <= b * 1000
      BY Scales
    <3> QED BY <3>1
  <2>3. HarmonicMean(a, b) = p \div m
    BY <1>3 DEF HarmonicMean
  <2>4. q \div m = 1000
    <3> HIDE DEF m
    <3> QED BY <2>1, PermilleOfMore
  <2> HIDE DEF p, q, m
  <2>5. p \div m <= q \div m
    BY <2>1, <2>2, Rounds
  <2> QED BY <1>1, <2>2, <2>3, <2>4, <2>5
<1> QED BY <1>2, <1>3

\* No phrases are more similar to some than these are to themselves.
LEMMA MostSimilar ==
  ASSUME NEW S, NEW T, IsFiniteSet(S), IsFiniteSet(T)
  PROVE  /\ Jaccard(S, S) \in Nat /\ Jaccard(S, S) <= 1000
         /\ Jaccard(S, T) \in Int /\ Jaccard(S, T) <= Jaccard(S, S)
         /\ Jaccard(S, T) = Jaccard(S, S) => S \in {{}, T}
<1>1. CASE S = {}
  <2>1. Jaccard(S, T) = 0 /\ Jaccard(S, S) = 0
    BY <1>1 DEF Jaccard
  <2> QED BY <1>1, <2>1
<1>2. CASE S # {}
  <2> DEFINE a == Cardinality(S \cap T)
             m == Cardinality(S \cup T)
             c == Cardinality(S)
  <2>1. /\ IsFiniteSet(S \cup T) /\ IsFiniteSet(S \cap T) /\ S \cap T \in SUBSET (S \cup T)
        /\ S \cup T # {}
    BY <1>2, FS_Union, FS_Intersection
  <2>2. a \in Nat /\ m \in Nat \ {0} /\ c \in Nat \ {0}
    BY <1>2, <2>1, FS_CardinalityType, FS_EmptySet
  <2>3. a <= m /\ (a = m => S \cap T = S \cup T)
    BY <2>1, FS_Subset
  <2>4. Jaccard(S, S) = (1000 * c) \div c
    <3> DEFINE I == S \cap S
               U == S \cup S
    <3>1. I = S /\ U = S
      OBVIOUS
    <3>2. Jaccard(S, S) = (1000 * Cardinality(I)) \div Cardinality(U)
      BY <1>2, Zenon DEF Jaccard
    <3> HIDE DEF I, U
    <3> QED BY <3>1, <3>2
  <2>5. T = {} => Jaccard(S, T) = 0
    BY DEF Jaccard
  <2>6. T # {} => Jaccard(S, T) = (1000 * a) \div m
    BY <1>2 DEF Jaccard
  <2> HIDE DEF a, m, c
  <2>7. /\ (1000 * a) \div m \in Nat /\ (1000 * a) \div m <= 1000
        /\ (1000 * a) \div m = 1000 <=> a = m
    BY <2>2, <2>3, PermilleOfMore
  <2>8. (1000 * c) \div c = 1000
    BY <2>2, PermilleOfMore
  <2>9. Jaccard(S, S) = 1000 /\ Jaccard(S, T) \in Nat /\ Jaccard(S, T) <= 1000
    BY <2>4, <2>5, <2>6, <2>7, <2>8
  <2>10. Jaccard(S, T) = 1000 => S = T
    <3>1. Jaccard(S, T) = 1000 => a = m
      BY <2>5, <2>6, <2>7
    <3> QED BY <2>3, <3>1
  <2> QED BY <2>9, <2>10
<1> QED BY <1>1, <1>2

LEMMA PenaltiesOfLength ==
  ASSUME NEW asr_, NEW words, Text(asr_), Text(words), asr_ # <<>>, words # <<>>
  PROVE  LengthPenalty(asr_, words) >= 0 /\ LengthPenalty(asr_, asr_) = 0
<1> DEFINE thousand == 1000
<1>0. thousand \in Int
  OBVIOUS
<1>1. thousand = 1000
  OBVIOUS
<1> HIDE DEF thousand
<1>2. ASSUME NEW a \in Int, NEW b \in Int, a + b = 0
      PROVE  /\ Min({thousand, Max({a, b})}) >= 0
             /\ a = 0 => Min({thousand, Max({a, b})}) = 0
  <2> DEFINE y == Max({a, b})
             z == Min({thousand, y})
  <2>0. Min({thousand, Max({a, b})}) = z
    OBVIOUS
  <2>1. y \in {a, b} /\ y >= a /\ y >= b
    BY ExtremesOfTwo
  <2> HIDE DEF y, z
  <2>2. y \in Int
    BY <2>1
  <2>3. y >= 0 /\ (a = 0 => y = 0)
    BY <1>2, <2>1, <2>2
  <2>4. z \in {thousand, y} /\ z <= thousand /\ z <= y
    <3>1. ASSUME NEW x \in Int, NEW v \in Int
          PROVE  Min({x, v}) \in {x, v} /\ Min({x, v}) <= x /\ Min({x, v}) <= v
      BY ExtremesOfTwo
    <3>2. Min({thousand, y}) \in {thousand, y} /\ Min({thousand, y}) <= thousand /\ Min({thousand, y}) <= y
      BY <1>0, <2>2, <3>1
    <3> QED BY <3>2 DEF z
  <2>5. z >= 0 /\ (a = 0 => z = 0)
    BY <1>0, <1>1, <2>2, <2>3, <2>4
  <2> QED BY <2>0, <2>5
<1> DEFINE u == Log[Len(words)]
           v == Log[Len(asr_)]
<1>3. u \in Int /\ v \in Int
  BY DEF Text
<1>4. /\ LengthPenalty(asr_, words) = Min({thousand, Max({u - v, v - u})})
      /\ LengthPenalty(asr_, asr_) = Min({thousand, Max({v - v, v - v})})
  BY <1>1 DEF LengthPenalty
<1> HIDE DEF u, v
<1>5. u - v \in Int /\ v - u \in Int /\ (u - v) + (v - u) = 0 /\ v - v = 0 /\ (v - v) + (v - v) = 0
  BY <1>3
<1>6. Min({thousand, Max({u - v, v - u})}) >= 0
  BY <1>2, <1>5
<1>7. Min({thousand, Max({v - v, v - v})}) = 0
  <2> DEFINE d == v - v
  <2>1. d \in Int /\ d + d = 0 /\ d = 0
    BY <1>5
  <2> HIDE DEF d
  <2>2. Min({thousand, Max({d, d})}) = 0
    BY <1>2, <2>1
  <2> QED BY <2>2 DEF d
<1> QED BY <1>4, <1>6, <1>7

\* Without hints, exactly what was heard scores no less than any other text that is not
\* denser in rare phrases, and only a text that holds the same scores as much.
LEMMA ExactScoresMost ==
  ASSUME NEW asr_, NEW words, Text(asr_), Text(words), asr_ # <<>>,
         NEW a \in Nat, NEW b \in Nat, a <= 1000, b <= 1000
  PROVE  /\ Composite(asr_, asr_, b, 0) \in Int /\ Composite(asr_, words, a, 0) \in Int
         /\ Composite(asr_, asr_, b, 0) >= 70 * 1000
         /\ a <= b => Composite(asr_, words, a, 0) <= Composite(asr_, asr_, b, 0)
         /\ a <= b /\ Composite(asr_, words, a, 0) = Composite(asr_, asr_, b, 0) =>
              /\ ToSet(asr_) \subseteq ToSet(words)
              /\ SoundGrams(asr_) \in {{}, SoundGrams(words)}
<1> DEFINE none == 0
           best == Worth(asr_, asr_, b, none)
           j0 == Jaccard(SoundGrams(asr_), SoundGrams(asr_))
           cut(x) == Max({0, Min({FullScore, x})})
<1>0. none = 0 /\ none \in Int
  OBVIOUS
<1> HIDE DEF none
<1>1. FullScore \in Nat /\ FullScore = 100 * 1000
  BY DEF FullScore
<1>2. j0 \in Nat /\ j0 <= 1000
  <2> DEFINE S == SoundGrams(asr_)
  <2>1. IsFiniteSet(S)
    BY PhrasesAreFinite
  <2> HIDE DEF S
  <2>2. Jaccard(S, S) \in Nat /\ Jaccard(S, S) <= 1000
    BY <2>1, MostSimilar
  <2> QED BY <2>2 DEF S
<1>3. best = 70 * 1000 + 10 * j0 + 20 * b /\ best \in Int /\ best >= 70 * 1000 /\ best <= FullScore
  <2> DEFINE m == HarmonicMean(Coverage(asr_, asr_), Coverage(asr_, asr_))
             r == MatchRate(asr_, asr_)
             l == LengthPenalty(asr_, asr_)
  <2>1. Coverage(asr_, asr_) = 1000 /\ r = 1000
    BY SharesOfText
  <2>2. m = 1000
    BY <2>1, MeansOfShares
  <2>3. l = 0
    BY PenaltiesOfLength
  <2>4. best = 55 * m + 15 * r + 10 * j0 + 20 * b + 30 * none - 10 * l
    BY DEF Worth
  <2> HIDE DEF best, m, r, j0, l
  <2> QED BY <1>0, <1>1, <1>2, <2>1, <2>2, <2>3, <2>4
<1>4. Composite(asr_, asr_, b, none) = best
  <2>1. Composite(asr_, asr_, b, none) = cut(best)
    BY DEF Composite, Worth
  <2> HIDE DEF best
  <2>2. best \in Int /\ 0 <= best /\ best <= FullScore
    BY <1>3
  <2>3. cut(best) = best
    BY <1>1, <2>2, CutOff
  <2> QED BY <2>1, <2>3
<1> HIDE DEF best, j0
<1>5. CASE words = <<>>
  <2>1. Composite(asr_, words, a, none) = 0
    BY <1>5 DEF Composite
  <2> QED BY <1>0, <1>1, <1>3, <1>4, <2>1
<1>6. CASE words # <<>>
  <2> DEFINE w == Worth(asr_, words, a, none)
             m == HarmonicMean(Coverage(asr_, words), Coverage(words, asr_))
             r == MatchRate(asr_, words)
             j == Jaccard(SoundGrams(asr_), SoundGrams(words))
             l == LengthPenalty(asr_, words)
  <2>1. /\ Coverage(asr_, words) \in Nat /\ Coverage(asr_, words) <= 1000
        /\ Coverage(words, asr_) \in Nat /\ Coverage(words, asr_) <= 1000
        /\ r \in Nat /\ r <= 1000
    BY <1>6, SharesOfText
  <2>2. r = 1000 => ToSet(asr_) \subseteq ToSet(words)
    BY SharesOfText
  <2>3. m \in Nat /\ m <= 1000
    BY <2>1, MeansOfShares
  <2>4. j \in Int /\ j <= j0 /\ (j = j0 => SoundGrams(asr_) \in {{}, SoundGrams(words)})
    BY PhrasesAreFinite, MostSimilar DEF j0
  <2>5. l \in Int /\ l >= 0
    BY <1>6, PenaltiesOfLength, PenaltiesAreNumbers
  <2>6. w = 55 * m + 15 * r + 10 * j + 20 * a + 30 * none - 10 * l
    BY DEF Worth
  <2>7. Composite(asr_, words, a, none) = cut(w)
    BY <1>6 DEF Composite, Worth
  <2> HIDE DEF w, m, r, j, l
  <2>8. w \in Int /\ (a <= b => w <= best /\ (w = best => r = 1000 /\ j = j0))
    BY <1>0, <1>1, <1>2, <1>3, <2>1, <2>3, <2>4, <2>5, <2>6
  <2>9. /\ cut(w) \in Nat /\ cut(w) <= FullScore
        /\ 0 <= w /\ w <= FullScore => cut(w) = w
        /\ w < 0 => cut(w) = 0
    BY <1>1, <2>8, CutOff
  <2> HIDE DEF cut
  <2>10. cut(w) \in Int /\ (a <= b => cut(w) <= best /\ (cut(w) = best => w = best))
    BY <1>1, <1>3, <2>8, <2>9
  <2>11. best \in Int /\ best >= 70 * 1000
    BY <1>1, <1>3
  <2> QED BY <1>0, <1>4, <2>2, <2>4, <2>7, <2>8, <2>10, <2>11
<1> QED BY <1>5, <1>6

-----------------------------------------------------------------------------
(* Candidates *)

\* A sequence of candidates whose texts are on the web.
Candidates(s) == \E S : s \in Seq(S) /\ \A c \in S : c.text \in DOMAIN Raw

LEMMA PoolsAreFinite ==
  ASSUME NEW s, Candidates(s)
  PROVE  /\ IsFiniteSet(DOMAIN s) /\ DOMAIN s \subseteq Nat
         /\ \A i \in DOMAIN s : s[i].text \in DOMAIN Raw
<1>1. PICK S : s \in Seq(S) /\ \A c \in S : c.text \in DOMAIN Raw
  BY DEF Candidates
<1>2. Len(s) \in Nat /\ DOMAIN s = 1..Len(s) /\ \A i \in 1..Len(s) : s[i] \in S
  BY <1>1
<1>3. IsFiniteSet(1..Len(s))
  BY <1>2, FS_Interval
<1> QED BY <1>1, <1>2, <1>3

\* What is left of a sequence is a sequence.
LEMMA SiftedIsSeq ==
  ASSUME NEW X, NEW s \in Seq(X), NEW P, P \subseteq DOMAIN s
  PROVE  Sifted(s, P) \in Seq(X)
<1> DEFINE nth(n) == CHOOSE i \in P : Cardinality({j \in P : j <= i}) = n
           c == Cardinality(P)
           t == [n \in 1..c |-> s[nth(n)]]
<1>1. Len(s) \in Nat /\ DOMAIN s = 1..Len(s) /\ \A i \in 1..Len(s) : s[i] \in X
  OBVIOUS
<1>2. IsFiniteSet(P)
  <2>1. IsFiniteSet(DOMAIN s)
    BY <1>1, FS_Interval
  <2> QED BY <2>1, FS_Subset
<1>3. c \in Nat
  BY <1>2, FS_CardinalityType
<1>4. ASSUME NEW n \in 1..c PROVE s[nth(n)] \in X
  <2>1. P \subseteq 1..Len(s)
    BY <1>1
  <2>2. \E i \in P : Cardinality({j \in P : j <= i}) = n
    BY <1>1, <2>1, NthPlace
  <2>3. nth(n) \in P
    BY <2>2
  <2> HIDE DEF nth
  <2> QED BY <1>1, <2>3
<1>5. t \in Seq(X)
  <2> HIDE DEF c, nth
  <2> QED BY <1>3, <1>4
<1>6. Sifted(s, P) = t
  BY Zenon DEF Sifted
<1> QED BY <1>5, <1>6

LEMMA UsableIsSeq ==
  ASSUME NEW X, NEW s \in Seq(X)
  PROVE  Usable(s) \in Seq(X)
<1> DEFINE P == {i \in DOMAIN s : Size(Raw[s[i].text]) >= MinWords}
<1>1. P \subseteq DOMAIN s
  OBVIOUS
<1> HIDE DEF P
<1>2. Sifted(s, P) \in Seq(X)
  BY <1>1, SiftedIsSeq
<1> QED BY <1>2 DEF Usable, P

LEMMA BeginningIsSeq ==
  ASSUME NEW X, NEW s \in Seq(X), NEW m \in Nat
  PROVE  SubSeq(s, 1, Min({Len(s), m})) \in Seq(X)
<1>1. Len(s) \in Nat /\ \A i \in 1..Len(s) : s[i] \in X
  OBVIOUS
<1> DEFINE k == Min({Len(s), m})
<1>2. k \in {Len(s), m} /\ k <= Len(s)
  <2> DEFINE l == Len(s)
  <2>1. l \in Int /\ m \in Int
    BY <1>1
  <2> HIDE DEF l
  <2>2. Min({l, m}) \in {l, m} /\ Min({l, m}) <= l
    BY <2>1, ExtremesOfTwo
  <2> QED BY <2>2 DEF l
<1> HIDE DEF k
<1>3. k \in Nat /\ \A i \in 1..k : s[i] \in X
  BY <1>1, <1>2
<1>4. SubSeq(s, 1, k) \in Seq(X)
  <2> DEFINE one == 1
  <2>1. one \in Int /\ k \in Int /\ \A i \in one..k : s[i] \in X
    BY <1>3
  <2> HIDE DEF one
  <2>2. SubSeq(s, one, k) \in Seq(X)
    BY <2>1, SubSeqProperties
  <2> QED BY <2>2 DEF one
<1> QED BY <1>4 DEF k

LEMMA CandidatesFound ==
  ASSUME NEW s \in Seq(Candidate)
  PROVE  Candidates(s)
<1>1. \A c \in Candidate : c.text \in DOMAIN Raw
  BY DEF Candidate
<1> QED BY <1>1 DEF Candidates

LEMMA NoCandidates == Candidates(<<>>)
<1>1. <<>> \in Seq(Candidate)
  OBVIOUS
<1> QED BY <1>1, CandidatesFound, Zenon

\* Whatever a provider is asked, its answer is one.
LEMMA AnswersAreCandidates ==
  ASSUME web \in Webs, NEW q
  PROVE  Candidates(Answer(q))
<1> DEFINE hits(kind) == Known(Query(kind, q.artist, q.title))
           found(kind) == Usable(SubSeq(hits(kind), 1, Min({Len(hits(kind)), MaxHits})))
           first(s) == SubSeq(s, 1, Min({Len(s), 1}))
           ovh == first(found("ovh"))
           renamed == [i \in DOMAIN ovh |-> [ovh[i] EXCEPT !.artist = q.artist, !.title = q.title]]
<1>1. \A x : Known(x) \in Seq(Candidate)
  <2> TAKE x
  <2>1. CASE x \in DOMAIN Knows[web]
    BY <2>1, WebAssumption DEF WebAssumption, Known
  <2>2. CASE x \notin DOMAIN Knows[web]
    BY <2>2 DEF Known
  <2> QED BY <2>1, <2>2
<1>2. \A kind : found(kind) \in Seq(Candidate)
  <2> TAKE kind
  <2> DEFINE h == hits(kind)
  <2>1. h \in Seq(Candidate) /\ MaxHits \in Nat
    BY <1>1, WebAssumption DEF WebAssumption
  <2> HIDE DEF h
  <2>2. SubSeq(h, 1, Min({Len(h), MaxHits})) \in Seq(Candidate)
    BY <2>1, BeginningIsSeq
  <2>3. Usable(SubSeq(h, 1, Min({Len(h), MaxHits}))) \in Seq(Candidate)
    BY <2>2, UsableIsSeq
  <2> QED BY <2>3 DEF h
<1> HIDE DEF found
<1>3. \A s \in Seq(Candidate) : first(s) \in Seq(Candidate)
  <2> TAKE s \in Seq(Candidate)
  <2> DEFINE one == 1
  <2>1. one \in Nat
    OBVIOUS
  <2> HIDE DEF one
  <2>2. SubSeq(s, 1, Min({Len(s), one})) \in Seq(Candidate)
    BY <2>1, BeginningIsSeq
  <2> QED BY <2>2 DEF one
<1> HIDE DEF first
<1>4. CASE q.kind = "lrclib"
  <2>1. Answer(q) = first(IF found("named") # <<>> THEN found("named") ELSE found("fields"))
    BY <1>4, Zenon DEF Answer, found, first
  <2>2. Answer(q) \in Seq(Candidate)
    BY <1>2, <1>3, <2>1
  <2> QED BY <2>2, CandidatesFound
<1>5. CASE q.kind = "ovh"
  <2>1. Answer(q) = renamed
    <3>1. "ovh" # "lrclib"
      OBVIOUS
    <3> QED BY <1>5, <3>1 DEF Answer, found, first
  <2>2. ovh \in Seq(Candidate)
    BY <1>2, <1>3
  <2> DEFINE S == {renamed[i] : i \in DOMAIN ovh}
  <2> HIDE DEF ovh
  <2>3. Len(ovh) \in Nat /\ DOMAIN ovh = 1..Len(ovh) /\ \A i \in DOMAIN ovh : ovh[i] \in Candidate
    BY <2>2
  <2>4. renamed \in Seq(S)
    <3>1. renamed = [i \in 1..Len(ovh) |-> renamed[i]] /\ \A i \in 1..Len(ovh) : renamed[i] \in S
      BY <2>3
    <3> HIDE DEF renamed, S
    <3> QED BY <2>3, <3>1
  <2>5. \A i \in DOMAIN ovh : renamed[i].text \in DOMAIN Raw
    <3> TAKE i \in DOMAIN ovh
    <3>1. renamed[i] = [ovh[i] EXCEPT !.artist = q.artist, !.title = q.title]
      OBVIOUS
    <3>2. ovh[i] \in Candidate
      BY <2>3
    <3> HIDE DEF renamed
    <3> QED BY <3>1, <3>2 DEF Candidate
  <2> HIDE DEF renamed
  <2>6. \A c \in S : c.text \in DOMAIN Raw
    BY <2>5
  <2> QED BY <2>1, <2>4, <2>6 DEF Candidates
<1>6. CASE q.kind \notin {"lrclib", "ovh"}
  <2>1. Answer(q) = found(q.kind)
    BY <1>6 DEF Answer, found
  <2>2. Answer(q) \in Seq(Candidate)
    BY <1>2, <2>1
  <2> QED BY <2>2, CandidatesFound
<1> QED BY <1>4, <1>5, <1>6

\* Of candidates with the same names the first stays.
LEMMA DeduplicatedAreCandidates ==
  ASSUME NEW s, Candidates(s)
  PROVE  /\ Candidates(Deduplicated(s))
         /\ s = <<>> => DOMAIN Deduplicated(s) = {}
<1> DEFINE P == {i \in DOMAIN s : \A j \in 1..(i - 1) : ~(s[i].artist = s[j].artist /\ s[i].title = s[j].title)}
<1>1. Deduplicated(s) = Sifted(s, P)
  BY Zenon DEF Deduplicated
<1>2. P \subseteq DOMAIN s
  OBVIOUS
<1> HIDE DEF P
<1>3. PICK S : s \in Seq(S) /\ \A c \in S : c.text \in DOMAIN Raw
  BY DEF Candidates
<1>4. Sifted(s, P) \in Seq(S)
  BY <1>2, <1>3, SiftedIsSeq
<1>5. ASSUME s = <<>> PROVE DOMAIN Sifted(s, P) = {}
  <2>1. P = {}
    BY <1>2, <1>5
  <2>2. Cardinality(P) = 0
    BY <2>1, FS_EmptySet
  <2> QED BY <2>2 DEF Sifted
<1> QED BY <1>1, <1>3, <1>4, <1>5 DEF Candidates

-----------------------------------------------------------------------------
(* The transcript *)

\* None has an equal that comes before it, so among finitely many one comes first.
LEMMA OneComesFirst ==
  ASSUME NEW s, NEW T, IsFiniteSet(T), T # {}, T \subseteq Nat, \A i \in T : s[i] \in Int
  PROVE  \E m \in T : \A x \in T \ {m} : Before(s, m, x)
<1> DEFINE R == {p \in T \X T : Before(s, p[1], p[2])}
<1>1. \A i, j \in T : <<i, j>> \in R <=> s[i] > s[j] \/ (s[i] = s[j] /\ i < j)
  BY DEF Before
<1> HIDE DEF R
<1>2. \A i \in T : i \in Nat /\ s[i] \in Int
  OBVIOUS
<1>3. Orders(R, T)
  <2>1. \A x, y \in T : x # y => <<x, y>> \in R \/ <<y, x>> \in R
    BY <1>1, <1>2
  <2>2. \A x, y \in T : <<x, y>> \in R => <<y, x>> \notin R
    BY <1>1, <1>2
  <2>3. \A x, y, z \in T : <<x, y>> \in R /\ <<y, z>> \in R => <<x, z>> \in R
    BY <1>1, <1>2
  <2> QED BY <2>1, <2>2, <2>3, Zenon DEF Orders
<1>4. \E m \in T : \A x \in T \ {m} : <<m, x>> \in R
  <2>1. IsFiniteSet(T) /\ T # {}
    OBVIOUS
  <2> QED BY ONLY <1>3, <2>1, FirstOfFinite, Zenon
<1>5. \A i, j \in T : <<i, j>> \in R <=> Before(s, i, j)
  BY <1>1 DEF Before
<1> QED BY <1>4, <1>5

\* The first has the highest score.
LEMMA FirstIsHighest ==
  ASSUME NEW s, IsFiniteSet(DOMAIN s), DOMAIN s # {}, DOMAIN s \subseteq Nat,
         \A i \in DOMAIN s : s[i] \in Int
  PROVE  First(s) \in DOMAIN s /\ \A i \in DOMAIN s : s[i] <= s[First(s)]
<1> DEFINE D == DOMAIN s
<1>1. \E m \in D : \A x \in D \ {m} : Before(s, m, x)
  BY OneComesFirst
<1>2. First(s) \in D /\ \A x \in D \ {First(s)} : Before(s, First(s), x)
  BY <1>1, Zenon DEF First
<1> HIDE DEF D
<1>3. ASSUME NEW i \in D PROVE s[i] <= s[First(s)]
  <2>1. i = First(s) \/ Before(s, First(s), i)
    BY <1>2
  <2>2. s[i] \in Int /\ s[First(s)] \in Int
    BY <1>2 DEF D
  <2> QED BY <2>1, <2>2 DEF Before
<1> QED BY <1>2, <1>3 DEF D

\* Where there are two there is a second, and the lead is over it.
LEMMA SecondIsThere ==
  ASSUME NEW s, NEW n \in Nat, s \in [1..n -> Int], ~(Len(s) < 2)
  PROVE  Second(s) \in DOMAIN s /\ Lead(s) = s[First(s)] - s[Second(s)]
<1>1. DOMAIN s = 1..n /\ Len(s) = n /\ n >= 2
  OBVIOUS
<1> DEFINE f == First(s)
           T == DOMAIN s \ {f}
<1>2. IsFiniteSet(T)
  <2>1. IsFiniteSet(1..n)
    BY FS_Interval
  <2> QED BY <1>1, <2>1, FS_Subset
<1>3. T # {} /\ T \subseteq Nat /\ \A i \in T : s[i] \in Int
  <2>1. 1 \in DOMAIN s /\ 2 \in DOMAIN s
    BY <1>1
  <2> HIDE DEF f
  <2>2. 1 \in T \/ 2 \in T
    <3>1. 1 # f \/ 2 # f
      OBVIOUS
    <3> QED BY <2>1, <3>1
  <2>3. \A i \in T : i \in DOMAIN s
    OBVIOUS
  <2> HIDE DEF T
  <2> QED BY <1>1, <2>2, <2>3
<1>4. \E m \in T : \A x \in T \ {m} : Before(s, m, x)
  <2> HIDE DEF T
  <2> QED BY <1>2, <1>3, OneComesFirst
<1>5. \E m \in DOMAIN s \ {f} : \A x \in DOMAIN s \ {m, f} : Before(s, m, x)
  <2> HIDE DEF f
  <2>1. PICK m \in T : \A x \in T \ {m} : Before(s, m, x)
    BY <1>4
  <2>2. \A x \in DOMAIN s \ {m, f} : x \in T \ {m}
    OBVIOUS
  <2> QED BY <2>1, <2>2
<1>6. Second(s) \in DOMAIN s \ {f}
  BY <1>5, Zenon DEF Second
<1> QED BY <1>6, Zenon DEF Lead

\* No candidate is acceptable.
Unacceptable == \A i \in DOMAIN pool : scores[i] < Weak

\* The candidates are texts of the web, and what they are written out as has a score;
\* the search is "rejected" only when none of the scores is acceptable.
ResortInv ==
  /\ asr \in Heard /\ web \in Webs /\ Candidates(pool)
  /\ \A t \in DOMAIN cache : cache[t] \in Texts
  /\ \A i \in DOMAIN written : written[i] \in Texts
  /\ phase = "rank" => DOMAIN scores = DOMAIN pool /\ \A i \in DOMAIN pool : scores[i] \in Int
  /\ phase = "rejected" => asr = <<>> \/ Unacceptable
  /\ result.kind = "transcript" => phase = "done" /\ Unacceptable

LEMMA ResortInit == Init => ResortInv
<1> SUFFICES ASSUME Init PROVE ResortInv
  OBVIOUS
<1>1. /\ asr \in Heard /\ web \in Webs /\ pool = <<>> /\ cache = <<>> /\ written = <<>>
      /\ phase = "parse" /\ result.kind = "pending"
  <2>1. result = [kind |-> "pending"]
    BY DEF Init, Pending
  <2>2. result.kind = "pending"
    BY <2>1
  <2> QED BY <2>2, Zenon DEF Init
<1>2. Candidates(pool)
  BY <1>1, NoCandidates
<1> QED BY <1>1, <1>2 DEF ResortInv

\* Steps that neither rank nor reject anything.
LEMMA SameCandidates ==
  ASSUME ResortInv, UNCHANGED <<asr, web, pool, cache, written, scores>>,
         phase # "done", phase' \notin {"rank", "rejected"},
         result' = result \/ result'.kind # "transcript"
  PROVE  ResortInv'
<1>1. result.kind # "transcript"
  BY DEF ResortInv
<1>2. result'.kind # "transcript"
  BY <1>1
<1>3. Candidates(pool)'
  BY DEF ResortInv, Candidates
<1> QED BY <1>2, <1>3 DEF ResortInv

\* A new pool that is empty is rejected at once.
LEMMA ConsiderKeeps ==
  ASSUME ResortInv, UNCHANGED <<asr, web, cache, result>>, phase # "done",
         NEW cands, Candidates(cands), Consider(cands)
  PROVE  ResortInv'
<1>1. /\ pool' = Deduplicated(cands) /\ written' = <<>> /\ scores' = <<>>
      /\ phase' \in {"rejected", "expand"}
      /\ phase' = "rejected" => cands = <<>> \/ asr = <<>>
  BY DEF Consider
<1>2. Candidates(pool') /\ (cands = <<>> => DOMAIN pool' = {})
  BY <1>1, DeduplicatedAreCandidates
<1>3. Candidates(pool)'
  BY <1>2 DEF Candidates
<1>4. result'.kind # "transcript"
  BY DEF ResortInv
<1>5. phase' = "rejected" => asr' = <<>> \/ Unacceptable'
  BY <1>1, <1>2 DEF Unacceptable
<1> QED BY <1>1, <1>3, <1>4, <1>5 DEF ResortInv

LEMMA AnswerKeeps ==
  ASSUME ResortInv, ProviderAnswers
  PROVE  ResortInv'
<1>1. /\ UNCHANGED <<asr, web, cache, written, scores, phase, result>> /\ phase = "collect"
      /\ pool' = pool \o Answer(Head(questions))
  BY DEF ProviderAnswers, given
<1>2. PICK S : pool \in Seq(S) /\ \A c \in S : c.text \in DOMAIN Raw
  BY DEF ResortInv, Candidates
<1>3. Candidates(Answer(Head(questions)))
  BY AnswersAreCandidates DEF ResortInv
<1>4. PICK T : Answer(Head(questions)) \in Seq(T) /\ \A c \in T : c.text \in DOMAIN Raw
  BY <1>3 DEF Candidates
<1> DEFINE U == S \cup T
<1>5. pool' \in Seq(U) /\ \A c \in U : c.text \in DOMAIN Raw
  <2>1. pool \in Seq(U) /\ Answer(Head(questions)) \in Seq(U)
    BY <1>2, <1>4
  <2> HIDE DEF U
  <2>2. pool' \in Seq(U)
    BY <1>1, <2>1, ConcatProperties
  <2> QED BY <1>2, <1>4, <2>2 DEF U
<1>6. Candidates(pool)'
  BY <1>5 DEF Candidates
<1>7. result'.kind # "transcript"
  BY <1>1 DEF ResortInv
<1> QED BY <1>1, <1>6, <1>7 DEF ResortInv

\* What is written out is remembered, or the rendering of a text of the web, or a model's.
LEMMA ExpansionKeeps ==
  ASSUME ResortInv, Expand \/ Rewrite
  PROVE  ResortInv'
<1>1. /\ UNCHANGED <<asr, web, pool, scores, result>>
      /\ phase \in {"expand", "rewrite"} /\ phase' = "rewrite"
  BY DEF Expand, Rewrite, given
<1>2. \A i \in DOMAIN pool : Rendered(Raw[pool[i].text]) \in Texts
  <2>1. \A i \in DOMAIN pool : pool[i].text \in DOMAIN Raw
    BY PoolsAreFinite DEF ResortInv
  <2> QED BY <2>1 DEF Texts
<1>3. CASE Expand
  <2> DEFINE D == {j \in DOMAIN pool : ~CallsModel(pool[j].text)}
  <2>1. /\ written' = [i \in D |-> IF pool[i].text \in DOMAIN cache THEN cache[pool[i].text]
                                     ELSE Rendered(Raw[pool[i].text])]
        /\ cache' = [t \in DOMAIN cache \cup {pool[i].text : i \in DOMAIN written'} |->
                       IF t \in DOMAIN cache THEN cache[t] ELSE Rendered(Raw[t])]
    BY <1>3 DEF Expand
  <2>2. \A i \in D : i \in DOMAIN pool
    OBVIOUS
  <2> HIDE DEF D
  <2>3. DOMAIN written' = D /\ \A i \in D : written'[i] \in Texts
    BY <1>2, <2>1, <2>2 DEF ResortInv
  <2>4. \A t \in DOMAIN cache' : cache'[t] \in Texts
    BY <1>2, <2>1, <2>2, <2>3 DEF ResortInv
  <2> QED BY <1>1, <2>3, <2>4 DEF ResortInv, Candidates
<1>4. CASE Rewrite
  <2>1. PICK i \in DOMAIN pool \ DOMAIN written : \E words \in Rewrites \cup {Rendered(Raw[pool[i].text])} :
          /\ written' = [j \in DOMAIN written \cup {i} |-> IF j = i THEN words ELSE written[j]]
          /\ cache' = [t \in DOMAIN cache \cup {pool[i].text} |->
                         IF t = pool[i].text THEN words ELSE cache[t]]
    BY <1>4 DEF Rewrite
  <2>2. PICK words \in Rewrites \cup {Rendered(Raw[pool[i].text])} :
          /\ written' = [j \in DOMAIN written \cup {i} |-> IF j = i THEN words ELSE written[j]]
          /\ cache' = [t \in DOMAIN cache \cup {pool[i].text} |->
                         IF t = pool[i].text THEN words ELSE cache[t]]
    BY <2>1
  <2>3. words \in Texts
    BY <1>2, <2>1, <2>2 DEF Texts
  <2>4. \A j \in DOMAIN written' : written'[j] \in Texts
    BY <2>2, <2>3 DEF ResortInv
  <2>5. \A t \in DOMAIN cache' : cache'[t] \in Texts
    BY <2>2, <2>3 DEF ResortInv
  <2> QED BY <1>1, <2>4, <2>5 DEF ResortInv, Candidates
<1> QED BY <1>3, <1>4

LEMMA ScoreKeeps ==
  ASSUME ResortInv, Score
  PROVE  ResortInv'
<1>1. /\ UNCHANGED <<asr, web, cache, pool, written, result>> /\ phase = "rewrite" /\ phase' = "rank"
      /\ DOMAIN written = DOMAIN pool /\ scores' = ScoreAll(asr, written, Hints)
  BY DEF Score, given
<1>2. Text(asr) /\ \A i \in DOMAIN written : Text(written[i])
  <2>1. asr \in Texts
    BY DEF ResortInv, Texts
  <2> QED BY <2>1, TextsCanBeScored DEF ResortInv
<1>3. \A i \in DOMAIN written : Hints[i] \in Int
  BY <1>1, HintsAreNumbers DEF Hints
<1>4. IsFiniteSet(DOMAIN written)
  BY <1>1, PoolsAreFinite DEF ResortInv
<1>5. DOMAIN scores' = DOMAIN pool' /\ \A i \in DOMAIN pool' : scores'[i] \in Int
  <2> DEFINE hints == Hints
  <2>1. \A i \in DOMAIN written : Text(written[i]) /\ hints[i] \in Int
    BY <1>2, <1>3
  <2> HIDE DEF hints
  <2>2. /\ DOMAIN ScoreAll(asr, written, hints) = DOMAIN written
        /\ \A i \in DOMAIN written : ScoreAll(asr, written, hints)[i] \in Int
    BY <1>2, <1>4, <2>1, AllScoresAreNumbers
  <2> QED BY <1>1, <2>2 DEF hints
<1>6. result'.kind # "transcript"
  BY <1>1 DEF ResortInv
<1> QED BY <1>1, <1>5, <1>6 DEF ResortInv, Candidates

\* The best is not acceptable: then none of them is.
LEMMA RankKeeps ==
  ASSUME ResortInv, Rank
  PROVE  ResortInv'
<1>1. UNCHANGED <<asr, web, cache, pool, written, scores>> /\ phase = "rank"
  BY DEF Rank, given
<1>2. phase' \in {"rejected", "done"} /\ (result' = result \/ result'.kind = "found")
  BY RankMoves
<1>3. result'.kind # "transcript"
  BY <1>1, <1>2 DEF ResortInv
<1>4. phase' = "rejected" => scores[First(scores)] < Weak
  BY DEF Rank
<1>5. ASSUME phase' = "rejected" PROVE Unacceptable
  <2>1. DOMAIN scores = DOMAIN pool /\ \A i \in DOMAIN pool : scores[i] \in Int
    BY <1>1 DEF ResortInv
  <2>2. IsFiniteSet(DOMAIN pool) /\ DOMAIN pool \subseteq Nat
    BY PoolsAreFinite DEF ResortInv
  <2>3. CASE DOMAIN pool = {}
    BY <2>3 DEF Unacceptable
  <2>4. CASE DOMAIN pool # {}
    <3>1. First(scores) \in DOMAIN scores /\ \A i \in DOMAIN scores : scores[i] <= scores[First(scores)]
      BY <2>1, <2>2, <2>4, FirstIsHighest
    <3>2. scores[First(scores)] < Weak
      BY <1>4, <1>5
    <3>3. Weak \in Int
      BY ONLY Thresholds, Zenon
    <3> QED BY <2>1, <3>1, <3>2, <3>3 DEF Unacceptable
  <2> QED BY <2>3, <2>4
<1>6. phase' = "rejected" => Unacceptable'
  BY <1>1, <1>5 DEF Unacceptable
<1> QED BY <1>1, <1>2, <1>3, <1>6 DEF ResortInv, Candidates

LEMMA EndOfPassKeeps ==
  ASSUME ResortInv, NEW cands, Candidates(cands), EndPass(cands), phase = "agent",
         UNCHANGED <<asr, web, cache, result>>
  PROVE  ResortInv'
<1>1. CASE cands = <<>> /\ pass < Len(engines)
  BY <1>1, SameCandidates DEF EndPass
<1>2. CASE ~(cands = <<>> /\ pass < Len(engines))
  BY <1>2, ConsiderKeeps DEF EndPass
<1> QED BY <1>1, <1>2

LEMMA ResortsKeep ==
  ASSUME ResortInv, UseTranscript
  PROVE  ResortInv'
<1>1. /\ UNCHANGED <<asr, web, cache, pool, written, scores>> /\ phase = "rejected" /\ phase' = "done"
      /\ result' = IF Useful(asr) THEN [kind |-> "transcript", lyrics |-> asr, confidence |-> "low"]
                                  ELSE [kind |-> "notfound"]
  BY DEF UseTranscript, given
<1>2. asr = <<>> => ~Useful(asr)
  BY WebAssumption DEF WebAssumption, Useful
<1>3. result'.kind = "transcript" => Unacceptable'
  BY <1>1, <1>2 DEF ResortInv, Unacceptable
<1> QED BY <1>1, <1>3 DEF ResortInv, Candidates

LEMMA ResortStep == ResortInv /\ [Next]_vars => ResortInv'
<1> SUFFICES ASSUME ResortInv, [Next]_vars PROVE ResortInv'
  OBVIOUS
<1>1. CASE ParseFilename \/ ProviderFails
  BY <1>1, SameCandidates DEF ParseFilename, ProviderFails, given
<1>2. CASE ProviderAnswers
  BY <1>2, AnswerKeeps
<1>3. CASE Collect
  BY <1>3, ConsiderKeeps DEF Collect, given, ResortInv
<1>4. CASE Expand \/ Rewrite
  BY <1>4, ExpansionKeeps
<1>5. CASE Score
  BY <1>5, ScoreKeeps
<1>6. CASE Rank
  BY <1>6, RankKeeps
<1>7. CASE CallAgent \/ UseTools \/ AgentRaises
  <2>1. /\ UNCHANGED <<asr, web, pool, cache, written, scores>>
        /\ phase # "done" /\ phase' \notin {"rank", "rejected"}
    BY <1>7 DEF CallAgent, UseTools, AgentRaises, given
  <2>2. result' = result \/ result' = [kind |-> "apierror"]
    BY <1>7 DEF CallAgent, UseTools, AgentRaises
  <2>3. result' = result \/ result'.kind # "transcript"
    BY <2>2
  <2> QED BY <2>1, <2>3, SameCandidates
<1>8. CASE AgentAnswers
  <2>1. PICK cands \in Findings : EndPass(Usable(cands))
    BY <1>8 DEF AgentAnswers
  <2>2. Usable(cands) \in Seq(Candidate)
    BY WebAssumption, UsableIsSeq DEF WebAssumption
  <2> QED BY <1>8, <2>1, <2>2, CandidatesFound, EndOfPassKeeps DEF AgentAnswers, given
<1>9. CASE AgentExhausted
  <2>1. Candidates(<<>>)
    BY NoCandidates
  <2> QED BY <1>9, <2>1, EndOfPassKeeps DEF AgentExhausted, given
<1>10. CASE UseTranscript
  BY <1>10, ResortsKeep
<1>11. CASE UNCHANGED vars
  BY <1>11 DEF vars, given, agent, ResortInv, Candidates, Unacceptable
<1> QED BY <1>1, <1>2, <1>3, <1>4, <1>5, <1>6, <1>7, <1>8, <1>9, <1>10, <1>11 DEF Next, Returned

\* However texts and transcript are scored against each other, whatever providers, models
\* and agent answer: the transcript is taken for the lyrics only after the engines have
\* had their turns, and only when none of the last candidates is acceptable.
THEOREM TranscriptsComeLast == Spec => []LastResorts
<1>1. Spec => []ResortInv
  BY ResortInit, ResortStep, PTL DEF Spec
<1>2. ResortInv /\ EnginesTakeTurns => LastResorts
  BY DEF ResortInv, LastResorts, Unacceptable
<1> QED BY <1>1, <1>2, TurnsAreTaken, PTL

-----------------------------------------------------------------------------
(* The exact text *)

\* What candidate i, which is exactly what was heard, yields to.
MayWin(i, answer) ==
  \/ answer.lyrics = asr \/ Echoes(answer.lyrics)
  \/ key /\ scores[i] - scores[answer.from] < Margin
  \/ LET anchors == RareAnchors(asr, written)
     IN ShareOf(anchors, answer.from) > ShareOf(anchors, i)

\* Ranking sees the scores of the texts that are written out.
ExactInv ==
  /\ ResortInv
  /\ phase = "rank" => DOMAIN written = DOMAIN pool /\ scores = ScoreAll(asr, written, Hints)
  /\ result.kind = "found" => phase = "done"
  /\ ExactTextWins

LEMMA NamesSayNothing ==
  ASSUME artists = <<>>, titles = <<>>
  PROVE  \A k \in DOMAIN pool : Hints[k] = 0
<1>1. ToSet(artists) = {} /\ ToSet(titles) = {}
  BY DEF ToSet
<1>2. ASSUME NEW c PROVE HintScore(c, {}, {}) = 0
  BY DEF HintScore
<1> QED BY <1>1, <1>2 DEF Hints

LEMMA SharesOfWritten ==
  ASSUME ExactInv, phase = "rank"
  PROVE  \A n \in DOMAIN pool : ShareOf(RareAnchors(asr, written), n) \in 0..1000
<1>1. IsFiniteSet(DOMAIN written) /\ DOMAIN written = DOMAIN pool
  BY PoolsAreFinite DEF ExactInv, ResortInv
<1>2. Text(asr) /\ \A n \in DOMAIN written : Text(written[n])
  <2>1. asr \in Texts /\ \A n \in DOMAIN written : written[n] \in Texts
    BY DEF ExactInv, ResortInv, Texts
  <2> QED BY <2>1, TextsCanBeScored
<1>3. \A n \in DOMAIN written : ShareOf(RareAnchors(asr, written), n) \in 0..1000
  BY <1>1, <1>2, AnchorsAreNumbers
<1> QED BY <1>1, <1>3

\* Where names say nothing, exactly what was heard has a high score; no text that is not
\* denser in rare phrases has a higher one.
LEMMA ExactIsHigh ==
  ASSUME ExactInv, phase = "rank", artists = <<>>, titles = <<>>,
         NEW i \in DOMAIN pool, written[i] = asr, Useful(asr),
         NEW k \in DOMAIN pool,
         ~(ShareOf(RareAnchors(asr, written), k) > ShareOf(RareAnchors(asr, written), i))
  PROVE  /\ scores[i] >= 70 * 1000 /\ scores[k] <= scores[i]
         /\ scores[k] = scores[i] => Echoes(written[k])
<1> DEFINE share(n) == ShareOf(RareAnchors(asr, written), n)
<1>1. DOMAIN written = DOMAIN pool /\ scores = ScoreAll(asr, written, Hints)
  BY DEF ExactInv
<1>2. Text(asr) /\ (\A n \in DOMAIN written : Text(written[n])) /\ asr # <<>>
  <2>1. asr \in Texts /\ \A n \in DOMAIN written : written[n] \in Texts
    BY DEF ExactInv, ResortInv, Texts
  <2>2. asr # <<>>
    BY WebAssumption DEF WebAssumption, Useful
  <2> QED BY <2>1, <2>2, TextsCanBeScored
<1>3. share(i) \in 0..1000 /\ share(k) \in 0..1000
  BY SharesOfWritten
<1>4. \A n \in DOMAIN pool : scores[n] = Composite(asr, written[n], share(n), 0)
  <2>1. \A n \in DOMAIN pool : Hints[n] = 0
    BY NamesSayNothing
  <2>2. \A n \in DOMAIN pool : scores[n] = Composite(asr, written[n], share(n), Hints[n])
    BY <1>1, Zenon DEF ScoreAll
  <2> HIDE DEF share
  <2> QED BY <2>1, <2>2
<1>5. ~(share(k) > share(i))
  OBVIOUS
<1> HIDE DEF share
<1> DEFINE a == share(k)
           b == share(i)
           w == written[k]
<1>6. a \in Nat /\ b \in Nat /\ a <= 1000 /\ b <= 1000 /\ a <= b
  <2>1. ASSUME NEW x \in 0..1000 PROVE x \in Nat /\ x <= 1000
    OBVIOUS
  <2>2. a \in 0..1000 /\ b \in 0..1000 /\ ~(a > b)
    BY <1>3, <1>5
  <2> HIDE DEF a, b
  <2>3. a \in Nat /\ a <= 1000 /\ b \in Nat /\ b <= 1000
    BY <2>1, <2>2
  <2> QED BY <2>2, <2>3
<1>7. Text(w)
  BY <1>1, <1>2
<1>8. scores[i] = Composite(asr, asr, b, 0) /\ scores[k] = Composite(asr, w, a, 0)
  BY <1>4
<1> HIDE DEF a, b, w
<1>9. /\ Composite(asr, asr, b, 0) >= 70 * 1000
      /\ Composite(asr, w, a, 0) <= Composite(asr, asr, b, 0)
      /\ Composite(asr, w, a, 0) = Composite(asr, asr, b, 0) =>
           ToSet(asr) \subseteq ToSet(w) /\ SoundGrams(asr) \in {{}, SoundGrams(w)}
  BY <1>2, <1>6, <1>7, ExactScoresMost
<1> QED BY <1>8, <1>9 DEF Echoes, w

\* What is found is the best, or the second that the model picks when the lead is short.
LEMMA WhatIsFound ==
  ASSUME ExactInv, Rank, result'.kind = "found"
  PROVE  \E j, c : /\ result' = Found(j, c)
                   /\ \/ j = First(scores)
                      \/ /\ j = Second(scores) /\ key /\ ~(Len(scores) < 2)
                         /\ \/ ~(Lead(scores) >= Margin)
                            \/ scores[First(scores)] \in Weak..(Strong - 1)
<1>1. result' # result
  BY DEF Rank, ExactInv
<1>2. \A i \in Picks(scores) : i = 0 \/ i = First(scores) \/ (i = Second(scores) /\ key)
  BY DEF Picks
<1> QED BY <1>1, <1>2, Zenon DEF Rank

LEMMA RankIsExact ==
  ASSUME ExactInv, Rank
  PROVE  ExactTextWins'
<1> DEFINE top == First(scores)
           denser(j, i) == ShareOf(RareAnchors(asr, written), j) > ShareOf(RareAnchors(asr, written), i)
<1>1. UNCHANGED <<asr, key, artists, titles, pool, written, scores>> /\ phase = "rank"
  BY DEF Rank, given
<1>2. ASSUME result'.kind = "found", artists = <<>>, titles = <<>>,
             NEW i \in DOMAIN pool, written[i] = asr, Useful(asr)
      PROVE  MayWin(i, result')
  <2>1. PICK j, c : /\ result' = Found(j, c)
                    /\ \/ j = top
                       \/ /\ j = Second(scores) /\ key /\ ~(Len(scores) < 2)
                          /\ \/ ~(Lead(scores) >= Margin)
                             \/ scores[top] \in Weak..(Strong - 1)
    BY <1>2, WhatIsFound
  <2>2. result'.from = j /\ result'.lyrics = written[j]
    BY <2>1 DEF Found
  <2>3. DOMAIN scores = DOMAIN pool /\ \A n \in DOMAIN pool : scores[n] \in Int
    BY <1>1 DEF ExactInv, ResortInv
  <2>4. top \in DOMAIN pool /\ \A n \in DOMAIN pool : scores[n] <= scores[top]
    BY <1>2, <2>3, PoolsAreFinite, FirstIsHighest DEF ExactInv, ResortInv
  <2>5. CASE j = top
    <3>1. CASE denser(j, i)
      BY <2>2, <3>1 DEF MayWin
    <3>2. CASE ~denser(j, i)
      <4>1. scores[j] <= scores[i] /\ (scores[j] = scores[i] => Echoes(written[j]))
        BY <1>1, <1>2, <2>4, <2>5, <3>2, ExactIsHigh
      <4> HIDE DEF top
      <4>2. scores[j] = scores[i]
        BY <1>2, <2>3, <2>4, <2>5, <4>1
      <4> QED BY <2>2, <4>1, <4>2 DEF MayWin
    <3> QED BY <3>1, <3>2
  <2>6. CASE /\ j = Second(scores) /\ key /\ ~(Len(scores) < 2)
             /\ ~(Lead(scores) >= Margin) \/ scores[top] \in Weak..(Strong - 1)
    <3>1. j \in DOMAIN pool /\ Lead(scores) = scores[top] - scores[j]
      <4>1. PICK n \in Nat : DOMAIN pool = 1..n
        BY DEF ExactInv, ResortInv, Candidates
      <4>2. scores = [m \in DOMAIN scores |-> scores[m]]
        BY <1>1 DEF ExactInv, ScoreAll
      <4>3. scores \in [1..n -> Int]
        BY <2>3, <4>1, <4>2
      <4> QED BY <2>3, <2>6, <4>3, SecondIsThere
    <3>2. scores[i] >= 70 * 1000
      <4>1. ~denser(i, i)
        <5> DEFINE x == ShareOf(RareAnchors(asr, written), i)
        <5>1. x \in Int
          <6>1. x \in 0..1000
            BY <1>1, <1>2, SharesOfWritten, ZenonT(40)
          <6> HIDE DEF x
          <6> QED BY <6>1
        <5> HIDE DEF x
        <5>2. ~(x > x)
          BY <5>1
        <5> QED BY <5>2 DEF x
      <4> QED BY <1>1, <1>2, <4>1, ExactIsHigh
    <3> HIDE DEF top
    <3>3. ~(scores[top] \in Weak..(Strong - 1))
      <4>1. scores[top] >= 70 * 1000
        BY <1>2, <2>3, <2>4, <3>2
      <4>2. Strong \in Int /\ Strong <= 70 * 1000
        BY ONLY Thresholds
      <4> QED BY <2>3, <2>4, <4>1, <4>2
    <3>4. scores[i] - scores[j] < Margin
      <4>1. scores[top] - scores[j] < Margin
        <5>1. Margin \in Int
          BY ONLY Thresholds, Zenon
        <5> QED BY <2>3, <2>4, <2>6, <3>1, <3>3, <5>1
      <4>2. Margin \in Int
        BY ONLY Thresholds, Zenon
      <4> QED BY <1>2, <2>3, <2>4, <3>1, <4>1, <4>2
    <3> QED BY <2>2, <2>6, <3>4 DEF MayWin
  <2> QED BY <2>1, <2>5, <2>6
<1>3. ASSUME NEW i, MayWin(i, result')
      PROVE  \/ result'.lyrics = asr' \/ Echoes(result.lyrics)'
             \/ key' /\ scores'[i] - scores'[result'.from] < Margin
             \/ LET anchors == RareAnchors(asr', written')
                IN ShareOf(anchors, result'.from) > ShareOf(anchors, i)
  BY <1>1, <1>3 DEF MayWin, Echoes
<1> QED BY <1>1, <1>2, <1>3 DEF ExactTextWins, Useful

\* Steps that find nothing.
LEMMA NothingIsFound ==
  ASSUME ExactInv, ResortInv', phase # "done", phase' # "rank",
         result' = result \/ result'.kind # "found"
  PROVE  ExactInv'
<1>1. result.kind # "found"
  BY DEF ExactInv
<1>2. result'.kind # "found"
  BY <1>1
<1> QED BY <1>2 DEF ExactInv, ExactTextWins

LEMMA ScoreIsExact ==
  ASSUME ExactInv, ResortInv', Score
  PROVE  ExactInv'
<1>1. /\ UNCHANGED <<asr, artists, titles, pool, written, result>> /\ phase = "rewrite"
      /\ DOMAIN written = DOMAIN pool /\ scores' = ScoreAll(asr, written, Hints)
  BY DEF Score, given
<1>2. scores' = ScoreAll(asr', written', Hints') /\ DOMAIN written' = DOMAIN pool'
  BY <1>1 DEF Hints
<1>3. result'.kind # "found"
  BY <1>1 DEF ExactInv
<1> QED BY <1>2, <1>3 DEF ExactInv, ExactTextWins

\* Exactly what was heard is the answer wherever names say nothing and the text is in the
\* pool, unless the answer holds the same, a model picked it within the margin, or it is
\* denser in phrases that were heard and that are rare among the candidates.
THEOREM ExactTextsWin == Spec => []ExactTextWins
<1>1. Init => ExactInv
  <2> SUFFICES ASSUME Init PROVE ExactInv
    OBVIOUS
  <2>1. result = [kind |-> "pending"] /\ phase = "parse"
    BY DEF Init, Pending
  <2>2. result.kind # "found" /\ phase # "rank"
    BY <2>1
  <2> QED BY <2>2, ResortInit DEF ExactInv, ExactTextWins
<1>2. ExactInv /\ [Next]_vars => ExactInv'
  <2> SUFFICES ASSUME ExactInv, [Next]_vars PROVE ExactInv'
    OBVIOUS
  <2>1. ResortInv'
    BY ResortStep DEF ExactInv
  <2>2. CASE Score
    BY <2>1, <2>2, ScoreIsExact
  <2>3. CASE Rank
    <3>1. phase' \in {"rejected", "done"} /\ phase = "rank" /\ (result' = result \/ phase' = "done")
      BY <2>3 DEF Rank
    <3>2. result'.kind = "found" => phase' = "done"
      BY <3>1 DEF ExactInv
    <3> QED BY <2>1, <2>3, <3>1, <3>2, RankIsExact DEF ExactInv
  <2>4. CASE ParseFilename \/ ProviderAnswers \/ ProviderFails \/ Collect
    <3>1. phase # "done" /\ phase' # "rank" /\ result' = result
      BY <2>4 DEF ParseFilename, ProviderAnswers, ProviderFails, Collect, Consider
    <3> QED BY <2>1, <3>1, NothingIsFound
  <2>5. CASE Expand \/ Rewrite \/ CallAgent \/ UseTools
    <3>1. phase # "done" /\ phase' # "rank" /\ result' = result
      BY <2>5 DEF Expand, Rewrite, CallAgent, UseTools
    <3> QED BY <2>1, <3>1, NothingIsFound
  <2>6. CASE AgentAnswers \/ AgentExhausted
    <3>1. phase = "agent" /\ result' = result /\ phase' \in {phase, "rejected", "expand"}
      BY <2>6 DEF AgentAnswers, AgentExhausted, EndPass, Consider
    <3> QED BY <2>1, <3>1, NothingIsFound
  <2>7. CASE AgentRaises
    <3>1. phase # "done" /\ phase' # "rank" /\ result' = [kind |-> "apierror"]
      BY <2>7 DEF AgentRaises
    <3>2. result'.kind # "found"
      BY <3>1
    <3> QED BY <2>1, <3>1, <3>2, NothingIsFound
  <2>8. CASE UseTranscript
    <3>1. /\ phase # "done" /\ phase' # "rank"
          /\ \/ result' = [kind |-> "transcript", lyrics |-> asr, confidence |-> "low"]
             \/ result' = [kind |-> "notfound"]
      BY <2>8 DEF UseTranscript
    <3>2. result'.kind # "found"
      BY <3>1
    <3> QED BY <2>1, <3>1, <3>2, NothingIsFound
  <2>9. CASE UNCHANGED vars
    <3>1. UNCHANGED <<asr, key, artists, titles, phase, pool, written, scores, result>>
      BY <2>9 DEF vars, given
    <3>2. Hints' = Hints /\ (ExactTextWins => ExactTextWins')
      BY <3>1 DEF Hints, ExactTextWins, Echoes, Useful
    <3> QED BY <2>1, <3>1, <3>2 DEF ExactInv
  <2> QED BY <2>2, <2>3, <2>4, <2>5, <2>6, <2>7, <2>8, <2>9 DEF Next, Returned
<1>3. ExactInv => ExactTextWins
  BY DEF ExactInv
<1> QED BY <1>1, <1>2, <1>3, PTL DEF Spec
=============================================================================
