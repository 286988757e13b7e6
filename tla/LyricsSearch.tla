----------------------------- MODULE LyricsSearch -----------------------------
(***************************************************************************)
(* The search for the lyrics of a song.  Names are taken from the file's    *)
(* name, providers are asked for candidates, each candidate is written out  *)
(* (by a model where an instruction is left in it, all of them at once),    *)
(* and the matcher chooses.  When it rejects them all, an agent searches    *)
(* the web, first with the free engine and then with the paid one; when     *)
(* that fails too, the transcript itself is taken for the lyrics.           *)
(*                                                                         *)
(* Asking several providers at once is one step: their answers are put in   *)
(* the order of the questions, whatever order they arrive in.               *)
(***************************************************************************)
EXTENDS LyricsMatching

CONSTANTS Heard,        \* what the transcriber may return: sequences of words
          GivenNames,   \* hints that may come with the job: [artist, title], "" for none
          FileNames,    \* what the parser may make of a file name: [artists, titles]
          Raw,          \* the texts on the web, each under a name
          Webs,         \* states of the web
          Knows,        \* for each of them what the providers know: functions of queries
          Rewrites,     \* what a model may answer to a text with instructions
          Findings,     \* what the agent may answer: sequences of candidates
          Engines,      \* configurations: sequences of search engines
          Keys,         \* whether there is a key for the models
          Fragments,    \* number of fragments of the transcript to search by
          MaxHits,      \* candidates read from one answer of a provider (3)
          MinWords,     \* words a text must have to be of use (20 characters)
          MaxRounds,    \* rounds of the agent (15)
          MaxSearches,  \* searches in a row before it must fetch a page (2)
          MaxCalls      \* bound: tools called in one round

ASSUME AgentAssumption ==
  /\ MaxRounds \in Nat \ {0} /\ MaxSearches \in Nat \ {0}
  /\ MaxCalls \in Nat \ {0}
ASSUME EnginesAssumption == Engines \subseteq Seq(STRING)

\* The texts there can be: the transcriber's, the models', and those on the web.
Texts == Heard \cup Rewrites \cup {Rendered(Raw[t]) : t \in DOMAIN Raw}

\* Texts are sequences of words that have a normal form, and Log has their lengths.
ASSUME TextsAssumption == \A words \in Texts :
  words \in Seq(DOMAIN Lemma) /\ (words # <<>> => Log[Len(words)] \in Nat)

Candidate == [artist : STRING, title : STRING, text : DOMAIN Raw]

ASSUME WebAssumption ==
  /\ \A w \in Webs : \A q \in DOMAIN Knows[w] : Knows[w][q] \in Seq(Candidate)
  /\ Findings \subseteq Seq(Candidate)
  /\ MaxHits \in Nat /\ MinWords \in Nat \ {0}

VARIABLES
  asr, key, engines, web,   \* the song, the configuration and the world
  artists, titles,          \* hints: sequences of spellings
  phase,                    \* what search() is about to do
  questions,                \* to the providers, not answered yet
  agentRan,                 \* the candidates are the agent's
  pool,                     \* the candidates
  written,                  \* their texts written out: place in the pool to words
  scores,                   \* their scores, when they have been ranked
  cache,                    \* what the expander remembers: raw texts to words
  pass, round, searches,    \* the agent: its pass, its round, searches in a row
  result,                   \* the answer: how it was found, and what it is
  passes                    \* history: what the agent's passes found

given == <<asr, key, engines, web>>
agent == <<pass, round, searches>>
vars == <<given, artists, titles, phase, questions, agentRan, pool, written,
          scores, cache, agent, result, passes>>

Pending == [kind |-> "pending"]

Init == /\ asr \in Heard
        /\ key \in Keys
        /\ engines \in (IF key THEN Engines ELSE {<<>>})
        /\ web \in Webs
        /\ \E names \in GivenNames :
             /\ artists = IF names.artist = "" THEN <<>> ELSE <<names.artist>>
             /\ titles = IF names.title = "" THEN <<>> ELSE <<names.title>>
        /\ phase = "parse" /\ questions = <<>> /\ agentRan = FALSE
        /\ pool = <<>> /\ written = <<>> /\ scores = <<>> /\ cache = <<>>
        /\ pass = 1 /\ round = 0 /\ searches = 0
        /\ result = Pending
        /\ passes = <<>>

Useful(words) == Len(words) >= MinWords

-----------------------------------------------------------------------------
(* Names and candidates *)

Query(kind, artist, title) == [kind |-> kind, artist |-> artist, title |-> title]

\* For each pair of spellings F's questions.
ForNames(as, ts, F(_, _)) ==
  FlattenSeq([a \in DOMAIN as |-> FlattenSeq([t \in DOMAIN ts |-> F(as[a], ts[t])])])

\* The questions to the providers, one task each.
Tasks(as, ts) ==
  [n \in 1..(IF asr = <<>> THEN 0 ELSE Fragments) |-> Query("words", "", "")]
  \o ForNames(as, ts, LAMBDA a, t : <<Query("named", a, t)>>)
  \o (IF as = <<>> THEN [t \in DOMAIN ts |-> Query("title", "", ts[t])] ELSE <<>>)
  \o ForNames(as, ts, LAMBDA a, t : <<Query("lrclib", a, t), Query("ovh", a, t)>>)

\* Stage 0: the model reads the names the job does not give, or fails.
ParseFilename ==
  /\ phase = "parse"
  /\ \E names \in FileNames \cup {[artists |-> <<>>, titles |-> <<>>]} :
       /\ ~key => names = [artists |-> <<>>, titles |-> <<>>]
       /\ artists' = IF artists = <<>> THEN names.artists ELSE artists
       /\ titles' = IF titles = <<>> THEN names.titles ELSE titles
  /\ questions' = Tasks(artists', titles')
  /\ phase' = "collect"
  /\ UNCHANGED <<given, agentRan, pool, written, scores, cache, agent,
                 result, passes>>

\* The raw text counts, its headers too.
Size(text) == MapThenSumSet(LAMBDA j : (IF text[j].label = "" THEN 0 ELSE 1)
                + MapThenSumSet(LAMBDA n : Len(text[j].lines[n].words), DOMAIN text[j].lines), DOMAIN text)

\* What a sequence has at some of its places, in their order.
Sifted(s, places) ==
  LET nth(n) == CHOOSE i \in places : Cardinality({j \in places : j <= i}) = n
  IN [n \in 1..Cardinality(places) |-> s[nth(n)]]

Usable(hits) == Sifted(hits, {i \in DOMAIN hits : Size(Raw[hits[i].text]) >= MinWords})

\* Of what a provider does not know it has nothing.
Known(q) == IF q \in DOMAIN Knows[web] THEN Knows[web][q] ELSE <<>>

\* Genius reads its first hits; LRCLib takes the first of a combined search, or else
\* of one by fields; Lyrics.ovh knows one text, and nothing of its names.
Answer(q) ==
  LET found(kind) == LET hits == Known(Query(kind, q.artist, q.title))
                     IN Usable(SubSeq(hits, 1, Min({Len(hits), MaxHits})))
      first(hits) == SubSeq(hits, 1, Min({Len(hits), 1}))
  IN CASE q.kind = "lrclib" -> first(IF found("named") # <<>> THEN found("named") ELSE found("fields"))
       [] q.kind = "ovh" -> [i \in DOMAIN first(found("ovh")) |->
                               [first(found("ovh"))[i] EXCEPT !.artist = q.artist, !.title = q.title]]
       [] OTHER -> found(q.kind)

\* The first of the candidates with the same names stays.
Deduplicated(cands) ==
  LET same(i, j) == cands[i].artist = cands[j].artist /\ cands[i].title = cands[j].title
  IN Sifted(cands, {i \in DOMAIN cands : \A j \in 1..(i - 1) : ~same(i, j)})

\* A pool goes to the matcher unless it is empty or nothing was heard.
Consider(cands) ==
  /\ pool' = Deduplicated(cands)
  /\ written' = <<>> /\ scores' = <<>> /\ questions' = <<>>
  /\ phase' = IF cands = <<>> \/ asr = <<>> THEN "rejected" ELSE "expand"

\* Stage 1: the providers answer, or fail and are then as if they found nothing.
\* What they answer is put in the order of the questions.
ProviderAnswers ==
  /\ phase = "collect" /\ questions # <<>>
  /\ pool' = pool \o Answer(Head(questions))
  /\ questions' = Tail(questions)
  /\ UNCHANGED <<given, artists, titles, phase, agentRan, written, scores, cache, agent,
                 result, passes>>

ProviderFails ==
  /\ phase = "collect" /\ questions # <<>>
  /\ questions' = Tail(questions)
  /\ UNCHANGED <<given, artists, titles, phase, agentRan, pool, written, scores, cache, agent,
                 result, passes>>

Collect ==
  /\ phase = "collect" /\ questions = <<>>
  /\ Consider(pool)
  /\ UNCHANGED <<given, artists, titles, agentRan, cache, agent, result, passes>>

-----------------------------------------------------------------------------
(* Stage 2: the candidates are written out and ranked *)

CallsModel(text) == key /\ NeedsRewriting(Raw[text]) /\ text \notin DOMAIN cache

\* All expansions start before any model answers.
Expand ==
  /\ phase = "expand"
  /\ written' = [i \in {j \in DOMAIN pool : ~CallsModel(pool[j].text)} |->
                   IF pool[i].text \in DOMAIN cache THEN cache[pool[i].text]
                                                     ELSE Rendered(Raw[pool[i].text])]
  /\ cache' = [t \in DOMAIN cache \cup {pool[i].text : i \in DOMAIN written'} |->
                 IF t \in DOMAIN cache THEN cache[t] ELSE Rendered(Raw[t])]
  /\ phase' = "rewrite"
  /\ UNCHANGED <<given, artists, titles, questions, agentRan, pool, scores, agent, result, passes>>

\* A model answers for one candidate, or fails; what it said last is remembered.
Rewrite ==
  /\ phase = "rewrite"
  /\ \E i \in DOMAIN pool \ DOMAIN written :
       \E words \in Rewrites \cup {Rendered(Raw[pool[i].text])} :
         /\ written' = [j \in DOMAIN written \cup {i} |-> IF j = i THEN words ELSE written[j]]
         /\ cache' = [t \in DOMAIN cache \cup {pool[i].text} |->
                        IF t = pool[i].text THEN words ELSE cache[t]]
  /\ UNCHANGED <<given, artists, titles, phase, questions, agentRan, pool, scores, agent, result, passes>>

Hints == [i \in DOMAIN pool |-> HintScore(pool[i], ToSet(artists), ToSet(titles))]

Found(i, confidence) ==
  [kind |-> "found", from |-> i, lyrics |-> written[i], confidence |-> confidence]

\* The model's choice among the two best, 0 when it gives none.
Picks(ranks) == {0} \cup (IF key THEN {First(ranks), Second(ranks)} ELSE {})

\* When all are written out they are scored,
Score ==
  /\ phase = "rewrite" /\ DOMAIN written = DOMAIN pool
  /\ scores' = ScoreAll(asr, written, Hints)
  /\ phase' = "rank"
  /\ UNCHANGED <<given, artists, titles, questions, agentRan, pool, written, cache, agent,
                 result, passes>>

\* and ranked; the model is awaited between the two best of them.
Rank ==
  /\ phase = "rank"
  /\ LET top == First(scores)
         alone == Len(scores) < 2
         ahead == alone \/ Lead(scores) >= Margin
     IN \/ /\ scores[top] < Weak
           /\ phase' = "rejected" /\ result' = result
        \/ /\ scores[top] >= Strong /\ ahead
           /\ phase' = "done" /\ result' = Found(top, "high")
        \/ /\ scores[top] >= Strong /\ ~ahead
           /\ \E i \in Picks(scores) :
                result' = IF i = 0 THEN Found(top, "medium") ELSE Found(i, "high")
           /\ phase' = "done"
        \/ /\ scores[top] \in Weak..(Strong - 1)
           /\ \E i \in IF alone THEN {0} ELSE Picks(scores) :
                result' = Found(IF i = 0 THEN top ELSE i, "medium")
           /\ phase' = "done"
  /\ UNCHANGED <<given, artists, titles, questions, agentRan, pool, written, scores, cache,
                 agent, passes>>

-----------------------------------------------------------------------------
(* Stage 3: the agent *)

CallAgent ==
  /\ phase = "rejected" /\ ~agentRan /\ engines # <<>>
  /\ phase' = "agent" /\ agentRan' = TRUE
  /\ UNCHANGED <<given, artists, titles, questions, pool, written, scores, cache, agent, result, passes>>

\* The row of searches after a call; one that would make it too long is refused.
After(n, tool) == CASE tool = "search" /\ n < MaxSearches -> n + 1
                    [] tool = "fetch" -> 0
                    [] OTHER -> n

\* Mutant: a page that was fetched starts the rounds anew.
UseToolsFreely ==
  /\ phase = "agent" /\ round < MaxRounds
  /\ \E tools \in [1..1 -> {"search", "fetch"}] :
       /\ searches' = FoldLeft(After, searches, tools)
       /\ round' = IF tools[1] = "fetch" THEN 0 ELSE round + 1
  /\ UNCHANGED <<given, artists, titles, phase, questions, agentRan, pool, written, scores, cache,
                 pass, result, passes>>

\* A round in which the model calls tools, one after another.
UseTools ==
  /\ phase = "agent" /\ round < MaxRounds
  /\ \E n \in 1..MaxCalls : \E tools \in [1..n -> {"search", "fetch", "unknown"}] :
       searches' = FoldLeft(After, searches, tools)
  /\ round' = round + 1
  /\ UNCHANGED <<given, artists, titles, phase, questions, agentRan, pool, written, scores, cache, pass,
                 result, passes>>

\* Mutant: every engine has its turn.
EndPassAlways(cands) ==
  /\ passes' = Append(passes, [engine |-> engines[pass], found |-> cands # <<>>])
  /\ IF pass < Len(engines)
     THEN /\ pass' = pass + 1 /\ round' = 0 /\ searches' = 0
          /\ UNCHANGED <<phase, questions, pool, written, scores>>
     ELSE Consider(cands) /\ UNCHANGED agent

\* A pass is over; the next engine has its turn only if nothing came of it.
EndPass(cands) ==
  /\ passes' = Append(passes, [engine |-> engines[pass], found |-> cands # <<>>])
  /\ IF cands = <<>> /\ pass < Len(engines)
     THEN /\ pass' = pass + 1 /\ round' = 0 /\ searches' = 0
          /\ UNCHANGED <<phase, questions, pool, written, scores>>
     ELSE Consider(cands) /\ UNCHANGED agent

\* The model answers without a tool; what is no list of texts counts as none.
AgentAnswers ==
  /\ phase = "agent" /\ round < MaxRounds
  /\ \E cands \in Findings : EndPass(Usable(cands))
  /\ UNCHANGED <<given, artists, titles, agentRan, cache, result>>

AgentExhausted ==
  /\ phase = "agent" /\ round = MaxRounds
  /\ EndPass(<<>>)
  /\ UNCHANGED <<given, artists, titles, agentRan, cache, result>>

\* The model is not reached, or calls a tool with arguments that are none.
AgentRaises ==
  /\ phase = "agent" /\ round < MaxRounds
  /\ phase' = "done" /\ result' = [kind |-> "apierror"]
  /\ UNCHANGED <<given, artists, titles, questions, agentRan, pool, written, scores, cache, agent, passes>>

-----------------------------------------------------------------------------
(* Stage 4: the transcript *)

UseTranscript ==
  /\ phase = "rejected" /\ (agentRan \/ engines = <<>>)
  /\ phase' = "done"
  /\ result' = IF Useful(asr) THEN [kind |-> "transcript", lyrics |-> asr, confidence |-> "low"]
                              ELSE [kind |-> "notfound"]
  /\ UNCHANGED <<given, artists, titles, questions, agentRan, pool, written, scores, cache, agent, passes>>

Returned == phase = "done" /\ UNCHANGED vars

Next == \/ ParseFilename \/ ProviderAnswers \/ ProviderFails \/ Collect
        \/ Expand \/ Rewrite \/ Score \/ Rank
        \/ CallAgent \/ UseTools \/ AgentAnswers \/ AgentExhausted \/ AgentRaises
        \/ UseTranscript \/ Returned

Spec == Init /\ [][Next]_vars

\* The coroutine goes on until it returns, as every call it awaits has a timeout: weak
\* fairness of Next, which is enabled, by the check for deadlocks, until it is done.
FairSpec == Spec /\ (<>[](phase = "done") \/ []<><<Next>>_vars)

-----------------------------------------------------------------------------
(* Properties *)

\* An answer is a candidate of the last pool, as it was written out; whoever is sure of
\* another than the best had no candidate that was better by the margin, and without a
\* model to ask the best is taken.
AnswerIsBest ==
  result.kind = "found" =>
    /\ result.lyrics = written[result.from]
    /\ result.confidence = "high" /\ result.from # First(scores) =>
         ~(scores[First(scores)] - scores[result.from] >= Margin)
    /\ ~key => result.from = First(scores)

\* The text holds every word that was heard, and no other phrase.
Echoes(words) == ToSet(asr) \subseteq ToSet(words) /\ SoundGrams(asr) \in {{}, SoundGrams(words)}

\* Exactly what was heard is an answer that, when no names are in favour of any, only
\* three texts can take the place of: one that holds the same, one the model picks
\* within the margin, and one that is set more densely with phrases no other text has.
ExactTextWins ==
  result.kind = "found" /\ artists = <<>> /\ titles = <<>> =>
    \A i \in DOMAIN pool : written[i] = asr /\ Useful(asr) =>
      \/ result.lyrics = asr \/ Echoes(result.lyrics)
      \/ key /\ scores[i] - scores[result.from] < Margin
      \/ LET anchors == RareAnchors(asr, written)
         IN ShareOf(anchors, result.from) > ShareOf(anchors, i)

\* The next engine has its turn only when those before it found nothing; the transcript
\* is not taken before one found something or all have had their turn,
EnginesTakeTurns ==
  /\ \A n \in 1..(Len(passes) - 1) : ~passes[n].found
  /\ result.kind = "transcript" /\ engines # <<>> =>
       passes # <<>> /\ (passes[Len(passes)].found \/ Len(passes) = Len(engines))

\* and only when no candidate there was is acceptable.
LastResorts ==
  /\ EnginesTakeTurns
  /\ result.kind = "transcript" => \A i \in DOMAIN pool : scores[i] < Weak

\* However the models answer, the search ends.
EverySearchEnds == <>(phase = "done")
=============================================================================
