SPECIFICATION FairSpec
CONSTANTS
  Instruction = "again"
  Lemma <- Lemmas
  Skeleton <- Sounds
  Alike <- NoPairs
  Similar <- AFewPairs
  GramSize = 4
  AnchorSize = 5
  Log <- Logs
  Strong = 65000
  Weak = 45000
  Margin = 5000
  Heard <- Transcripts
  GivenNames <- Names
  FileNames <- Parsed
  Raw <- RawTexts
  Webs <- AllWebs
  Knows <- Knowledge
  Rewrites <- Answers
  Findings <- AgentFinds
  Engines <- Both
  Keys = {TRUE, FALSE}
  Fragments = 1
  MaxHits = 3
  MinWords = 3
  MaxRounds = 3
  MaxSearches = 2
  MaxCalls = 2
INVARIANTS
  AnswerIsBest
  ExactTextWins
  LastResorts
PROPERTY EverySearchEnds
