SPECIFICATION FairSpec
CONSTANTS
  a = a
  b = b
  h1 = h1
  h2 = h2
  none = none
  Tracks <- TwoTracks
  Handlers <- TwoHandlers
  NoTrack <- none
  MaxFaults = 2
CHECK_DEADLOCK FALSE
INVARIANTS
  TypeOK
  OriginalOutlivesIndexing
  SyncedIsSearchable
  DeadLettersAreDone
PROPERTY EveryTrackIsIndexed
