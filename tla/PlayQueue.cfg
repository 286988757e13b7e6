SPECIFICATION Spec
CONSTANTS
  e1 = e1
  e2 = e2
  e3 = e3
  r1 = r1
  r2 = r2
  ann = ann
  bob = bob
  hit = hit
  noEntry = noEntry
  noSong = noSong
  Requests <- TwoRequests
  Entries <- ThreeEntries
  Singers <- TwoSingers
  Tracks <- OneTrack
  NoEntry <- noEntry
  NoSong <- noSong
  MaxRequests = 5
  MaxFaults = 1
SYMMETRY Symmetry
CHECK_DEADLOCK FALSE
INVARIANTS
  TypeOK
  NoTurnLost
  DoneIsRecorded
  CountersFollowHistory
PROPERTIES
  ArrivalOrder
  NoTurnAfterTheEnd
