SPECIFICATION Spec
CONSTANTS
  e1 = e1
  e2 = e2
  e3 = e3
  r1 = r1
  r2 = r2
  ann = ann
  bob = bob
  hit = hit
  noEntry = noEntry
  noSong = noSong
  Requests <- OneRequest
  Entries <- TwoEntries
  Singers <- OneSinger
  Tracks <- OneTrack
  NoEntry <- noEntry
  NoSong <- noSong
  MaxRequests = 2
  MaxFaults = 0
CHECK_DEADLOCK FALSE
INVARIANT CurrentIsPlaying
