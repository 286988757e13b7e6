SPECIFICATION Spec
CONSTANTS
  hit1 = hit1
  song1 = song1
  duet1 = duet1
  hit2 = hit2
  cover2 = cover2
  upload2 = upload2
  r1 = r1
  c1 = c1
  c2 = c2
  none = none
  unbound = unbound
  dance = dance
  Tracks <- AllTracks
  Catalog <- SmallCatalog
  Clusters <- TwoClusters
  NoCluster <- none
  Moods <- OneMood
  ClusterOf <- DanceCluster
  Unbound <- unbound
  Languages <- Russian
  Likeness <- Likenesses
  TieOrder <- Ties
  Limits = {1, 2}
  Spare = 0
  Enough = 1
  Oversample = 1
  Requests <- OneRequest
  MaxRequests = 2
  MaxPlays = 2
CHECK_DEADLOCK FALSE
INVARIANTS
  NothingStaleIsOffered
  OneSongPerArtist
  SharesFitThePage
  PopularFillsThePage
  PopularIsTheLastResort
