SPECIFICATION FairSpec
CONSTANTS
  j1 = j1
  j2 = j2
  w1 = w1
  c1 = c1
  nobody = nobody
  sweeper = sweeper
  Jobs <- TwoJobs
  Workers <- OneWorker
  Nobody <- nobody
  Sweeper <- sweeper
  Cards <- OneCard
  CardJob <- FollowOne
  MaxWrites = 2
  Timeout = 2
  MaxFaults = 1
CHECK_DEADLOCK FALSE
INVARIANTS
  TypeOK
  EndIsReal
  EndIsOnItsWay
PROPERTIES
  ProgressNeverGoesBack
  EveryCardSettles
