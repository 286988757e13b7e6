SPECIFICATION FairSpec
CONSTANTS
  j1 = j1
  w1 = w1
  w2 = w2
  t1 = t1
  t2 = t2
  t3 = t3
  nobody = nobody
  Jobs <- OneJob
  Workers <- TwoWorkers
  Tasks <- ThreeTasks
  WorkerOf <- MCWorkerOf
  Nobody <- nobody
  FaultKinds <- Recoverable
  MaxFaults = 1
  MaxCopies = 2
CHECK_DEADLOCK FALSE
INVARIANT RunningIsOwned
PROPERTY EveryJobSettles
