SPECIFICATION Spec
CONSTANTS
  j1 = j1
  w1 = w1
  w2 = w2
  t1 = t1
  t2 = t2
  t3 = t3
  nobody = nobody
  Jobs <- OneJob
  Workers <- TwoWorkers
  Tasks <- ThreeTasks
  WorkerOf <- MCWorkerOf
  Nobody <- nobody
  FaultKinds <- AllFaults
  MaxFaults = 2
  MaxCopies = 2
SYMMETRY SlotSymmetry
INVARIANTS
  TypeOK
  ExclusiveProcessing
  LockIsHeldByProcessor
  CompletedHasArtifacts
  ExtraTracksCostFaults
PROPERTIES
  NoMessageLost
  NoResurrection
  ImplementsJobTable
CHECK_DEADLOCK FALSE
