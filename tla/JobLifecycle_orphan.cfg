SPECIFICATION Spec
CONSTANTS
  j1 = j1
  w1 = w1
  w2 = w2
  t1 = t1
  t2 = t2
  t3 = t3
  nobody = nobody
  Jobs <- OneJob
  Workers <- OneWorker
  Tasks <- OneTask
  WorkerOf <- MCWorkerOf
  Nobody <- nobody
  FaultKinds <- NoFaults
  MaxFaults = 0
  MaxCopies = 1
CHECK_DEADLOCK FALSE
INVARIANT NoOrphanInstrumental
