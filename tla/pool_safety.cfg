SPECIFICATION Spec
CONSTANTS
  j1 = j1
  j2 = j2
  j3 = j3
  c1 = c1
  c2 = c2
  NoJob = NoJob
  NumThreads = 2
  Jobs <- ThreeJobs
  Clients <- TwoClients
  WaitedJobs <- NobodyWaits
  Outcomes <- SomeOutcomes
  Shutdowns <- Both
SYMMETRY Symmetry
INVARIANTS WorkerFifo CallbackTruthful AtMostOneLateJob
CHECK_DEADLOCK FALSE
