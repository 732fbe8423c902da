SPECIFICATION FairSpec
CONSTANTS
  j1 = j1
  j2 = j2
  j3 = j3
  c1 = c1
  c2 = c2
  NoJob = NoJob
  NumThreads = 2
  Jobs <- TwoJobs
  Clients <- OneClient
  WaitedJobs <- OneJob
  Outcomes <- ReportingOutcomes
  Shutdowns <- Both
PROPERTIES EveryJobReported WaitersReleased BusyWorkersLeave
CHECK_DEADLOCK FALSE
