SPECIFICATION FairSpec
CONSTANTS
  r1 = r1
  r2 = r2
  r3 = r3
  Requests <- ThreeRequests
  Grid <- SmallGrid
  DbRanges <- SomeRanges
INVARIANTS ServedOnce RefusedNeverServed NothingTwice
PROPERTIES EventuallyHonored
CHECK_DEADLOCK FALSE
