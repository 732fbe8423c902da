SPECIFICATION Spec
CONSTANTS
  r1 = r1
  r2 = r2
  r3 = r3
  Requests <- ThreeRequests
  NumWorkers = 1
  MaxReceive = 1
  Grid <- TwoScales
  Jpegs <- NoJpeg
  Databases <- Complete
SYMMETRY Symmetry
INVARIANTS NeverAsserts
CHECK_DEADLOCK FALSE
