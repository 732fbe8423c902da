SPECIFICATION FairSpec
CONSTANTS
  r1 = r1
  r2 = r2
  r3 = r3
  Requests <- TwoRequests
  NumWorkers = 2
  MaxReceive = 1
  Grid <- TwoScales
  Jpegs <- AnyImage
  Databases <- Killed
PROPERTIES EveryRequestAnswered
CHECK_DEADLOCK FALSE
INVARIANTS AnsweredOnce OnlyNewestWaits SingleGeneration ToBeRemoved TilesArrive
