SPECIFICATION Spec
CONSTANTS
  Files <- TwoFiles
  Thumbnail <- Small
  AllTiles = FALSE
  NumThreads = 2
  MaxReceive = 1
  Modes <- Thumbgen
INVARIANTS ThumbnailsStored
CHECK_DEADLOCK FALSE
