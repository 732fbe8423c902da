SPECIFICATION FairSpec
CONSTANTS
  Files <- TwoFiles
  Thumbnail <- Small
  AllTiles = FALSE
  NumThreads = 2
  MaxReceive = 1
  Modes <- AllModes
INVARIANTS ReadsAlone ThumbnailsCut
PROPERTIES EndsOrKnownHang
CHECK_DEADLOCK FALSE
