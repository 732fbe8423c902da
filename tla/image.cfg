SPECIFICATION FairImageSpec
CONSTANTS
  thumb = thumb
  big = big
  other = other
  Tiles <- TwoTiles
  Kept <- Thumb
  FileTiles <- Thumb
  Views <- NearAndFar
  MaxLate = 1
  MaxKeys = 2
INVARIANTS AskedOnTheWay RequestedOnTheWay
PROPERTIES EventuallyShown
CHECK_DEADLOCK FALSE
