SPECIFICATION Spec
CONSTANTS
  u1 = u1
  u2 = u2
  t1 = t1
  t2 = t2
  Urls <- TwoUrls
  Tiles <- OneTile
  CacheLimit = 1
  MaxInbox = 2
  MaxEntries = 2
  MaxRuns = 2
SYMMETRY Symmetry
INVARIANTS OwnPicture ReceivedIsFound
CHECK_DEADLOCK FALSE
