SPECIFICATION Spec
CONSTANTS
  Names <- NameList
  TrueSizes <- SizeList
  Displays <- Windows
  Places <- MouseAt
  RandomPlaces <- Scattered
  MaxImages = 4
  ExponentFrom = 1500
  MaxReplies = 1
  MaxPasses = 8
  Motions <- Sticks
  Budgets <- Bounds
INVARIANTS PlacesAgree ZoomKeepsPosition ToolsFollowButtons LayoutsKeepApart
PROPERTIES PlacesReadBack
CHECK_DEADLOCK FALSE
