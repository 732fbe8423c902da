SPECIFICATION Spec
CONSTANTS
  Threads = {1, 2}
  PipeSize = 1
  MaxOutput = 2
  MaxErrors = 1
  InputPieces = 2
  TileSize = 4
  ThumbSize = 1
  JpegPower = 1
  Ahead = 2
  GroupSize = 3
  FractalMax = 2
  MaxLinks = 2
  Endings <- WordEndings
  Worlds <- AllWorlds
INVARIANTS OutputComplete TilesShowThePicture MembersReadable FilesFound ProvidersRight
PROPERTIES LoadsEndOrHang
CHECK_DEADLOCK FALSE
