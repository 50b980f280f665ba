SPECIFICATION Spec
CONSTANTS
  Inputs <- SpoiledFiles
  HeaderLen = 2
  TrailerLen = 2
  Buf = 4
  OutSizes <- Sizes
INVARIANT SpoiledIsCaught
