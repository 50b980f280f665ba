SPECIFICATION FairSpec
CONSTANTS
  Inputs <- Files
  HeaderLen = 2
  TrailerLen = 2
  Buf = 4
  OutSizes <- Sizes
PROPERTIES
  WellFormedIsRead
  ReadsTheFile
  CallsReturn
