SPECIFICATION FairSpec
CONSTANTS
  Last = 4
  Length <- Lengths
  OutSizes <- Slices
  Moves = 3
INVARIANTS
  NothingIsSkipped
  EndIsTheEnd
PROPERTY ReadsReturn
CHECK_DEADLOCK FALSE
