SPECIFICATION Spec
CONSTANTS
  Files <- MCFiles
  TempIds = {1, 2, 3, 4}
INVARIANT NameNeverShadows
CHECK_DEADLOCK FALSE
