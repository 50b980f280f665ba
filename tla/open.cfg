SPECIFICATION FairSpec
CONSTANTS
  Files <- MCFiles
  TempIds = {1, 2, 3, 4}
INVARIANTS TempsAreHeld MostSpecific AsOneEntry WholeOpens
PROPERTY OpenEnds
CHECK_DEADLOCK FALSE
