\* extract_all, the fork going into the file or beside it, the disk failing or not.
SPECIFICATION MCSpec
CONSTANTS
  Dot = "."
  Up = ".."
  MacFolder = "__MACOSX"
  MacFiles <- MCMacFiles
  Sidecar <- MCSidecar
  Path <- MCPath
  Archives <- MCArchives
  Options <- MCOptions
  Trees <- MCTrees
  Wrapper = "w"
  Outside = Outside
  Platforms <- Both
  ForkLimit = 1
  DiskFaults = TRUE
INVARIANTS
  FailsCleanly
  AllAccounted
  FinishedStays
  UnfinishedIsRemoved
  TimesSurvive
  OneNewTop
  CleanIsExtracted
PROPERTIES
  AbortIsFinal
  EventOrder
  KeepsPromise
CHECK_DEADLOCK FALSE
