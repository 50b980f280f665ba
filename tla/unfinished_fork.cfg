\* A fork the reader cannot deliver, on macOS.
SPECIFICATION Spec
CONSTANTS
  Dot = "."
  Up = ".."
  MacFolder = "__MACOSX"
  MacFiles <- MCMacFiles
  Sidecar <- MCSidecar
  Path <- MCPath
  Archives <- ForkArchives
  Options <- OneOption
  Trees <- EmptyOnly
  Wrapper = "w"
  Outside = Outside
  Platforms <- MacOnly
  ForkLimit = 1
  DiskFaults = FALSE
INVARIANT NoUnfinishedFork
CHECK_DEADLOCK FALSE
