\* Every path begins with ".", as tar writes them for a directory.
SPECIFICATION Spec
CONSTANTS
  Dot = "."
  Up = ".."
  MacFolder = "__MACOSX"
  MacFiles <- MCMacFiles
  Sidecar <- MCSidecar
  Path <- MCPath
  Archives <- DottedArchives
  Options <- OneOption
  Trees <- EmptyOnly
  Wrapper = "w"
  Outside = Outside
  Platforms <- NotMac
  ForkLimit = 1
  DiskFaults = FALSE
INVARIANT OneNewTopAlways
CHECK_DEADLOCK FALSE
