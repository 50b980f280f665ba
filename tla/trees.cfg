\* Trees of directories: APFS, HFS+, disk images, xar, wim and ISO 9660.
SPECIFICATION TreesSpec
CONSTANTS
  ApfsImages <- ApfsVolumes
  Volumes <- MCVolumes
  ApfsMagicAt = 1
  MaxDepth = 2
  MaxEntries = 6
  HfsImages <- HfsVolumes
  VolumeHeaderAt = 16
  PrivateDirs = {"HFS+ Private Data"}
  DmgImages <- MCDisks
  SectorSize = 8
  KolySize = 8
  XarFiles <- XarArchives
  MinHeader = 28
  MaxToc = 20
  MaxTocDepth = 5
  WimFiles <- WimImages
  WimHeaderLen = 4
  EndWidth = 2
  StackFrames = 3
  IsoImages <- MCIsoImages
  MaxIsoDepth = 2
  TreeCuts <- Cut
INVARIANTS
  ListsTheTree
  DamageIsTold
  TreeOkIsContent
  ParentsFirst
PROPERTY OpenAnswers
CHECK_DEADLOCK FALSE
