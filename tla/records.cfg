\* Archives that are lists of members: cpio, wpress, tar, zip and rar.
SPECIFICATION RecordsSpec
CONSTANTS
  CpioFiles <- CpioArchives
  SumModulus = 16
  Cuts <- Shortened
  WPressFiles <- WPressArchives
  BlockLen = 6
  TarFiles <- TarArchives
  ZipFiles <- ZipArchives
  RarFiles <- RarArchives
  MaxFailures = 3
INVARIANTS
  ReadsAsWritten
  OkIsContent
  CutIsTold
  BodiesApart
  VerifyKeepsItsContract
CHECK_DEADLOCK FALSE
