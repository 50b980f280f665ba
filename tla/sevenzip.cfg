SPECIFICATION Spec
CONSTANTS
  Archives <- Damaged
  Names <- TwoNames
  Limit = 1
INVARIANTS
  OnlyOwnBytes
  OkIsWhole
  LinksHaveTargets
  ReadableLinksStay
PROPERTIES
  VerifyJudges
CHECK_DEADLOCK FALSE
