SPECIFICATION Spec
CONSTANTS
  Sets <- Archives
  Max16 = 60
  Max32 = 180
  Faults = TRUE
INVARIANTS
  ReadsAsUnsplit
  PointsIntoData
  MissingIsTold
  RefusesOnlyForRoom
CHECK_DEADLOCK FALSE
