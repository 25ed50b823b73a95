CONSTANTS
  MaxTransfers = 1
  MayFail = FALSE
SPECIFICATION Spec
INVARIANTS DoneMeansCleared
CHECK_DEADLOCK FALSE
