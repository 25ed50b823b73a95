CONSTANTS
  MaxTransfers = 3
  MayFail = TRUE
SPECIFICATION Spec
INVARIANTS WorkIsVisible OneTransferAtATime
PROPERTIES GuardSparesOthers CommandsReturn StopReturnsToIdle
CHECK_DEADLOCK FALSE
