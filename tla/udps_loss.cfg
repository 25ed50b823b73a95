CONSTANTS
  N = 2
  Readahead = 2
  Kept = 2
  Variable = TRUE
  Wrap = 64
  MaxSeq = 5
  MaxPackets = 4
SPECIFICATION Spec
INVARIANTS LossIsPlausible
CHECK_DEADLOCK FALSE
