CONSTANTS
  N = 2
  Readahead = 2
  Kept = 2
  Variable = TRUE
  Wrap = 64
  MaxSeq = 7
  MaxPackets = 5
SPECIFICATION Spec
INVARIANTS InOrderAndInPlace EveryDatagramIsAccounted LossIsLostLessRepeats LastNumbersAreKept
CHECK_DEADLOCK FALSE
