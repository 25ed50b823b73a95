CONSTANTS
  Readers = {"r", "s"}
  OutSize = 2
  Sizes = {1}
  Capacities = {2}
  DefaultCapacity = 1
  Commands <- StopOnly
  Quitters = {}
  MaxTransfers = 2
  MaxBlocks = 2
SPECIFICATION SafeSpec
INVARIANTS TogetherOnly
CHECK_DEADLOCK FALSE
