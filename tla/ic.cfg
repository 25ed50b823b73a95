CONSTANTS
  Readers = {"r"}
  OutSize = 2
  Sizes = {1, 3}
  Capacities = {2}
  DefaultCapacity = 1
  Commands <- FlushThenStop
  Quitters = {"r"}
  MaxTransfers = 2
  MaxBlocks = 3
SPECIFICATION Spec
INVARIANTS InOrder TogetherOnly
PROPERTIES CancelEndsStupidReading QueueIsEmptied SourceIsNotHeldUp
CHECK_DEADLOCK FALSE
