CONSTANTS
  Readers = {"r"}
  OutSize = 1
  Sizes = {1}
  Capacities = {1}
  DefaultCapacity = 1
  Commands <- StopOnly
  Quitters = {}
  MaxTransfers = 1
  MaxBlocks = 1
SPECIFICATION Spec
PROPERTIES CancelEndsReading
CHECK_DEADLOCK FALSE
