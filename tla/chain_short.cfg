CONSTANTS
  NSteps = 2
  Width <- OneEach
  QueueDepth = 1
  MaxItems = 1
  Quitters = {}
  MayFail = TRUE
  Runner = "main"
  Stoppers = {"main"}
  Waiters = {}
SPECIFICATION SafeSpec
INVARIANTS RunMeansAllStarted
CHECK_DEADLOCK FALSE
