CONSTANTS
  NSteps = 3
  Width <- MiddleTwo
  QueueDepth = 1
  MaxItems = 2
  Quitters = {1, 3}
  MayFail = TRUE
  Runner = "main"
  Stoppers = {"main"}
  Waiters = {"waiter"}
SPECIFICATION Spec
INVARIANTS UserdataOutlivesThreads FinalsRunOnceAlone GentleStopLosesNothing ReturnMeansStopped OneJoins
PROPERTIES StopReturnsInTheEnd EndTravelsDownstream EndTravelsUpstream
CHECK_DEADLOCK FALSE
