CONSTANTS
  Element = {a, b}
  Pushers = {p1, p2}
  Poppers = {c1, c2}
  TimedPoppers = {}
  Drainers = {}
  Capacities = {1, 2}
  Controls <- ChainControls
SPECIFICATION Spec
INVARIANTS PushersAreWoken PoppersAreWoken NothingLeftBehind
PROPERTIES ContractSpec
