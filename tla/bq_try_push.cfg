CONSTANTS
  Element = {a}
  Pushers = {p1}
  Poppers = {c1}
  TimedPoppers = {}
  Drainers = {}
  Capacities = {1}
  Controls <- ChainControls
SPECIFICATION Spec
PROPERTIES TryPushTells
