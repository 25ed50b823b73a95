CONSTANTS
  Element = {a}
  Pushers = {p1}
  Poppers = {}
  TimedPoppers = {t1, t2}
  Drainers = {d}
  Capacities = {1, 2}
  Controls <- AllControls
SPECIFICATION Spec
INVARIANTS CountsOK TimedPoppersAreWoken

