CONSTANTS
  Chunks = {c1, c2, c3}
  Mountpoints = {m1}
  Senders = {s1}
  Receivers = {r1}
  Writers = {w1}
  NReaders = 1
  None = None
  Depth = 1
  MaxTries = 2
  MaxRounds = 1
  MaxFaults = 1
SPECIFICATION Spec
INVARIANTS RefusedMeansStop
CHECK_DEADLOCK FALSE
