CONSTANTS
  Chunks = {c1, c2}
  Mountpoints = {m1}
  Senders = {s1, s2}
  Receivers = {r1, r2}
  Writers = {w1}
  NReaders = 1
  None = None
  Depth = 1
  MaxTries = 2
  MaxRounds = 2
  MaxFaults = 1
SPECIFICATION Spec
INVARIANTS NothingVanishes GoodMountpointsStay
PROPERTIES RoundsEnd
CHECK_DEADLOCK FALSE
