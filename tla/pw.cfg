CONSTANTS
  Writer = {w1, w2, w3}
  Mountpoint = {m1, m2}
  NoMountpoint = NoMountpoint
  NChunks = 3
  QueueDepth = 2
SPECIFICATION Spec
INVARIANTS MountpointsAreExclusive ListIsAccounted NobodyWaitsInVain
PROPERTIES TriedBeforeGivingUp ChunksAreFinished
CHECK_DEADLOCK FALSE
