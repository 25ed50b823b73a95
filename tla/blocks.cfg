CONSTANTS
  Handle = {h1, h2, h3}
  BlockPools = {b1, b2}
  Pool = {p1, p2}
  NBlock = 2
  Memory = {m1}
  NoBlock = NoBlock
SPECIFICATION Spec
SYMMETRY Symmetry
INVARIANTS MemoryOutlivesBlocks NothingLeaks GrowsOnlyIfFull
PROPERTIES HandedOutOnce
CHECK_DEADLOCK FALSE
