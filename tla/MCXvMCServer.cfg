SPECIFICATION ClientSpec
CONSTANTS
  MaxContexts = 2
  MaxSurfaces = 3
  Ids = {x1, x2, x3, x4, x5}
  NoId = NoId
  DrmBlocks = {d1, d2}
  XBlocks = {b1, b2}
  NoBlock = NoBlock
  NoSlot = NoSlot
  Threads = {t1}
  Mismatch = TRUE
SYMMETRY Symmetry
INVARIANTS
  CountersMatch
  MemoryAccounted
  NamesAreLive
  SharedWhileUsed
  NothingLeftBehind
