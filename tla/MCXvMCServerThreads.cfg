SPECIFICATION ClientSpec
CONSTANTS
  MaxContexts = 2
  MaxSurfaces = 1
  Ids = {x1, x2, x3}
  NoId = NoId
  DrmBlocks = {d1, d2}
  XBlocks = {b1, b2}
  NoBlock = NoBlock
  NoSlot = NoSlot
  Threads = {t1, t2}
  Mismatch = FALSE
SYMMETRY Symmetry
INVARIANTS
  SharedWhileUsed
