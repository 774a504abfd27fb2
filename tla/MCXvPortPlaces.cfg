SPECIFICATION Spec
CONSTANTS
  small = small
  large = large
  near = near
  MCCropped = TRUE
  Xv = {}
  Xvmc = Xvmc
  WithXvmc = TRUE
  Sizes = {small, large}
  Positions = {p1, p2}
  Dims = {near, full}
  Clips = {w1, w2}
  Keys = {k1, k2}
  Pans = {q1, q2}
  TooSmall <- MCTooSmall
  Parts <- MCParts
  Blocks = {b1, b2}
  None = None
  Features = {"noBandwidth", "autopaint"}
SYMMETRY Symmetry
INVARIANTS
  KeyPainted
PROPERTIES
  PutShows
