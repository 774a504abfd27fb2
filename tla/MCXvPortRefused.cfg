SPECIFICATION Spec
CONSTANTS
  small = small
  large = large
  near = near
  MCCropped = FALSE
  Xv = {yv12}
  Xvmc = Xvmc
  WithXvmc = FALSE
  Sizes = {small, large}
  Positions = {p1}
  Dims = {full}
  Clips = {w1}
  Keys = {k1}
  Pans = {q1}
  TooSmall <- MCTooSmall
  Parts <- MCParts
  Blocks = {b1, b2, b3}
  None = None
  Features = {"noBlit"}
SYMMETRY Symmetry
INVARIANTS
  CopyFits
