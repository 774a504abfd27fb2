SPECIFICATION Spec
CONSTANTS
  Ctxs = {c1}
  SrfNos <- MCSrfNos
  Regions = {r1, r2}
  Values = {v1}
  None = None
  Unset = Unset
  Xv = Xv
  XvPort = 0
  Features = {"xv"}
  SubSrfs = {}
  MaxQueue = 1
SYMMETRY Symmetry
PROPERTIES
  FlipOwnsOverlay
