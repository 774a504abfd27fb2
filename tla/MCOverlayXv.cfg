SPECIFICATION Spec
CONSTANTS
  Ctxs = {c1}
  SrfNos <- MCSrfNos3
  Regions = {r1, r2}
  Values = {v1, v2}
  None = None
  Unset = Unset
  Xv = Xv
  XvPort = 0
  Features = {"destroy", "xv", "attr", "fail", "stop"}
  SubSrfs = {1}
  MaxQueue = 2
SYMMETRY Symmetry
INVARIANTS
  NoFreedSurface
  AttributesFollowOwner
