SPECIFICATION FairSpec
CONSTANTS
  Ctxs = {c1, c2}
  SrfNos <- MCSrfNos3
  Regions = {r1, r2}
  Values = {v1}
  None = None
  Unset = Unset
  Xv = Xv
  XvPort = 0
  Features = {"hide"}
  SubSrfs = {1}
  MaxQueue = 2
INVARIANTS
  OverlayShowsClaim
  SubpictureOfShown
PROPERTIES
  FlipOwnsOverlay
  PutEndsUnlessRobbed
