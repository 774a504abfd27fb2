SPECIFICATION Spec
CONSTANTS
  c1 = c1
  c2 = c2
  s1 = s1
  s2 = s2
  s3 = s3
  Contexts = {c1, c2}
  NoCtx = NoCtx
  Surfaces = {s1, s2, s3}
  NoSrf = NoSrf
  Owner <- MCOwner
  Luma = {"intra"}
  Chroma = {"chromaIntra"}
  Features <- MCFail
  MaxStamp <- MCStamps
  MaxLoads = 1
  BufSize = 1
  RingSize = 2
INVARIANTS
  HaveMeansHold
