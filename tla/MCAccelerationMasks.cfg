SPECIFICATION Spec
CONSTANTS
  BufSize = 80
  Screens <- MCMasked
  Pixmaps <- MCPixmaps16
  PlaneMasks = {"all", "bytes", "bits"}
  DrmAnswers = {TRUE}
  MarkMod = 16
  Window = 8
  MaxMarks = 3
  MaxQueue = 3
  MaxBands = 3
INVARIANTS
  MaskIsOwn
