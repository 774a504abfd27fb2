SPECIFICATION Spec
CONSTANTS
  BufSize = 80
  Screens <- MCScreens
  Pixmaps <- MCPixmaps
  PlaneMasks = {"all"}
  DrmAnswers = {TRUE}
  MarkMod = 16
  Window = 8
  MaxMarks = 3
  MaxQueue = 3
  MaxBands = 3
INVARIANTS
  StreamParses
  StateThroughDrm
  QuadState
  CpuAfterEngine
  BandsInOrder
PROPERTIES
  WaitEnds
