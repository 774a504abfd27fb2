\* a server that gave up has ended
SPECIFICATION Spec
CONSTANTS
  Options <- MCOptions
  FailSets <- MCFailSets
  ConsoleModes = {"text", "graphics"}
  DGADepths = {8, 32}
  MaxGenerations = 2
  MaxVisits = 2
  Bpl = 2048
  VirtualY = 768
  VQSize = 262144
  CursorSize = 4096
CHECK_DEADLOCK FALSE
INVARIANTS
  ConsoleRestored
  ClientsExcluded
  EngineReady
  RegionsDisjoint
  ScreenAsDrawn
