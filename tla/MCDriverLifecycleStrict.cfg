\* The code meets none of the three; the README says how.  TLC stops at the
\* first of them unless it is run with -continue.
SPECIFICATION Spec
CONSTANTS
  Options <- MCOptions
  FailSets <- MCFailSets
  ConsoleModes = {"text", "graphics"}
  DGADepths = {8, 32}
  MaxGenerations = 2
  MaxVisits = 2
  Bpl = 2048
  VirtualY = 768
  VQSize = 262144
  CursorSize = 4096
CHECK_DEADLOCK FALSE
INVARIANTS
  ConsoleAsFound
  RegionsNeverOverlap
  DepthAsDrawn
