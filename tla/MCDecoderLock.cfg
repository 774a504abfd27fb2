SPECIFICATION FairSpec
CONSTANTS
  c1 = c1
  c2 = c2
  c3 = c3
  Contexts = {c1, c2, c3}
  NoCtx = NoCtx
  MaxDeaths <- MCDeaths
INVARIANTS
  MutualExclusion
  HadLastIsMine
  NoLostWakeup
PROPERTIES
  AttemptEndsUnlessOvertaken
  ImplementsMutex
