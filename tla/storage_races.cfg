CONSTANTS
  Runners = {r1, r2}
  Particles = 2
  Cycles = 3
  CacheSlots = 2
  NSteps = 2
  WarmupNSteps = 1
  CheckTimeouts = FALSE
  FaultyLinger = FALSE
  MaxRestarts = 0
  MaxDeaths = 0
  Backlog = 2
  None = None
  Slots = 6
  MaxPrefetch = 4
  SizeT = 16
SPECIFICATION StudySpec
SYMMETRY Symmetry
INVARIANTS
  OneDirtyLoad
  OnlyKnownAborts
  PoolAgrees
CHECK_DEADLOCK FALSE
