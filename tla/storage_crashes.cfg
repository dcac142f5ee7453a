CONSTANTS
  Runners = {r1, r2}
  Particles = 2
  Cycles = 3
  CacheSlots = 3
  NSteps = 2
  WarmupNSteps = 1
  CheckTimeouts = FALSE
  FaultyLinger = FALSE
  MaxRestarts = 1
  MaxDeaths = 1
  Backlog = 2
  None = None
  Slots = 7
  MaxPrefetch = 4
  SizeT = 16
SPECIFICATION StudySpec
SYMMETRY Symmetry
INVARIANTS
  ParentsStored
PROPERTY ImplementsWeightServer
CHECK_DEADLOCK FALSE
