CONSTANTS
  Runners = {r1, r2}
  Particles = 2
  Cycles = 3
  CacheSlots = 3
  NSteps = 2
  WarmupNSteps = 1
  CheckTimeouts = FALSE
  FaultyLinger = FALSE
  MaxRestarts = 1
  MaxDeaths = 0
  Backlog = 2
  None = None
SPECIFICATION Spec
SYMMETRY Symmetry
INVARIANTS
  TypeOK
  Ledger
  AlwaysAParent
  PrefetchComplete
  CacheKnown
  CheckpointExists
PROPERTY ImplementsParticleFilter
CHECK_DEADLOCK FALSE
