CONSTANTS
  Runners = {r1, r2}
  Particles = 2
  Cycles = 3
  CacheSlots = 3
  NSteps = 2
  WarmupNSteps = 1
  CheckTimeouts = TRUE
  FaultyLinger = FALSE
  MaxRestarts = 0
  MaxDeaths = 0
  Backlog = 1
  None = None
SPECIFICATION Spec
SYMMETRY Symmetry
INVARIANTS
  JobsConserved
  JobsAreBacked
  ScheduledIsDue
  ParentsPropagatedAsDrawn
  DueDatesMatchRunners
  BookkeepingHolds
  BaseStateKept
PROPERTY ImplementsParticleFilter
CHECK_DEADLOCK FALSE
