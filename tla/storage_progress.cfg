CONSTANTS
  Runners = {r1, r2}
  Particles = 1
  Cycles = 4
  CacheSlots = 3
  NSteps = 2
  WarmupNSteps = 1
  CheckTimeouts = FALSE
  FaultyLinger = FALSE
  MaxRestarts = 0
  MaxDeaths = 0
  Backlog = 2
  None = None
  Slots = 7
  MaxPrefetch = 4
  SizeT = 16
SPECIFICATION FairStudySpec
PROPERTIES
  LoadsEnd
  NeverStalls
CHECK_DEADLOCK FALSE
