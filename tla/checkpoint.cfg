CONSTANTS
  ServerRanks = {0, 1}
  Members = {0, 1}
  RunnerRanks = {0}
  Builds = {TRUE, FALSE}
  TotalSteps = 4
  MaxRetries = 1
  MaxCrashes = 1
  None = None
SPECIFICATION FairSpec
INVARIANTS
  CheckpointOfOneStep
  UpdatesItsStep
PROPERTIES
  NoStepLost
  StudyEnds
CHECK_DEADLOCK FALSE
