CONSTANTS
  Cluster = "Local"
  NbNodes = 1
  NodesServer = 1
  NodesRunner = 1
  Loads = {1}
  GroupSize = 1
  MayRestart = TRUE
  MaxServerStarts = 2
  MaxJobs = 5
  MaxFaults = 1
  None = None
SPECIFICATION FairSpec
INVARIANT NoOrphans
PROPERTIES
  DeadServerReplaced
  DeadRunnerReplaced
  StopEndsStudy
CHECK_DEADLOCK FALSE
