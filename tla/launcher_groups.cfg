CONSTANTS
  Cluster = "Fugaku"
  NbNodes = 3
  NodesServer = 1
  NodesRunner = 1
  Loads = {2}
  GroupSize = 2
  MayRestart = TRUE
  MaxServerStarts = 2
  MaxJobs = 3
  MaxFaults = 1
  None = None
SPECIFICATION Spec
INVARIANT NodesAgree
CHECK_DEADLOCK FALSE
