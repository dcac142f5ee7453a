CONSTANTS
  CommSize = 2
  Links <- OneRunnerRank
  Runners = {0, 1}
  EnsembleSize = 2
  TotalSteps = 2
  Assimilator = "Python"
  HiddenState = FALSE
  ReportTiming = TRUE
  StopsArrive = FALSE
  MaxFailCount = 5
  MaxFaults = 0
  None = None
SPECIFICATION Spec
INVARIANT PropagationKept
CHECK_DEADLOCK FALSE
