CONSTANTS
  CommSize = 2
  Links <- OneRunnerRank
  Runners = {0, 1}
  EnsembleSize = 2
  TotalSteps = 1
  Assimilator = "Dummy"
  HiddenState = FALSE
  ReportTiming = TRUE
  StopsArrive = TRUE
  MaxFailCount = 1
  MaxFaults = 2
  None = None
SPECIFICATION Spec
INVARIANTS
  NoAssertionFails
  TasksConserved
CHECK_DEADLOCK FALSE
