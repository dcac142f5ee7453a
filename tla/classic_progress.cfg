CONSTANTS
  CommSize = 2
  Links <- TwoRunnerRanks
  Runners = {0, 1}
  EnsembleSize = 2
  TotalSteps = 2
  Assimilator = "Dummy"
  HiddenState = FALSE
  ReportTiming = TRUE
  StopsArrive = FALSE
  MaxFailCount = 5
  MaxFaults = 1
  None = None
SPECIFICATION FairSpec
INVARIANT AnswersAgree
PROPERTIES
  Progress
  ImplementsEnsembleUpdate
CHECK_DEADLOCK FALSE
