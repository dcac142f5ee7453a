CONSTANTS
  CommSize = 2
  RunnerSize = 3
  Layouts <- Blocks
  HiddenLayouts <- HiddenBlocks
  ElementSizes = {1, 2}
SPECIFICATION Spec
INVARIANTS
  PartsAreOverlaps
  SizesAgree
  BackgroundFollowsIndexMap
  RoundTrip
CHECK_DEADLOCK FALSE
