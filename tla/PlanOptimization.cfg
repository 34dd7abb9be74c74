SPECIFICATION Spec
CONSTANTS
  NumClusters = 2
  NumNodes = 2
  Queued = {1, 2, 3, 5}
  Running = {4, 6}
  Completing = {6}
  Job <- SmallJob
  Plans <- SmallPlans
  MinQueued = 3
  OptimCycles = 2
  MaxFailures = 2
  MaxCalls = 2
  TimeScale = 2
  FuScale = 36
INVARIANTS NothingLost BackupWorks NoReturn
PROPERTY OptimizationStops
CHECK_DEADLOCK FALSE
