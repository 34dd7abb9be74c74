SPECIFICATION Spec
CONSTANTS
  NumNodes = 3
  Cores <- MixCores
  Capacity <- MixCapacity
  Jobs = {1, 2, 3, 4, 5}
  Job <- MixJob
  Allowed <- MixAllowed
  AvailBefore <- MixAvail
  Delays <- MixDelays
  Refusals = {0, 1}
  MinQueued = 2
  Moved = {4}
  NodeStates <- MixStates
  Running <- MixRunning
  Held <- MixHeld
  MaxTime = 1
  Far = 99
INVARIANTS CpuOnce CpusMatchNodes  
PROPERTY UpdateEnds
CHECK_DEADLOCK FALSE
