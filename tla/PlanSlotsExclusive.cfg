SPECIFICATION Spec
CONSTANTS
  NumNodes = 2
  Cores <- ExclCores
  Capacity <- ExclCapacity
  Jobs = {1, 2, 3}
  Job <- ExclJob
  Allowed <- ExclAllowed
  AvailBefore <- ExclAvail
  Delays <- ExclDelays
  Refusals = {0}
  MinQueued = 2
  Moved = {}
  NodeStates <- ExclStates
  Running <- ExclRunning
  Held <- ExclHeld
  MaxTime = 2
  Far = 99
INVARIANT ExclusiveWaits
CHECK_DEADLOCK FALSE
