CONSTANTS
  j1 = j1
  NumUsers = 2
  Jobs = {j1}
  Owner <- MCOwner
  Procs <- MCProcs
  HalfLife = 2
  SyncTime = 1
  Slack = 1
  StartTime = 4
  MaxTime = 7
  SavedUsage <- MCSavedUsage
  StoredDecay = 2
  Exceptions = TRUE
  Crashes = TRUE
  Torn = TRUE
SPECIFICATION Spec
INVARIANTS UsagePositive NotDecayedTwice DecayInTime
PROPERTY CleanRestart
