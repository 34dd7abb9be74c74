CONSTANTS
  j1 = j1
  j2 = j2
  Jobs = {j1, j2}
  Local = {j1}
  Arrays = {}
  Priority = {j2}
  Num <- MCNumTwo
  NumClusters = 2
  NewJobsLimit = 2
  RemoteLimit = 1
  KeepCompleted = FALSE
  SlavesReliable = TRUE
SPECIFICATION Spec
INVARIANTS NoDangling
