CONSTANTS
  r1 = r1
  q1 = q1
  q2 = q2
  q3 = q3
  Jobs = {r1, q1, q2, q3}
  Running = {r1}
  Account <- MCAccount
  Cpus <- MCCpus
  Walltime <- MCWalltime
  Now = 2
  Horizon = 5
  Thresholds <- MCThresholds
  LimitValues <- MCLimitValues
SPECIFICATION Spec
INVARIANTS OneLimitPerInterval LimitsExact GapCheckAgrees NoNullSuccessor
PROPERTIES GlobalLimitKept
