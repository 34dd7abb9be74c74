SPECIFICATION Spec
CONSTANTS
  Procs = {1, 2}
  Master = "m"
  Slaves <- OneSlave
  Queues = 2
  Canonical = {"m"}
  Moments <- Days
  HolidaysFile <- HolidayLines
  All = 2400
  None = 2500
  Dedicated <- TwoDedicated
  PrimeFs = TRUE
  NonPrimeFs = FALSE
  MaxSleep = 2
  MaxEvents = 2
INVARIANTS LockNamesDaemon StatusRight
PROPERTIES SignalStops Recovers PlanPublished
CHECK_DEADLOCK FALSE
