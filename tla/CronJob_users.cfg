SPECIFICATION Spec
CONSTANTS
  Second = 1
  Bits = 8
  TooMany = 5
  Period = 2
  NoDeadline = NoDeadline
  Absent = Absent
  Policies = {"Forbid", "Replace"}
  Deadlines = {NoDeadline}
  SuccessLimit = 1
  FailLimit = 1
  UserDeletesJobs = TRUE
  JobsStartInOrder = FALSE
  MaxTime = 3
  MaxOps = 3
  MaxFaults = 1
  MaxCrashes = 1
  MaxEvents = 3
INVARIANT WakesForNextStart
CHECK_DEADLOCK FALSE
