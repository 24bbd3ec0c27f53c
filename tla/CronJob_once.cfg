SPECIFICATION FairSpec
CONSTANTS
  Second = 1
  Bits = 8
  TooMany = 5
  Period = 1
  NoDeadline = NoDeadline
  Absent = Absent
  Policies = {"Allow", "Forbid", "Replace"}
  Deadlines = {NoDeadline}
  SuccessLimit = 1
  FailLimit = 1
  UserDeletesJobs = FALSE
  JobsStartInOrder = TRUE
  MaxTime = 2
  MaxOps = 1
  MaxFaults = 1
  MaxCrashes = 1
  MaxEvents = 3
INVARIANTS RunsOnce RunsDoNotOverlap
PROPERTIES LastStartRuns LastScheduleTimeAdvances
CHECK_DEADLOCK FALSE
