SPECIFICATION Spec
CONSTANTS
  Second = 2
  Bits = 6
  NoDeadline = NoDeadline
  TooMany = 3
  MaxTime = 14
  Periods = {0, 1, 2, 3, 5}
  Deadlines = {0, 1, 2, 5, 15}
  NoValue = NoValue
  Descriptors = {"@hourly"}
  Words = {"*", "5", "", "@hourly"}
  MaxWords = 6
  CopiedTypes = {"App", "gen.ApplicationList"}
INVARIANT CopySharesNothing
