SPECIFICATION FairSpec
CONSTANTS
  Items = {k1}
  Workers = {w1, w2}
  Absent = Absent
  ForeignIngresses = FALSE
  MaxRetry = 2
  Capacity = 2
  MaxOps = 3
  MaxFaults = 1
  MaxDisconnects = 0
  MaxCrashes = 1
INVARIANTS TypeOK SettledServiceHasIngress
CHECK_DEADLOCK FALSE
PROPERTY ServiceGetsIngress
