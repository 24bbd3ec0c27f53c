SPECIFICATION FairSpec
CONSTANTS
  n1 = n1
  n2 = n2
  Items = {n1, n2}
  Workers = {w1}
  Absent = Absent
  AppNames = {n1}
  Specs <- MCSpecs
  MaxRetry = 1
  Capacity = 1
  MaxOps = 2
  MaxFaults = 1
  MaxLag = 1
INVARIANTS TypeOK WorkersReadFullCaches SettledAppHasChildren
PROPERTIES UsersSpecIsKept ControllerSettles
CHECK_DEADLOCK FALSE
