SPECIFICATION Spec
CONSTANTS
  Items = {k1}
  Workers = {w1, w2}
  Absent = Absent
  ForeignIngresses = FALSE
  MaxRetry = 1
  Capacity = 2
  MaxOps = 3
  MaxFaults = 0
  MaxDisconnects = 0
  MaxCrashes = 0
INVARIANT PlainServiceHasNoIngress
CHECK_DEADLOCK FALSE
SYMMETRY Symmetry
