SPECIFICATION FairSpec
CONSTANTS
  Items = {k1}
  Workers = {w1, w2}
  Absent = Absent
  ForeignIngresses = TRUE
  MaxRetry = 1
  Capacity = 2
  MaxOps = 3
  MaxFaults = 0
  MaxDisconnects = 1
  MaxCrashes = 1
INVARIANTS ListersCatchUp KeyHeldByOneWorker
PROPERTY OrphanIsCollected
CHECK_DEADLOCK FALSE
