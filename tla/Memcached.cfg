SPECIFICATION FairSpec
CONSTANTS
  Absent = Absent
  Sizes = {1, 2}
  Images = {"tagged", "untagged", "none"}
  MaxOps = 3
  MaxFaults = 1
  MaxLag = 1
INVARIANTS AtRestMeansReconciled
PROPERTIES FinalizerRemovedLast MarkedIsGone SettlesReconciled
CHECK_DEADLOCK FALSE
