SPECIFICATION FairSpec
CONSTANTS
  Items = {i1, i2}
  Capacity = 2
  MaxFailures = 2
INVARIANTS TypeOK QueuedIsDirtyAndIdle NoDuplicates DirtyIsScheduled
PROPERTIES ImplementsPendingWork RetryIsMade NoEntryLost
