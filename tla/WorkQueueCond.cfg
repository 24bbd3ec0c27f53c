SPECIFICATION FairSpec
CONSTANTS
  Items = {i1, i2, i3}
  Workers = {w1, w2, w3}
INVARIANTS NoWorkerSleepsOnWork HeldByOneWorker NothingLeftBehind CallerSleepsUntilDone
PROPERTIES ImplementsWorkQueue WorkersLeave CallersReturn
CHECK_DEADLOCK FALSE
