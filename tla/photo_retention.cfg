SPECIFICATION RetentionFairSpec
CONSTANTS
  p1 = p1
  p2 = p2
  w1 = w1
  w2 = w2
  Photos = {p1, p2}
  Direct = {p1}
  SyncWorkers = {w1}
  PassLimit = 1
  Faults = {"broker", "crash"}
  MaxFaults = 2
INVARIANTS RetentionTypeOK LastCopyKept
PROPERTIES DueIsScheduled EndedIsArchived
CHECK_DEADLOCK FALSE
