SPECIFICATION ImportFairSpec
CONSTANTS
  w1 = w1
  w2 = w2
  p1 = p1
  p2 = p2
  p3 = p3
  Workers = {w1, w2}
  Images = {p1, p2, p3}
  BatchOf <- MCBatchOf
  BatchCount = 2
  Faults = {"drive", "integrity", "database", "crash", "broker", "store"}
  MaxFaults = 2
CHECK_DEADLOCK FALSE
INVARIANTS ImportTypeOK CompletedIsWhole FailureCleansUp
PROPERTIES ImportEnds
