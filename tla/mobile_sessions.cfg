SPECIFICATION FairSpec
CONSTANTS
  c1 = c1
  c2 = c2
  d1 = d1
  d2 = d2
  Calls = {c1, c2}
  Devices = {d1, d2}
  Limit = 1
  MaxCalls = 4
CHECK_DEADLOCK FALSE
INVARIANTS TypeOK BlockedHasNoSession CapKept RotatedOnce
PROPERTIES CallsFinish
