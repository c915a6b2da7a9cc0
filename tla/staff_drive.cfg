SPECIFICATION FairSpec
CONSTANTS
  c1 = c1
  c2 = c2
  Calls = {c1, c2}
  LockTtl = 4
  BeatEvery = 1
  MaxMisses = 1
  MaxCalls = 3
  MaxLinks = 1
  None = None
INVARIANTS TypeOK Exclusive DisconnectHolds
PROPERTIES ImplementsEventFolder CallsFinish
CHECK_DEADLOCK FALSE
