SPECIFICATION FairSpec
CONSTANTS
  d1 = d1
  d2 = d2
  Devices = {d1, d2}
  Concurrency = 2
  MaxAttempts = 2
  MaxNotes = 1
  MaxTokens = 2
  MaxFaults = 1
  None = None
INVARIANTS TypeOK LiveTokenKept ServedOnce
PROPERTIES NotesSettle
CHECK_DEADLOCK FALSE
