CONSTANTS
  c1 = c1
  c2 = c2
  Calls = {c1, c2}
  MaxRequests = 2
  MaxCalls = 4
  MaxFaults = 1

SPECIFICATION Spec
SYMMETRY CallSymmetry
CHECK_DEADLOCK FALSE
INVARIANTS Inv CodeStaysGood
PROPERTIES FaceKept
