SPECIFICATION FairSpec
CONSTANTS
  u1 = u1
  u2 = u2
  d1 = d1
  d2 = d2
  c1 = c1
  c2 = c2
  Expirer = Expirer
  Users = {u1, u2}
  Deliveries = {d1, d2}
  Calls = {c1, c2}
  Faults = {"broker", "crash"}
CHECK_DEADLOCK FALSE
INVARIANTS Inv
PROPERTIES DecisionIsTheUsers WaitingEnds
