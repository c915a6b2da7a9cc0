SPECIFICATION Spec
CONSTANTS
  r1 = r1
  r2 = r2
  g1 = g1
  p1 = p1
  p2 = p2
  p3 = p3
  p4 = p4
  c1 = c1
  c2 = c2
  c3 = c3
  NoGroup = NoGroup
  NoRequest = NoRequest
  NoPhoto = NoPhoto
  Confirmers = {c1, c2, c3}
  Requests = {r1, r2}
  Groups = {g1}
  Photos = {p1, p2, p3, p4}
  RequestOf <- MCRequestOf
  GroupOf <- MCGroupOf
  Faults = {"database", "broker"}
SYMMETRY ConfirmSymmetry
CHECK_DEADLOCK FALSE
INVARIANTS Inv CopyRemains AutoApproved
