SPECIFICATION Spec
CONSTANTS
  c1 = c1
  c2 = c2
  p1 = p1
  p2 = p2
  Reconciler = Reconciler
  Calls = {c1, c2}
  Photos = {p1, p2}
  PassLimit = 2
  Connected = {c1, c2, Reconciler}
  Unreachable = {c1, c2, Reconciler}
SYMMETRY Interchangeable
CHECK_DEADLOCK FALSE
INVARIANTS Inv
PROPERTIES UploadedStaysUploaded
