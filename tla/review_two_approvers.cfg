SPECIFICATION Spec
CONSTANTS
  r1 = r1
  r2 = r2
  g1 = g1
  p1 = p1
  p2 = p2
  NoGroup = NoGroup
  NoRequest = NoRequest
  Approvers = {a1, a2}
  Rejecters = {}
  Requests = {r1}
  Groups = {g1}
  Photos = {p1, p2}
  RequestOf <- SoloRequestOf
  GroupOf <- SoloGroupOf
  Faults = {}
INVARIANT FinalObjectKept
