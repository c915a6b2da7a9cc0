SPECIFICATION FairSpec
CONSTANTS
  r1 = r1
  r2 = r2
  g1 = g1
  p1 = p1
  p2 = p2
  NoGroup = NoGroup
  NoRequest = NoRequest
  Approvers = {a1}
  Rejecters = {j1}
  Requests = {r1}
  Groups = {g1}
  Photos = {p1, p2}
  RequestOf <- SoloRequestOf
  GroupOf <- SoloInGroup
  Faults = {"database", "storage", "broker", "crash"}
INVARIANTS IInv FinalObjectKept
PROPERTIES CallsFinish
