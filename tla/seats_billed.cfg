SPECIFICATION Spec
CONSTANTS
  a = a
  b = b
  c = c
  Users <- MCUsers
  Orgs = {1}
  Invs = {i1, i2}
  InitialRole <- MCFounder
  Billed = {1}
  SeatLimit = 2
  Ops = {"invite", "reissue", "revoke", "accept", "remove", "delete", "reconcile", "forget", "failwrite", "crash"}
SYMMETRY MCSymmetry
INVARIANTS SeatsExact LimitHeld
PROPERTY AdmissionIsAtomic
CHECK_DEADLOCK FALSE
