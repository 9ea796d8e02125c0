SPECIFICATION Spec
CONSTANTS
  a = a
  b = b
  c = c
  Users <- MCUsers
  Orgs = {1}
  Invs = {i1}
  InitialRole <- MCOneOrg
  Billed = {}
  SeatLimit = 3
  Ops = {"remove", "role", "purge", "delete", "invite", "accept", "expire", "crash"}
INVARIANTS TypeOK OwnerKept
PROPERTY AdminRemovesOnlyMembers
CHECK_DEADLOCK FALSE
