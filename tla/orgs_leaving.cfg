SPECIFICATION FairSpec
CONSTANTS
  a = a
  b = b
  c = c
  Users <- MCPair
  Orgs = {1, 2, 3}
  Invs = {}
  InitialRole <- MCLeaving
  Billed = {}
  SeatLimit = 3
  Ops = {"create", "purge", "remove"}
PROPERTY RequestsEnd
CHECK_DEADLOCK FALSE
