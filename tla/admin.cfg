SPECIFICATION Spec
CONSTANTS
  a = a
  b = b
  c = c
  g1 = g1
  g2 = g2
  Accounts = {a, b, c}
  Gestures = {g1, g2}
  Designated = a
  FirstRole <- Two
  Nobody = Nobody
  MaxSessions = 4
  Pool = 2
  Ttl = 2
  MaxLeaving = 1
INVARIANT AccessFollowsState
PROPERTY LastSuperadminKept
SYMMETRY GestureSymmetry
CHECK_DEADLOCK FALSE
