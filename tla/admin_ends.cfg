SPECIFICATION FairSpec
CONSTANTS
  a = a
  b = b
  c = c
  g1 = g1
  g2 = g2
  Accounts = {a, c}
  Gestures = {g1, g2}
  Designated = a
  FirstRole = {a}
  Nobody = Nobody
  MaxSessions = 3
  Pool = 2
  Ttl = 2
  MaxLeaving = 0
PROPERTIES GesturesEnd BorrowsEnd
CHECK_DEADLOCK FALSE
