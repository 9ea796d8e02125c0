SPECIFICATION Spec
CONSTANTS
  u1 = u1
  u2 = u2
  u3 = u3
  q1 = q1
  q2 = q2
  q3 = q3
  None = None
  Uploads = {u1, u2}
  Requests = {q1, q2, q3}
  MaxPuts = 3
  MaxFails = 1
INVARIANTS ServedIsChecked AvatarHasObject NoOrphan
SYMMETRY AvatarSymmetry
CHECK_DEADLOCK FALSE
