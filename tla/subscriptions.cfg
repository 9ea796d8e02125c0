SPECIFICATION FairSpec
CONSTANTS
  s1 = s1
  h1 = h1
  Subs = {s1}
  Handlers = {h1}
  Absent = Absent
  MaxClock = 2
  MaxEvents = 4
  Skew = 1
INVARIANT CacheMatches
PROPERTIES CancellationHolds CacheRepaired
CHECK_DEADLOCK FALSE
