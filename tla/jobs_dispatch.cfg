SPECIFICATION FairDispatchSpec
CONSTANTS
  d1 = d1
  d2 = d2
  d3 = d3
  k1 = k1
  k2 = k2
  NoDispatch = NoDispatch
  Dispatches <- MCDispatches
  Keys = {k1, k2}
  MaxTries = 2
INVARIANT DispatchTypeOK
PROPERTIES OneRunAtATime DispatchEnds
CHECK_DEADLOCK FALSE
