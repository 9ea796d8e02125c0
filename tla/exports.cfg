SPECIFICATION FairSpec
CONSTANTS
  r1 = r1
  r2 = r2
  o = o
  w = w
  Requests = {r1, r2}
  Scopes = {o}
  Orgs = {o}
  ScopeOf <- Organization
  Workers = {w}
  Sweeper = Sweeper
  Nobody = Nobody
  Ttl = 1
  MinAge = 0
  MaxClock = 2
  MaxFails = 1
INVARIANTS OnePending LinkLives LinkAfterOutcome
PROPERTIES OutcomeHolds RequestsEnd ArchivesForgotten
CHECK_DEADLOCK FALSE
