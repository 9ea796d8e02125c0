SPECIFICATION FairSpec
CONSTANTS
  a = a
  b = b
  Users <- MCUsers
  Runs <- MCRuns
  Subject <- MCSubject
  Orgs = {1, 2}
  InitialRole <- MCCoOwned
  MaxAttempts = 2
  Busy = {b}
  Unsure = {1}
INVARIANTS TypeOK FarewellOnce RefusedKeepsFiles
PROPERTY DeletionSettles
CHECK_DEADLOCK FALSE
