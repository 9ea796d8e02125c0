SPECIFICATION Spec
CONSTANTS
  b1 = b1
  b2 = b2
  MaxSessions = 2
  MaxTime = 1
  Tabs = {b1}
  Workers = 2
  PartlyGiven = {2}
  Unlisted = {1}
  Ops = {"reconcile", "forget", "fail"}
INVARIANTS TypeOK RefundRevokes ReconcileIdempotent ReconcileRepairs PaymentGrants
PROPERTY AccessLostOnlyByRefund
CHECK_DEADLOCK FALSE
