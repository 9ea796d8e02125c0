SPECIFICATION FairSpec
CONSTANTS
  k1 = k1
  k2 = k2
  a = a
  b = b
  h1 = h1
  h2 = h2
  h3 = h3
  None = None
  Checkouts = {k1, k2}
  Emails = {a, b}
  Handlers = {h1, h2}
  MaxPaid = 2
  MaxFails = 1
INVARIANTS PaidIsAttached LinkOnce
PROPERTIES PromotionHolds PaymentsTaken
