\* Liveness: Stripe answers truthfully and redelivers webhooks; calls still race and
\* die. One transfer (the safety run shows there is never a second).
CONSTANTS
  k1 = k1
  e1 = e1
  p1 = p1
  a1 = a1
  a2 = a2
  c1 = c1
  c2 = c2
  t1 = t1
  t2 = t2
  None = None
  Kiosk = {k1}
  Event = {e1}
  Payout = {p1}
  Account = {a1}
  EventKiosk <- MCKiosk
  Commission <- MCCommission
  TestEvent = {}
  SharePct = {50}
  MaxAmount = 9
  Call = {c1, c2}
  Transfer = {t1}
  RetryWindow = 1
  KeyLife = 2
  CallDelay = 1
  MaxTime = 1
  StripeReliable = TRUE
SPECIFICATION FairSpec
PROPERTIES TransferRecorded ReversalRecorded
CHECK_DEADLOCK FALSE
