\* One payout, two concurrent calls, room for a second transfer; the hour scale is
\* shrunk to a window of 2, a key life of 3 and a request delay of 1.
CONSTANTS
  k1 = k1
  e1 = e1
  p1 = p1
  a1 = a1
  a2 = a2
  c1 = c1
  c2 = c2
  t1 = t1
  t2 = t2
  None = None
  Kiosk = {k1}
  Event = {e1}
  Payout = {p1}
  Account = {a1, a2}
  EventKiosk <- MCKiosk
  Commission <- MCCommission
  TestEvent = {}
  SharePct = {50}
  MaxAmount = 9
  Call = {c1, c2}
  Transfer = {t1, t2}
  RetryWindow = 2
  KeyLife = 3
  CallDelay = 1
  MaxTime = 4
  StripeReliable = FALSE
SPECIFICATION Spec
SYMMETRY Symmetry
INVARIANTS AtMostOneTransfer TransferMatchesPayout SavedIsSettled NotifiedOnce
CHECK_DEADLOCK FALSE
