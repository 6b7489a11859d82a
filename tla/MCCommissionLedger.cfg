\* Two kiosks, three orders of one of them, three payout ids, two revenue shares.
CONSTANTS
  k1 = k1
  k2 = k2
  e1 = e1
  e2 = e2
  e3 = e3
  p1 = p1
  p2 = p2
  p3 = p3
  a1 = a1
  None = None
  Kiosk <- Kiosks
  Event <- Events
  Payout <- Payouts
  Account = {a1}
  EventKiosk <- MCKiosk
  Commission <- MCCommission
  TestEvent = {}
  SharePct = {30, 50}
  MaxAmount = 12
SPECIFICATION LedgerSpec
SYMMETRY PayoutSymmetry
INVARIANTS TotalsExplained PayableIsConfirmed BalanceConserved
PROPERTIES ClaimFreezes ClaimedRowsStay NeverOverpays
CHECK_DEADLOCK FALSE
