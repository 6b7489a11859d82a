\* Two checkouts, two handlers at a time.
CONSTANTS
  NoTab = NoTab
  Elsewhere = Elsewhere
  t1 = t1
  t2 = t2
  h1 = h1
  h2 = h2
  Tab = {t1, t2}
  Opener = {h1, h2}
  MaxTries = 2
SPECIFICATION PopupSpec
INVARIANT PendingListSound
