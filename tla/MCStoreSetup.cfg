\* Two stores, two codes, two installs, two drafts, two requests at a time.
CONSTANTS
  s1 = s1
  s2 = s2
  t1 = t1
  t2 = t2
  d1 = d1
  d2 = d2
  r1 = r1
  r2 = r2
  None = None
  m1 = m1
  m2 = m2
  Merchant = {m1, m2}
  Admin = {a1}
  Session = {s1, s2}
  Token = {t1, t2}
  Draft = {d1, d2}
  Request = {r1, r2}
  CodeLife = 1
  SessionLife = 2
  MaxTime = 2
SPECIFICATION Spec
SYMMETRY Symmetry
INVARIANTS OneLivePerStore LiveRecipeWasSaved
PROPERTIES SavedWasReviewed EndedIsFinal OneInstallPerCode
CHECK_DEADLOCK FALSE
