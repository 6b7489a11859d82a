\* One store, two codes, an install with two secrets and one call at a time, and a
\* second install with a secret of its own.
CONSTANTS
  s1 = s1
  s2 = s2
  t1 = t1
  t2 = t2
  t3 = t3
  None = None
  Merchant = {m1}
  Admin = {a1}
  Session = {s1, s2}
  Token = {t1, t2, t3}
  OtherToken = {t3}
  Draft = {d1}
  Request = {r1}
  CodeLife = 1
  SessionLife = 1
  MaxTime = 1
SPECIFICATION ExtensionSpec
SYMMETRY Symmetry
INVARIANTS AnswerIsOwn SecretStaysGood
PROPERTY ReplacedIsEnded
CHECK_DEADLOCK FALSE
