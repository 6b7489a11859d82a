\* Two events about one coupon, two device tokens, one of a device that is switched.
CONSTANTS
  None = None
  c1 = c1
  t1 = t1
  t2 = t2
  Event = {1, 2}
  Coupon = {c1}
  Token = {t1, t2}
  Switched = {t1}
  CouponOf <- MCCouponOf
  KindOf <- MCKindOf
SPECIFICATION LiveSpec
INVARIANT NothingDropped
PROPERTIES CountsOnce EventLeaves
