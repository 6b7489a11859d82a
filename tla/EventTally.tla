----------------------------- MODULE EventTally -----------------------------
(***************************************************************************)
(* What reporting coupon events promises: an event a browser has stored is *)
(* counted at most once, whatever is repeated or late, and a coupon's two  *)
(* counters are the numbers of its counted events.                         *)
(***************************************************************************)
EXTENDS Naturals

CONSTANTS
  Event, Coupon,
  CouponOf,  \* the coupon an event is about
  KindOf     \* "valid" and "failed" trials move a counter, "final" savings none

VARIABLES
  counted,  \* events the backend has taken
  success,  \* Coupon.successCount
  fail      \* Coupon.failCount

tallyVars == <<counted, success, fail>>

TallyInit ==
  /\ counted = {}
  /\ success = [c \in Coupon |-> 0]
  /\ fail = [c \in Coupon |-> 0]

Count(e) ==
  /\ e \notin counted
  /\ counted' = counted \cup {e}
  /\ success' = IF KindOf[e] = "valid" THEN [success EXCEPT ![CouponOf[e]] = @ + 1]
                ELSE success
  /\ fail' = IF KindOf[e] = "failed" THEN [fail EXCEPT ![CouponOf[e]] = @ + 1] ELSE fail

TallyNext == \E e \in Event : Count(e)

TallySpec == TallyInit /\ [][TallyNext]_tallyVars
=============================================================================
