------------------------- MODULE MCCouponEventQueue -------------------------
(* Small instances of CouponEventQueue for TLC. *)
EXTENDS CouponEventQueue, TLC

CONSTANTS c1, t1, t2

MCCouponOf == (1 :> c1) @@ (2 :> c1)
MCKindOf == (1 :> "valid") @@ (2 :> "failed")
=============================================================================
