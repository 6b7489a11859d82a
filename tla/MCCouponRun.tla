---------------------------- MODULE MCCouponRun ----------------------------
(* Small instances of CouponRun for TLC. *)
EXTENDS CouponRun

TwoCodes == <<"A", "B">>
=============================================================================
