-------------------------- MODULE MCPayoutTransfer --------------------------
(* Small instances of PayoutTransfer for TLC. *)
EXTENDS PayoutTransfer, TLC

CONSTANTS k1, e1, p1, a1, a2, c1, c2, t1, t2

MCCommission == e1 :> 3
MCKiosk      == e1 :> k1

Symmetry == Permutations({c1, c2}) \cup Permutations({t1, t2})
=============================================================================
