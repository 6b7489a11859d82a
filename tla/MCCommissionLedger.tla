------------------------- MODULE MCCommissionLedger -------------------------
(* Small instances of CommissionLedger for TLC. *)
EXTENDS CommissionLedger, TLC

CONSTANTS k1, k2, e1, e2, e3, p1, p2, p3, a1

Kiosks == {k1, k2}
Events == {e1, e2, e3}
Payouts == {p1, p2, p3}

\* Three orders of one kiosk, the later ones large enough to cover the reversal of the first,
\* one payout after another; the other kiosk has earned nothing, so nothing may reach it.
MCCommission == e1 :> 3 @@ e2 :> 11 @@ e3 :> 7
MCKiosk      == [e \in Events |-> k1]

PayoutSymmetry == Permutations(Payouts)
=============================================================================
