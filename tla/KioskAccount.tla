---------------------------- MODULE KioskAccount ----------------------------
(***************************************************************************)
(* What the ledger promises, without saying how: per kiosk, an amount      *)
(* earned and an amount committed to transfers.  A payment is committed    *)
(* only out of earnings that exist and are not committed yet; a network    *)
(* may revoke earnings at any time, also after they were paid, and then    *)
(* nothing more is paid until later earnings have covered the debt.        *)
(***************************************************************************)
EXTENDS Integers

CONSTANT Kiosk

VARIABLES earned, paid

Init ==
  /\ earned = [k \in Kiosk |-> 0]
  /\ paid = [k \in Kiosk |-> 0]

\* The network reports, changes or revokes earnings.
Revalue(k) == paid'[k] = paid[k]

Pay(k) == paid'[k] > paid[k] /\ paid'[k] <= earned[k] /\ earned'[k] = earned[k]

Others(k) == \A j \in Kiosk \ {k} : paid'[j] = paid[j] /\ earned'[j] = earned[j]

Next ==
  /\ DOMAIN earned' = Kiosk /\ DOMAIN paid' = Kiosk
  /\ \E k \in Kiosk : Others(k) /\ (Revalue(k) \/ Pay(k))

Spec == Init /\ [][Next]_<<earned, paid>>
=============================================================================
