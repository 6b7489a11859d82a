----------------------- MODULE CommissionLedgerProofs -----------------------
(***************************************************************************)
(* Proofs about CommissionLedger for every set of kiosks, finite sets of   *)
(* orders and payouts, and every commission.                               *)
(*                                                                         *)
(* The first part goes by rows: which rows a transaction touches, and what *)
(* it may do to one.  The second part is about sums, which a transaction   *)
(* computes with the query's own selection of rows; each is rewritten as a *)
(* sum over ALL orders or payouts, where a row that does not count adds 0, *)
(* so that a step changes a sum by what it changes in the rows it touches. *)
(***************************************************************************)
EXTENDS CommissionLedger, Folds, FiniteSetTheorems, WellFoundedInduction, TLAPS

(* Rows *)

\* A payout that was generated belongs to a kiosk.
PayoutHasKiosk == \A p \in Payout : payout[p].status # "absent" => payout[p].kiosk \in Kiosk

\* An order is only ever attached to a payout that was generated.
AttachedToPayout ==
  \A e \in Event : event[e].payout # None => payout[event[e].payout].status # "absent"

LedgerInv == TypeOK /\ PayoutHasKiosk /\ AttachedToPayout /\ PayableIsConfirmed

-----------------------------------------------------------------------------

\* TypeOK holds initially.
LEMMA InitTypeOK == LedgerInit => TypeOK
<1> SUFFICES ASSUME LedgerInit PROVE TypeOK
  OBVIOUS
<1>1. 0 \in Amount
  BY LedgerAssumption DEF Amount
<1>2. kiosk \in [Kiosk -> [pct : SharePct, stripe : Account \cup {None}]]
  BY DEF LedgerInit
<1>3. event \in [Event -> EventRow]
  BY <1>1 DEF LedgerInit, EventRow, EventStatus
<1>4. adjustment \in [Event -> AdjustmentRow]
  BY <1>1 DEF LedgerInit, AdjustmentRow
<1>5. payout \in [Payout -> PayoutRow]
  BY <1>1 DEF LedgerInit, PayoutRow, PayoutStatus
<1> QED
  BY <1>2, <1>3, <1>4, <1>5 DEF TypeOK

\* Giving rows back keeps the tables well typed.
LEMMA ReleaseType ==
  ASSUME TypeOK, NEW p \in Payout
  PROVE  /\ ReleasedEvents(p) \in [Event -> EventRow]
         /\ ReleasedAdjustments(p) \in [Event -> AdjustmentRow]
         /\ ClosedEmpty(p) \in [Payout -> PayoutRow]
<1>1. 0 \in Amount
  BY LedgerAssumption DEF Amount
<1>2. ReleasedEvents(p) \in [Event -> EventRow]
  BY DEF TypeOK, ReleasedEvents, EventRow
<1>3. ReleasedAdjustments(p) \in [Event -> AdjustmentRow]
  BY DEF TypeOK, ReleasedAdjustments, AdjustmentRow
<1>4. ClosedEmpty(p) \in [Payout -> PayoutRow]
  BY <1>1 DEF TypeOK, ClosedEmpty, PayoutRow, PayoutStatus
<1> QED
  BY <1>2, <1>3, <1>4

\* Every transaction keeps the tables well typed: in particular every amount it
\* writes is one the column can hold.
LEMMA NextTypeOK == TypeOK /\ PayoutHasKiosk /\ [LedgerNext]_ledgerVars => TypeOK'
<1> SUFFICES ASSUME TypeOK, PayoutHasKiosk, [LedgerNext]_ledgerVars PROVE TypeOK'
  OBVIOUS
<1> USE DEF TypeOK
<1>0. 0 \in Amount /\ \A x \in Amount : x > 0 => -x \in Amount
  BY LedgerAssumption DEF Amount
<1>1. ASSUME NEW k \in Kiosk, NEW pct \in SharePct, UpdateSharePct(k, pct)
      PROVE TypeOK'
  BY <1>1 DEF UpdateSharePct
<1>2. ASSUME NEW k \in Kiosk, NEW a \in Account, ConnectStripe(k, a)
      PROVE TypeOK'
  BY <1>2 DEF ConnectStripe
<1>3. ASSUME NEW e \in Event, NEW s \in {"PENDING", "CONFIRMED", "REVERSED"},
             CreateCommissionEvent(e, s)
      PROVE TypeOK'
  <2> DEFINE row == [status |-> s, payout |-> None,
                     share |-> IF s = "CONFIRMED" THEN KioskShare(e) ELSE 0]
  <2>1. row \in EventRow /\ event' = [event EXCEPT ![e] = row]
    BY <1>3 DEF CreateCommissionEvent, EventRow, EventStatus
  <2>2. UNCHANGED <<kiosk, adjustment, payout>>
    BY <1>3 DEF CreateCommissionEvent
  <2> HIDE DEF row
  <2> QED
    BY <2>1, <2>2
<1>4. ASSUME NEW e \in Event, ReconcileConfirmed(e)
      PROVE TypeOK'
  <2> DEFINE row == [event[e] EXCEPT !.status = "CONFIRMED", !.share = KioskShare(e)]
  <2>0. KioskShare(e) \in Amount /\ event[e] \in EventRow
    BY <1>4 DEF ReconcileConfirmed
  <2>1. row \in EventRow
    BY <2>0 DEF EventRow, EventStatus
  <2>2. event' = [event EXCEPT ![e] = row] /\ UNCHANGED <<kiosk, adjustment, payout>>
    BY <1>4 DEF ReconcileConfirmed
  <2> HIDE DEF row
  <2> QED
    BY <2>1, <2>2
<1>5. ASSUME NEW e \in Event, ReconcileReversedUnswept(e)
      PROVE TypeOK'
  <2> DEFINE row == [event[e] EXCEPT !.status = "REVERSED", !.share = 0]
  <2>0. event[e] \in EventRow
    OBVIOUS
  <2>1. row \in EventRow
    BY <1>0, <2>0 DEF EventRow, EventStatus
  <2>2. event' = [event EXCEPT ![e] = row] /\ UNCHANGED <<kiosk, adjustment, payout>>
    BY <1>5 DEF ReconcileReversedUnswept
  <2> HIDE DEF row
  <2> QED
    BY <2>1, <2>2
<1>6. ASSUME NEW e \in Event, ReconcileReversedPending(e)
      PROVE TypeOK'
  <2> DEFINE p == event[e].payout
             gone == [status |-> "REVERSED", share |-> 0, payout |-> None]
  <2>1. p \in Payout /\ gone \in EventRow
    BY <1>0, <1>6 DEF ReconcileReversedPending, EventRow, EventStatus
  <2>2. event' \in [Event -> EventRow]
    BY <1>6, <2>1, ReleaseType DEF ReconcileReversedPending
  <2>3. payout' \in [Payout -> PayoutRow]
    <3> DEFINE reduced == payout[p].total - event[e].share
    <3>1. reduced \in Amount
      BY <1>6 DEF ReconcileReversedPending
    <3>2. [payout EXCEPT ![p].total = reduced] \in [Payout -> PayoutRow]
      BY <2>1, <3>1 DEF PayoutRow
    <3>3. ClosedEmpty(p) \in [Payout -> PayoutRow]
      BY <2>1, ReleaseType
    <3>4. payout' = [payout EXCEPT ![p].total = reduced] \/ payout' = ClosedEmpty(p)
      BY <1>6 DEF ReconcileReversedPending
    <3> QED
      BY <3>2, <3>3, <3>4
  <2>4. adjustment' \in [Event -> AdjustmentRow]
    BY <1>6, <2>1, ReleaseType DEF ReconcileReversedPending
  <2>5. kiosk' = kiosk
    BY <1>6 DEF ReconcileReversedPending
  <2> QED
    BY <2>2, <2>3, <2>4, <2>5
<1>7. ASSUME NEW e \in Event, ReconcileReversedClaimed(e)
      PROVE TypeOK'
  <2>1. event' \in [Event -> EventRow]
    BY <1>0, <1>7 DEF ReconcileReversedClaimed, EventRow, EventStatus
  <2>2. CASE adjustment' = adjustment
    BY <1>7, <2>1, <2>2 DEF ReconcileReversedClaimed
  <2>3. CASE /\ event[e].share > 0
             /\ adjustment' = [adjustment EXCEPT ![e] =
                   [exists |-> TRUE, amount |-> -event[e].share, payout |-> None]]
    <3>1. -event[e].share \in Amount
      BY <1>0, <2>3 DEF EventRow
    <3>2. adjustment' \in [Event -> AdjustmentRow]
      BY <2>3, <3>1 DEF AdjustmentRow
    <3> QED
      BY <1>7, <2>1, <3>2 DEF ReconcileReversedClaimed
  <2> QED
    BY <1>7, <2>2, <2>3 DEF ReconcileReversedClaimed
<1>8. ASSUME NEW k \in Kiosk, NEW p \in Payout, GeneratePayout(k, p)
      PROVE TypeOK'
  <2>1. payout' \in [Payout -> PayoutRow]
    <3> DEFINE total == SumShares(Sweepable(k)) + SumAdjustments(OpenAdjustments(k))
               row == [status |-> "PENDING", kiosk |-> k, total |-> total,
                       destination |-> None]
    <3>1. total \in Amount /\ payout' = [payout EXCEPT ![p] = row]
      BY <1>8 DEF GeneratePayout
    <3> HIDE DEF total
    <3>2. row \in PayoutRow
      BY <3>1 DEF PayoutRow, PayoutStatus
    <3> HIDE DEF row
    <3> QED
      BY <3>1, <3>2
  <2>2. event' \in [Event -> EventRow]
    BY <1>8 DEF GeneratePayout, EventRow
  <2>3. adjustment' \in [Event -> AdjustmentRow]
    BY <1>8 DEF GeneratePayout, AdjustmentRow
  <2> QED
    BY <1>8, <2>1, <2>2, <2>3 DEF GeneratePayout
<1>9. ASSUME NEW p \in Payout, CarryForwardPayout(p)
      PROVE TypeOK'
  BY <1>9, ReleaseType DEF CarryForwardPayout
<1>10. ASSUME NEW p \in Payout, ClaimPayout(p)
       PROVE TypeOK'
  <2>1. payout[p].kiosk \in Kiosk
    BY <1>10 DEF ClaimPayout, Claimable, PayoutHasKiosk
  <2>2. payout' \in [Payout -> PayoutRow]
    <3> DEFINE total == ClaimTotal(p)
               account == kiosk[payout[p].kiosk].stripe
    <3>1. total \in Amount /\ account \in Account \cup {None}
      BY <1>10, <2>1 DEF ClaimPayout
    <3>2. payout' = [payout EXCEPT ![p].status = "PROCESSING", ![p].total = total,
                                   ![p].destination = account]
      BY <1>10 DEF ClaimPayout
    <3> HIDE DEF total, account
    <3>3. [payout[p] EXCEPT !.status = "PROCESSING", !.total = total,
                            !.destination = account] \in PayoutRow
      BY <3>1 DEF PayoutRow, PayoutStatus
    <3> QED
      BY <3>2, <3>3
  <2>3. adjustment' \in [Event -> AdjustmentRow]
    BY <1>10 DEF ClaimPayout, AdjustmentRow
  <2> QED
    BY <1>10, <2>2, <2>3 DEF ClaimPayout
<1>11. ASSUME NEW p \in Payout, NEW reversed \in BOOLEAN, SettlePayout(p, reversed)
       PROVE TypeOK'
  BY <1>11 DEF SettlePayout, PayoutRow, PayoutStatus
<1>12. CASE UNCHANGED ledgerVars
  BY <1>12 DEF ledgerVars
<1> QED
  BY <1>1, <1>2, <1>3, <1>4, <1>5, <1>6, <1>7, <1>8, <1>9, <1>10, <1>11, <1>12
     DEF LedgerNext, Bookkeeping, ReconcileReversed

-----------------------------------------------------------------------------

\* Where an order can be attached after a transaction: where it was, nowhere, or to
\* a payout that is generated by this very step out of the kiosk's sweepable orders.
LEMMA AttachmentSteps ==
  ASSUME TypeOK, [LedgerNext]_ledgerVars, NEW e \in Event
  PROVE  \/ event'[e].payout = event[e].payout
         \/ event'[e].payout = None
         \/ \E k \in Kiosk, p \in Payout :
              /\ GeneratePayout(k, p)
              /\ e \in Sweepable(k)
              /\ event'[e] = [event[e] EXCEPT !.payout = p]
<1> USE DEF TypeOK
<1>1. ASSUME NEW k \in Kiosk, NEW p \in Payout, GeneratePayout(k, p)
      PROVE \/ event'[e].payout = event[e].payout
            \/ /\ e \in Sweepable(k)
               /\ event'[e] = [event[e] EXCEPT !.payout = p]
  BY <1>1 DEF GeneratePayout
<1>2. ASSUME NEW f \in Event, ReconcileReversedPending(f)
      PROVE event'[e].payout \in {event[e].payout, None}
  <2> DEFINE gone == [status |-> "REVERSED", share |-> 0, payout |-> None]
  <2>1. CASE event' = [event EXCEPT ![f] = gone]
    BY <2>1
  <2>2. CASE event' = [ReleasedEvents(event[f].payout) EXCEPT ![f] = gone]
    BY <2>2 DEF ReleasedEvents, EventRow
  <2> QED
    BY <1>2, <2>1, <2>2 DEF ReconcileReversedPending
<1>3. ASSUME NEW p \in Payout, CarryForwardPayout(p)
      PROVE event'[e].payout \in {event[e].payout, None}
  BY <1>3 DEF CarryForwardPayout, ReleasedEvents, EventRow
<1>4. ASSUME NEW f \in Event,
             \/ \E s \in {"PENDING", "CONFIRMED", "REVERSED"} :
                  CreateCommissionEvent(f, s)
             \/ ReconcileConfirmed(f)
             \/ ReconcileReversedUnswept(f)
             \/ ReconcileReversedClaimed(f)
      PROVE event'[e].payout \in {event[e].payout, None}
  BY <1>4 DEF CreateCommissionEvent, ReconcileConfirmed, ReconcileReversedUnswept,
              ReconcileReversedClaimed, EventRow
<1>5. ASSUME \/ \E k \in Kiosk, pct \in SharePct : UpdateSharePct(k, pct)
             \/ \E k \in Kiosk, a \in Account : ConnectStripe(k, a)
             \/ \E p \in Payout : ClaimPayout(p)
             \/ \E p \in Payout, reversed \in BOOLEAN : SettlePayout(p, reversed)
             \/ UNCHANGED ledgerVars
      PROVE event' = event
  BY <1>5 DEF UpdateSharePct, ConnectStripe, ClaimPayout, SettlePayout, ledgerVars
<1> QED
  BY <1>1, <1>2, <1>3, <1>4, <1>5 DEF LedgerNext, Bookkeeping, ReconcileReversed

\* What a transaction does to a payout row: nothing, generate it, shrink or close an
\* unclaimed one, claim an unclaimed one, or settle a claimed one.
LEMMA PayoutSteps ==
  ASSUME TypeOK, [LedgerNext]_ledgerVars, NEW p \in Payout
  PROVE  \/ payout'[p] = payout[p]
         \/ \E k \in Kiosk : GeneratePayout(k, p) /\ payout'[p].kiosk = k
                               /\ payout'[p].status = "PENDING"
         \/ /\ payout[p].status = "PENDING"
            /\ payout'[p].status \in {"PENDING", "PROCESSING", "FAILED"}
            /\ payout'[p].kiosk = payout[p].kiosk
         \/ /\ <<payout[p].status, payout'[p].status>> \in
                 {<<"PROCESSING", "PAID">>, <<"PROCESSING", "FAILED">>,
                  <<"PAID", "FAILED">>}
            /\ payout'[p] = [payout[p] EXCEPT !.status = payout'[p].status]
<1> USE DEF TypeOK
<1>1. ASSUME NEW k \in Kiosk, NEW q \in Payout, GeneratePayout(k, q)
      PROVE \/ payout'[p] = payout[p]
            \/ p = q /\ payout'[p].kiosk = k /\ payout'[p].status = "PENDING"
  BY <1>1 DEF GeneratePayout
<1>2. ASSUME NEW f \in Event, ReconcileReversedPending(f)
      PROVE \/ payout'[p] = payout[p]
            \/ /\ payout[p].status = "PENDING"
               /\ payout'[p].status \in {"PENDING", "FAILED"}
               /\ payout'[p].kiosk = payout[p].kiosk
  <2> DEFINE q == event[f].payout
             reduced == payout[q].total - event[f].share
  <2>1. payout[q].status = "PENDING"
    BY <1>2 DEF ReconcileReversedPending
  <2>2. \/ payout' = [payout EXCEPT ![q].total = reduced]
        \/ payout' = ClosedEmpty(q)
    BY <1>2 DEF ReconcileReversedPending
  <2> HIDE DEF reduced
  <2> QED
    BY <2>1, <2>2 DEF ClosedEmpty, PayoutRow
<1>3. ASSUME NEW q \in Payout, CarryForwardPayout(q)
      PROVE \/ payout'[p] = payout[p]
            \/ /\ payout[p].status = "PENDING"
               /\ payout'[p].status = "FAILED"
               /\ payout'[p].kiosk = payout[p].kiosk
  BY <1>3 DEF CarryForwardPayout, Claimable, ClosedEmpty, PayoutRow
<1>4. ASSUME NEW q \in Payout, ClaimPayout(q)
      PROVE \/ payout'[p] = payout[p]
            \/ /\ payout[p].status = "PENDING"
               /\ payout'[p].status = "PROCESSING"
               /\ payout'[p].kiosk = payout[p].kiosk
  BY <1>4 DEF ClaimPayout, Claimable, PayoutRow
<1>5. ASSUME NEW q \in Payout, NEW reversed \in BOOLEAN, SettlePayout(q, reversed)
      PROVE \/ payout'[p] = payout[p]
            \/ /\ <<payout[p].status, payout'[p].status>> \in
                    {<<"PROCESSING", "PAID">>, <<"PROCESSING", "FAILED">>,
                     <<"PAID", "FAILED">>}
               /\ payout'[p] = [payout[p] EXCEPT !.status = payout'[p].status]
  BY <1>5 DEF SettlePayout, PayoutRow
<1>6. ASSUME \/ \E k \in Kiosk, pct \in SharePct : UpdateSharePct(k, pct)
             \/ \E k \in Kiosk, a \in Account : ConnectStripe(k, a)
             \/ \E f \in Event :
                  \/ \E s \in {"PENDING", "CONFIRMED", "REVERSED"} :
                       CreateCommissionEvent(f, s)
                  \/ ReconcileConfirmed(f)
                  \/ ReconcileReversedUnswept(f)
                  \/ ReconcileReversedClaimed(f)
             \/ UNCHANGED ledgerVars
      PROVE payout' = payout
  BY <1>6 DEF UpdateSharePct, ConnectStripe, CreateCommissionEvent, ReconcileConfirmed,
              ReconcileReversedUnswept, ReconcileReversedClaimed, ledgerVars
<1> QED
  BY <1>1, <1>2, <1>3, <1>4, <1>5, <1>6 DEF LedgerNext, Bookkeeping, ReconcileReversed

-----------------------------------------------------------------------------

LEMMA NextPayoutHasKiosk ==
  TypeOK /\ PayoutHasKiosk /\ [LedgerNext]_ledgerVars => PayoutHasKiosk'
<1> SUFFICES ASSUME TypeOK, PayoutHasKiosk, [LedgerNext]_ledgerVars,
                    NEW p \in Payout, payout'[p].status # "absent"
             PROVE  payout'[p].kiosk \in Kiosk
  BY DEF PayoutHasKiosk
<1> QED
  BY PayoutSteps DEF PayoutHasKiosk, TypeOK, PayoutRow

LEMMA NextAttachedToPayout ==
  LedgerInv /\ [LedgerNext]_ledgerVars => AttachedToPayout'
<1> SUFFICES ASSUME LedgerInv, [LedgerNext]_ledgerVars,
                    NEW e \in Event, event'[e].payout # None
             PROVE  payout'[event'[e].payout].status # "absent"
  BY DEF AttachedToPayout
<1> USE DEF LedgerInv
<1>1. CASE event'[e].payout = event[e].payout
  <2> DEFINE p == event[e].payout
  <2>1. p \in Payout /\ payout[p].status # "absent"
    BY <1>1 DEF AttachedToPayout, TypeOK, EventRow
  <2>2. payout'[p].status # "absent"
    BY <2>1, PayoutSteps
  <2> QED
    BY <1>1, <2>2
<1>2. ASSUME NEW k \in Kiosk, NEW p \in Payout, GeneratePayout(k, p),
             event'[e] = [event[e] EXCEPT !.payout = p]
      PROVE payout'[event'[e].payout].status # "absent"
  <2>1. event'[e].payout = p
    BY <1>2 DEF TypeOK, EventRow
  <2>2. payout'[p].status = "PENDING"
    BY <1>2 DEF GeneratePayout, TypeOK
  <2> QED
    BY <2>1, <2>2
<1> QED
  BY <1>1, <1>2, AttachmentSteps

\* Status and share of an order attached to a payout: reversal of an attached order
\* either detaches it or finds its payout claimed.
LEMMA StatusSteps ==
  ASSUME LedgerInv, [LedgerNext]_ledgerVars, NEW e \in Event,
         event'[e].payout # None, event'[e].payout = event[e].payout
  PROVE  \/ event'[e].status = event[e].status
         \/ /\ event'[e].status = "REVERSED"
            /\ payout[event[e].payout].status \in Claimed
<1> USE DEF LedgerInv, TypeOK
<1>0. /\ event[e].payout \in Payout
      /\ event[e].status \in {"CONFIRMED", "REVERSED"}
  BY DEF EventRow, PayableIsConfirmed
<1>1. ASSUME NEW f \in Event,
             \/ \E s \in {"PENDING", "CONFIRMED", "REVERSED"} :
                  CreateCommissionEvent(f, s)
             \/ ReconcileConfirmed(f)
      PROVE event'[e] = event[e]
  BY <1>0, <1>1 DEF CreateCommissionEvent, ReconcileConfirmed
<1>2. ASSUME NEW f \in Event, ReconcileReversedUnswept(f)
      PROVE event'[e] = event[e]
  BY <1>0, <1>2 DEF ReconcileReversedUnswept
<1>3. ASSUME NEW f \in Event, ReconcileReversedPending(f)
      PROVE event'[e].status = event[e].status
  <2> DEFINE gone == [status |-> "REVERSED", share |-> 0, payout |-> None]
  <2>1. CASE event' = [event EXCEPT ![f] = gone]
    BY <2>1
  <2>2. CASE event' = [ReleasedEvents(event[f].payout) EXCEPT ![f] = gone]
    BY <2>2 DEF ReleasedEvents, EventRow
  <2> QED
    BY <1>3, <2>1, <2>2 DEF ReconcileReversedPending
<1>4. ASSUME NEW f \in Event, ReconcileReversedClaimed(f)
      PROVE \/ event'[e].status = event[e].status
            \/ /\ event'[e].status = "REVERSED"
               /\ payout[event[e].payout].status \in Claimed
  BY <1>4 DEF ReconcileReversedClaimed, EventRow
<1>5. ASSUME NEW k \in Kiosk, NEW p \in Payout, GeneratePayout(k, p)
      PROVE event'[e].status = event[e].status
  BY <1>5 DEF GeneratePayout, EventRow
<1>6. ASSUME NEW p \in Payout, CarryForwardPayout(p)
      PROVE event'[e].status = event[e].status
  BY <1>6 DEF CarryForwardPayout, ReleasedEvents, EventRow
<1>7. ASSUME \/ \E k \in Kiosk, pct \in SharePct : UpdateSharePct(k, pct)
             \/ \E k \in Kiosk, a \in Account : ConnectStripe(k, a)
             \/ \E p \in Payout : ClaimPayout(p)
             \/ \E p \in Payout, reversed \in BOOLEAN : SettlePayout(p, reversed)
             \/ UNCHANGED ledgerVars
      PROVE event' = event
  BY <1>7 DEF UpdateSharePct, ConnectStripe, ClaimPayout, SettlePayout, ledgerVars
<1> QED
  BY <1>1, <1>2, <1>3, <1>4, <1>5, <1>6, <1>7
     DEF LedgerNext, Bookkeeping, ReconcileReversed

LEMMA NextPayable == LedgerInv /\ [LedgerNext]_ledgerVars => PayableIsConfirmed'
<1> SUFFICES ASSUME LedgerInv, [LedgerNext]_ledgerVars,
                    NEW e \in Event, event'[e].payout # None
             PROVE  /\ e \notin TestEvent
                    /\ payout'[event'[e].payout].kiosk = EventKiosk[e]
                    /\ \/ event'[e].status = "CONFIRMED"
                       \/ /\ event'[e].status = "REVERSED"
                          /\ payout'[event'[e].payout].status \in Claimed
  BY DEF PayableIsConfirmed
<1>1. CASE event'[e].payout = event[e].payout
  <2> DEFINE p == event[e].payout
  <2>1. /\ p \in Payout
        /\ payout[p].status # "absent"
        /\ e \notin TestEvent
        /\ payout[p].kiosk = EventKiosk[e]
        /\ \/ event[e].status = "CONFIRMED"
           \/ event[e].status = "REVERSED" /\ payout[p].status \in Claimed
    BY <1>1 DEF LedgerInv, AttachedToPayout, PayableIsConfirmed, TypeOK, EventRow
  <2>2. payout'[p].kiosk = payout[p].kiosk
    BY <2>1, PayoutSteps DEF LedgerInv, TypeOK, PayoutRow, GeneratePayout
  <2>3. payout[p].status \in Claimed => payout'[p].status \in Claimed
    BY <2>1, PayoutSteps DEF LedgerInv, Claimed, GeneratePayout
  <2>4. \/ event'[e].status = event[e].status
        \/ event'[e].status = "REVERSED" /\ payout[p].status \in Claimed
    BY <1>1, StatusSteps
  <2> QED
    BY <1>1, <2>1, <2>2, <2>3, <2>4
<1>2. ASSUME NEW k \in Kiosk, NEW p \in Payout, GeneratePayout(k, p),
             e \in Sweepable(k), event'[e] = [event[e] EXCEPT !.payout = p]
      PROVE  /\ e \notin TestEvent
             /\ payout'[event'[e].payout].kiosk = EventKiosk[e]
             /\ event'[e].status = "CONFIRMED"
  <2>1. event'[e].payout = p /\ event'[e].status = "CONFIRMED" /\ EventKiosk[e] = k
    BY <1>2 DEF Sweepable, LedgerInv, TypeOK, EventRow
  <2>2. payout'[p].kiosk = k
    BY <1>2 DEF GeneratePayout, LedgerInv, TypeOK
  <2>3. e \notin TestEvent
    BY <1>2 DEF Sweepable
  <2> QED
    BY <2>1, <2>2, <2>3
<1> QED
  BY <1>1, <1>2, AttachmentSteps DEF LedgerInv

\* The inductive invariant: each part needs the others (an attached order's payout
\* must exist and have a kiosk for its total, its claim and its status to be typed).
LEMMA LedgerInvariant == LedgerSpec => []LedgerInv
<1>1. LedgerInit => LedgerInv
  BY InitTypeOK
     DEF LedgerInit, LedgerInv, PayoutHasKiosk, AttachedToPayout, PayableIsConfirmed
<1>2. LedgerInv /\ [LedgerNext]_ledgerVars => LedgerInv'
  BY NextTypeOK, NextPayoutHasKiosk, NextAttachedToPayout, NextPayable DEF LedgerInv
<1> QED
  BY <1>1, <1>2, PTL DEF LedgerSpec

\* Type correctness: every amount ever stored fits its Decimal(10,2) column.
THEOREM LedgerTypeCorrect == LedgerSpec => []TypeOK
BY LedgerInvariant, PTL DEF LedgerInv

\* Only confirmed, real earnings of the payout's own kiosk are ever payable.
THEOREM OnlyConfirmedIsPayable == LedgerSpec => []PayableIsConfirmed
BY LedgerInvariant, PTL DEF LedgerInv

-----------------------------------------------------------------------------
(* Properties of steps *)

FrozenStep(p) ==
  payout[p].status \in Claimed =>
    /\ payout'[p].kiosk = payout[p].kiosk
    /\ payout'[p].total = payout[p].total
    /\ payout'[p].destination = payout[p].destination
    /\ payout'[p].status # payout[p].status =>
         <<payout[p].status, payout'[p].status>> \in
           {<<"PROCESSING", "PAID">>, <<"PROCESSING", "FAILED">>, <<"PAID", "FAILED">>}

LEMMA FrozenSteps ==
  ASSUME TypeOK, [LedgerNext]_ledgerVars, NEW p \in Payout
  PROVE  FrozenStep(p)
<1>1. CASE /\ <<payout[p].status, payout'[p].status>> \in
                {<<"PROCESSING", "PAID">>, <<"PROCESSING", "FAILED">>, <<"PAID", "FAILED">>}
           /\ payout'[p] = [payout[p] EXCEPT !.status = payout'[p].status]
  <2>1. payout[p] \in PayoutRow
    BY DEF TypeOK
  <2>2. /\ payout'[p].kiosk = payout[p].kiosk
        /\ payout'[p].total = payout[p].total
        /\ payout'[p].destination = payout[p].destination
    BY <1>1, <2>1 DEF PayoutRow
  <2> QED
    BY <1>1, <2>2 DEF FrozenStep
<1>2. CASE payout'[p] = payout[p]
  BY <1>2 DEF FrozenStep
<1>3. ASSUME NEW k \in Kiosk, GeneratePayout(k, p)
      PROVE payout[p].status \notin Claimed
  BY <1>3 DEF GeneratePayout, Claimed
<1> QED
  BY <1>1, <1>2, <1>3, PayoutSteps DEF FrozenStep, Claimed

\* A claimed payout keeps its kiosk, amount and destination, and FAILED is final.
THEOREM ClaimIsFrozen == LedgerSpec => ClaimFreezes
<1>1. TypeOK /\ [LedgerNext]_ledgerVars => [\A p \in Payout : FrozenStep(p)]_ledgerVars
  BY FrozenSteps
<1>2. ClaimFreezes <=> [][\A p \in Payout : FrozenStep(p)]_ledgerVars
  BY PTL DEF ClaimFreezes, FrozenStep
<1> QED
  BY <1>1, <1>2, LedgerTypeCorrect, PTL DEF LedgerSpec

RowsStayStep(e) ==
  /\ (event[e].payout # None /\ payout[event[e].payout].status \in Claimed)
       => event'[e].payout = event[e].payout
  /\ (adjustment[e].exists /\ adjustment[e].payout # None
        /\ payout[adjustment[e].payout].status \in Claimed)
       => adjustment'[e] = adjustment[e]

LEMMA RowsStaySteps ==
  ASSUME LedgerInv, [LedgerNext]_ledgerVars, NEW e \in Event
  PROVE  RowsStayStep(e)
<1> TypeOK
  BY DEF LedgerInv
<1> USE DEF TypeOK
<1>1. ASSUME NEW k \in Kiosk, NEW p \in Payout, GeneratePayout(k, p)
      PROVE RowsStayStep(e)
  BY <1>1 DEF GeneratePayout, Sweepable, OpenAdjustments, RowsStayStep
<1>2. ASSUME NEW f \in Event, ReconcileReversedPending(f)
      PROVE RowsStayStep(e)
  <2> DEFINE q == event[f].payout
             gone == [status |-> "REVERSED", share |-> 0, payout |-> None]
  <2>1. payout[q].status = "PENDING"
    BY <1>2 DEF ReconcileReversedPending
  <2>2. event[e].payout # q => event'[e].payout = event[e].payout
    <3>1. CASE event' = [event EXCEPT ![f] = gone]
      BY <3>1
    <3>2. CASE event' = [ReleasedEvents(q) EXCEPT ![f] = gone]
      BY <3>2 DEF ReleasedEvents
    <3> QED
      BY <1>2, <3>1, <3>2 DEF ReconcileReversedPending
  <2>3. adjustment[e].payout # q => adjustment'[e] = adjustment[e]
    <3>1. adjustment' = adjustment \/ adjustment' = ReleasedAdjustments(q)
      BY <1>2 DEF ReconcileReversedPending
    <3> QED
      BY <3>1 DEF ReleasedAdjustments
  <2> QED
    BY <2>1, <2>2, <2>3 DEF RowsStayStep, Claimed
<1>3. ASSUME NEW p \in Payout, CarryForwardPayout(p)
      PROVE RowsStayStep(e)
  BY <1>3 DEF CarryForwardPayout, Claimable, ReleasedEvents, ReleasedAdjustments,
              RowsStayStep, Claimed
<1>4. ASSUME NEW p \in Payout, ClaimPayout(p)
      PROVE RowsStayStep(e)
  BY <1>4 DEF ClaimPayout, OpenAdjustments, RowsStayStep
<1>5. ASSUME NEW f \in Event, NEW s \in {"PENDING", "CONFIRMED", "REVERSED"},
             CreateCommissionEvent(f, s)
      PROVE RowsStayStep(e)
  <2>1. e # f => event'[e] = event[e]
    BY <1>5 DEF CreateCommissionEvent
  <2>2. event[f].payout = None
    BY <1>5 DEF LedgerInv, PayableIsConfirmed, CreateCommissionEvent
  <2>3. adjustment' = adjustment
    BY <1>5 DEF CreateCommissionEvent
  <2> QED
    BY <2>1, <2>2, <2>3 DEF RowsStayStep
<1>6. ASSUME NEW f \in Event,
             \/ ReconcileConfirmed(f)
             \/ ReconcileReversedUnswept(f)
      PROVE RowsStayStep(e)
  <2>1. e # f => event'[e] = event[e]
    BY <1>6 DEF ReconcileConfirmed, ReconcileReversedUnswept
  <2>2. event[f] \in EventRow
    OBVIOUS
  <2>3. event'[f].payout = event[f].payout
    BY <1>6, <2>2 DEF ReconcileConfirmed, ReconcileReversedUnswept, EventRow
  <2>4. adjustment' = adjustment
    BY <1>6 DEF ReconcileConfirmed, ReconcileReversedUnswept
  <2> QED
    BY <2>1, <2>3, <2>4 DEF RowsStayStep
<1>7. ASSUME NEW f \in Event, ReconcileReversedClaimed(f)
      PROVE RowsStayStep(e)
  <2>1. event'[e].payout = event[e].payout
    BY <1>7 DEF ReconcileReversedClaimed, EventRow
  <2>2. adjustment[e].exists => adjustment'[e] = adjustment[e]
    BY <1>7 DEF ReconcileReversedClaimed
  <2> QED
    BY <2>1, <2>2 DEF RowsStayStep
<1>8. ASSUME \/ \E k \in Kiosk, pct \in SharePct : UpdateSharePct(k, pct)
             \/ \E k \in Kiosk, a \in Account : ConnectStripe(k, a)
             \/ \E p \in Payout, reversed \in BOOLEAN : SettlePayout(p, reversed)
             \/ UNCHANGED ledgerVars
      PROVE RowsStayStep(e)
  BY <1>8 DEF UpdateSharePct, ConnectStripe, SettlePayout, ledgerVars, RowsStayStep
<1> QED
  BY <1>1, <1>2, <1>3, <1>4, <1>5, <1>6, <1>7, <1>8
     DEF LedgerNext, Bookkeeping, ReconcileReversed

\* Rows of a claimed payout stay with it: no order is paid out twice and no deduction
\* is taken twice.
THEOREM ClaimedRowsAreKept == LedgerSpec => ClaimedRowsStay
<1>1. LedgerInv /\ [LedgerNext]_ledgerVars => [\A e \in Event : RowsStayStep(e)]_ledgerVars
  BY RowsStaySteps
<1>2. ClaimedRowsStay <=> [][\A e \in Event : RowsStayStep(e)]_ledgerVars
  BY PTL DEF ClaimedRowsStay, RowsStayStep
<1> QED
  BY <1>1, <1>2, LedgerInvariant, PTL DEF LedgerSpec

-----------------------------------------------------------------------------
(* Sums over finite sets *)

\* The partial sums of f over the subsets of S.
Pick(S) == CHOOSE x \in S : TRUE
SumStep(f, g, S) == IF S = {} THEN 0 ELSE f[Pick(S)] + g[S \ {Pick(S)}]
IsSum(f, g, S) == g = [T \in SUBSET S |-> SumStep(f, g, T)]
Sums(f, S) == CHOOSE g : IsSum(f, g, S)

\* Among finite sets, a non-empty collection has a member that includes no other: the
\* induction over finite sets of the lemmas below, as the search for a smallest counterexample.
LEMMA MinimalSet ==
  ASSUME NEW S, IsFiniteSet(S), NEW B, B \subseteq SUBSET S, B # {}
  PROVE  \E T \in B : \A U \in B : U \subseteq T => U = T
<1> DEFINE R == StrictSubsetOrdering(S)
<1>1. FiniteSubsetsOf(S) = SUBSET S BY FS_FiniteSubsetsOfFinite
<1>2. IsWellFoundedOn(R, SUBSET S) BY FS_StrictSubsetOrderingWellFounded, <1>1
<1> HIDE DEF R
<1>3. PICK T \in B : \A y \in B : ~ (<<y, T>> \in R) BY <1>2, WFMin
<1>4. ASSUME NEW U \in B, U \subseteq T, U # T PROVE FALSE
 <2>1. U \in SUBSET S /\ T \in SUBSET S OBVIOUS
 <2>2. <<U,T>> \in (SUBSET S) \X (SUBSET S) BY <2>1
 <2>3. <<U,T>> \in R BY <1>4, <2>2 DEF R, StrictSubsetOrdering
 <2> QED BY <2>3, <1>3
<1> QED BY <1>3, <1>4

\* SumFunctionOnSet, as the community module defines it, adds the elements one by one in the
\* order CHOOSE picks them.
LEMMA SumIsFold ==
  ASSUME NEW f, NEW S
  PROVE  SumFunctionOnSet(f, S) = Sums(f, S)[S]
 BY DEF SumFunctionOnSet, FoldFunctionOnSet, MapThenFoldSet, Sums, IsSum, SumStep, Pick

\* The element picked is one of the set.
LEMMA PickIn == ASSUME NEW S, S # {} PROVE Pick(S) \in S BY DEF Pick

\* Two tables of partial sums agree wherever both have an entry.
LEMMA SumUnique ==
  ASSUME NEW S, IsFiniteSet(S), NEW T \in SUBSET S, NEW f, NEW F, NEW g, NEW h,
         \A x \in T : f[x] = F[x],
         IsSum(f, g, S), IsSum(F, h, T)
  PROVE  g[T] = h[T]
<1> DEFINE B == {U \in SUBSET T : g[U] # h[U]}
<1>0. SUFFICES ASSUME B # {} PROVE FALSE OBVIOUS
<1>1. PICK U \in B : \A V \in B : V \subseteq U => V = U
  <2>1. B \subseteq SUBSET S OBVIOUS
  <2> HIDE DEF B
  <2> QED BY <1>0, <2>1, MinimalSet
<1>2. g[U] = SumStep(f, g, U) /\ h[U] = SumStep(F, h, U) BY DEF IsSum
<1>3. U # {} BY <1>2 DEF SumStep
<1>4. Pick(U) \in U BY <1>3, PickIn
<1>5. f[Pick(U)] = F[Pick(U)] BY <1>4
<1>6. g[U \ {Pick(U)}] = h[U \ {Pick(U)}] BY <1>1, <1>4
<1> QED BY <1>2, <1>3, <1>5, <1>6 DEF SumStep

\* A finite set has a table of partial sums.
LEMMA SumsExist ==
  ASSUME NEW S, IsFiniteSet(S), NEW f
  PROVE  IsSum(f, Sums(f, S), S)
<1> DEFINE B == {T \in SUBSET S : ~ IsSum(f, Sums(f, T), T)}
<1>0. SUFFICES ASSUME B # {} PROVE FALSE OBVIOUS
<1>1. PICK T \in B : \A V \in B : V \subseteq T => V = T
  <2>1. B \subseteq SUBSET S OBVIOUS
  <2> HIDE DEF B
  <2> QED BY <1>0, <2>1, MinimalSet
<1>2. \A V \in SUBSET T : V # T => IsSum(f, Sums(f, V), V) BY <1>1
<1>3. \A V \in SUBSET T : IsFiniteSet(V) BY FS_Subset
<1> DEFINE Rest(V) == V \ {Pick(V)}
           g == [V \in SUBSET T |-> IF V = {} THEN 0 ELSE f[Pick(V)] + Sums(f, Rest(V))[Rest(V)]]
<1>4. ASSUME NEW V \in SUBSET T PROVE g[V] = SumStep(f, g, V)
  <2>1. CASE V = {} BY <2>1 DEF SumStep
  <2>2. CASE V # {}
    <3> DEFINE U == Rest(V)
    <3>1. U \in SUBSET T /\ U # T /\ Rest(U) \in SUBSET U BY <2>2, PickIn
    <3>2. IsSum(f, Sums(f, U), U) BY <3>1, <1>2
    <3>3. Sums(f, U)[U] = SumStep(f, Sums(f, U), U) BY <3>2 DEF IsSum
    <3>4. g[U] = Sums(f, U)[U]
      <4>1. CASE U = {} BY <4>1, <3>1, <3>3 DEF SumStep
      <4>2. CASE U # {}
        <5>1. g[U] = f[Pick(U)] + Sums(f, Rest(U))[Rest(U)] BY <4>2, <3>1
        <5>2. Rest(U) \in SUBSET T /\ Rest(U) # T BY <3>1
        <5>3. IsSum(f, Sums(f, Rest(U)), Rest(U)) BY <5>2, <1>2
        <5>4. IsFiniteSet(U) BY <3>1, <1>3
        <5>5. Sums(f, U)[Rest(U)] = Sums(f, Rest(U))[Rest(U)]
          <6> HIDE DEF U
          <6> DEFINE W == Rest(U)
          <6>1. W \in SUBSET U BY <3>1
          <6>2. IsSum(f, Sums(f, W), W) BY <5>3
          <6> HIDE DEF W
          <6>3. Sums(f, U)[W] = Sums(f, W)[W] BY <5>4, <6>1, <6>2, <3>2, SumUnique
          <6> QED BY <6>3 DEF W
        <5> QED BY <5>1, <5>5, <3>3, <4>2 DEF SumStep
      <4> QED BY <4>1, <4>2
    <3>5. g[V] = f[Pick(V)] + Sums(f, U)[U] BY <2>2
    <3> QED BY <3>4, <3>5, <2>2 DEF SumStep
  <2> QED BY <2>1, <2>2
<1>5. IsSum(f, g, T)
  <2>1. g = [V \in SUBSET T |-> g[V]] OBVIOUS
  <2> HIDE DEF g
  <2> QED BY <2>1, <1>4 DEF IsSum
<1>6. IsSum(f, Sums(f, T), T)
  <2> HIDE DEF g
  <2> QED BY <1>5 DEF Sums
<1> QED BY <1>6

\* Adding nothing gives 0.
LEMMA SumEmpty == ASSUME NEW f PROVE SumFunctionOnSet(f, {}) = 0
<1>1. IsFiniteSet({}) BY FS_EmptySet
<1>2. IsSum(f, Sums(f, {}), {}) BY <1>1, SumsExist
<1> QED BY <1>2, SumIsFold DEF IsSum, SumStep

\* A sum depends only on the values added.
LEMMA SumCongruent ==
  ASSUME NEW S, IsFiniteSet(S), NEW f, NEW g, \A x \in S : f[x] = g[x]
  PROVE  SumFunctionOnSet(f, S) = SumFunctionOnSet(g, S)
<1>1. IsSum(f, Sums(f, S), S) /\ IsSum(g, Sums(g, S), S) BY SumsExist
<1>2. Sums(f, S)[S] = Sums(g, S)[S] BY <1>1, SumUnique
<1> QED BY <1>2, SumIsFold

\* The element picked first can be split off.
LEMMA SumPick ==
  ASSUME NEW S, IsFiniteSet(S), S # {}, NEW f
  PROVE  SumFunctionOnSet(f, S) = f[Pick(S)] + SumFunctionOnSet(f, S \ {Pick(S)})
<1> DEFINE T == S \ {Pick(S)}
<1>1. IsFiniteSet(T) /\ T \in SUBSET S BY FS_Subset
<1>2. IsSum(f, Sums(f, S), S) /\ IsSum(f, Sums(f, T), T) BY <1>1, SumsExist
<1>3. Sums(f, S)[T] = Sums(f, T)[T]
  <2> HIDE DEF T
  <2> QED BY <1>1, <1>2, SumUnique
<1>4. Sums(f, S)[S] = f[Pick(S)] + Sums(f, S)[T] BY <1>2 DEF IsSum, SumStep
<1> QED BY <1>3, <1>4, SumIsFold

\* A sum of integers is an integer.
LEMMA SumInt ==
  ASSUME NEW S, IsFiniteSet(S), NEW f, \A x \in S : f[x] \in Int
  PROVE  SumFunctionOnSet(f, S) \in Int
<1> DEFINE B == {T \in SUBSET S : SumFunctionOnSet(f, T) \notin Int}
<1>0. SUFFICES ASSUME B # {} PROVE FALSE OBVIOUS
<1>1. PICK T \in B : \A V \in B : V \subseteq T => V = T
  <2>1. B \subseteq SUBSET S OBVIOUS
  <2> HIDE DEF B
  <2> QED BY <1>0, <2>1, MinimalSet
<1>2. CASE T = {} BY <1>2, SumEmpty
<1>3. CASE T # {}
  <2>1. Pick(T) \in T /\ IsFiniteSet(T) BY <1>3, PickIn, FS_Subset
  <2>2. SumFunctionOnSet(f, T \ {Pick(T)}) \in Int BY <1>1, <2>1
  <2>3. f[Pick(T)] \in Int BY <2>1
  <2>4. SumFunctionOnSet(f, T) = f[Pick(T)] + SumFunctionOnSet(f, T \ {Pick(T)})
    BY <2>1, <1>3, SumPick
  <2>5. SumFunctionOnSet(f, T) \in Int BY <2>2, <2>3, <2>4
  <2> QED BY <2>5, <1>1
<1> QED BY <1>2, <1>3

\* Any element can be split off, not only the one CHOOSE picks: the order is of no account.
LEMMA SumRemove ==
  ASSUME NEW S, IsFiniteSet(S), NEW f, \A x \in S : f[x] \in Int, NEW e \in S
  PROVE  SumFunctionOnSet(f, S) = f[e] + SumFunctionOnSet(f, S \ {e})
<1> DEFINE Sum(T) == SumFunctionOnSet(f, T)
           B == {T \in SUBSET S : \E x \in T : Sum(T) # f[x] + Sum(T \ {x})}
<1>0. SUFFICES ASSUME B # {} PROVE FALSE OBVIOUS
<1>1. PICK T \in B : \A V \in B : V \subseteq T => V = T
  <2>1. B \subseteq SUBSET S OBVIOUS
  <2> HIDE DEF B
  <2> QED BY <1>0, <2>1, MinimalSet
<1>2. PICK x \in T : Sum(T) # f[x] + Sum(T \ {x}) BY <1>1
<1> DEFINE p == Pick(T)
<1>3. p \in T /\ IsFiniteSet(T) /\ T \subseteq S BY <1>2, PickIn, FS_Subset
<1>4. Sum(T) = f[p] + Sum(T \ {p}) BY <1>3, SumPick
<1>5. p # x BY <1>4, <1>2
<1>6. \A V \in SUBSET T : V # T => \A y \in V : Sum(V) = f[y] + Sum(V \ {y}) BY <1>1
<1>7. Sum(T \ {p}) = f[x] + Sum((T \ {p}) \ {x})
  <2>1. T \ {p} \in SUBSET T /\ T \ {p} # T /\ x \in T \ {p} BY <1>2, <1>3, <1>5
  <2> QED BY <2>1, <1>6
<1>8. Sum(T \ {x}) = f[p] + Sum((T \ {x}) \ {p})
  <2>1. T \ {x} \in SUBSET T /\ T \ {x} # T /\ p \in T \ {x} BY <1>2, <1>3, <1>5
  <2> QED BY <2>1, <1>6
<1>9. (T \ {x}) \ {p} = (T \ {p}) \ {x} OBVIOUS
<1>10. f[x] \in Int /\ f[p] \in Int /\ Sum((T \ {p}) \ {x}) \in Int
  <2>1. IsFiniteSet((T \ {p}) \ {x}) /\ (T \ {p}) \ {x} \subseteq S BY <1>3, FS_Subset
  <2> QED BY <1>2, <1>3, <2>1, SumInt
<1> HIDE DEF Sum, p
<1> QED BY <1>2, <1>4, <1>7, <1>8, <1>9, <1>10

\* A new element adds its value.
LEMMA SumAdd ==
  ASSUME NEW S, IsFiniteSet(S), NEW f, NEW e, e \notin S, \A x \in S \cup {e} : f[x] \in Int
  PROVE  SumFunctionOnSet(f, S \cup {e}) = f[e] + SumFunctionOnSet(f, S)
<1>1. IsFiniteSet(S \cup {e}) BY FS_AddElement
<1>2. (S \cup {e}) \ {e} = S OBVIOUS
<1> QED BY <1>1, <1>2, SumRemove

\* Sums over disjoint sets add up.
LEMMA SumUnion ==
  ASSUME NEW S, NEW T, IsFiniteSet(S), IsFiniteSet(T), S \cap T = {},
         NEW f, \A x \in S \cup T : f[x] \in Int
  PROVE  SumFunctionOnSet(f, S \cup T) = SumFunctionOnSet(f, S) + SumFunctionOnSet(f, T)
<1> DEFINE Sum(U) == SumFunctionOnSet(f, U)
           B == {U \in SUBSET T : Sum(S \cup U) # Sum(S) + Sum(U)}
<1>0. SUFFICES ASSUME B # {} PROVE FALSE OBVIOUS
<1>1. PICK U \in B : \A V \in B : V \subseteq U => V = U
  <2>1. B \subseteq SUBSET T OBVIOUS
  <2> HIDE DEF B
  <2> QED BY <1>0, <2>1, MinimalSet
<1>2. \A V \in SUBSET T : IsFiniteSet(V) /\ Sum(V) \in Int
  BY FS_Subset, SumInt
<1>3. Sum(S) \in Int BY SumInt
<1>4. CASE U = {}
  <2>1. S \cup U = S BY <1>4
  <2> QED BY <2>1, <1>1, <1>3, <1>4, SumEmpty
<1>5. CASE U # {}
  <2> DEFINE e == Pick(U)
             V == U \ {e}
  <2>1. e \in U /\ V \in SUBSET T /\ V # U /\ V \subseteq U BY <1>5, PickIn
  <2>2. Sum(S \cup V) = Sum(S) + Sum(V) BY <2>1, <1>1
  <2>3. IsFiniteSet(S \cup V) /\ e \notin S \cup V /\ S \cup U = (S \cup V) \cup {e}
    <3>1. IsFiniteSet(V) BY <2>1, <1>2
    <3> HIDE DEF V
    <3>2. IsFiniteSet(S \cup V) BY <3>1, FS_Union
    <3> QED BY <3>2, <2>1 DEF V
  <2>4. Sum(S \cup U) = f[e] + Sum(S \cup V)
    <3>1. \A x \in (S \cup V) \cup {e} : f[x] \in Int BY <2>1
    <3> HIDE DEF V, e
    <3> QED BY <2>3, <3>1, SumAdd
  <2>5. Sum(U) = f[e] + Sum(V) BY <2>1, <1>2, SumRemove
  <2>6. f[e] \in Int /\ Sum(V) \in Int BY <2>1, <1>2
  <2> HIDE DEF Sum, V, e
  <2> QED BY <2>2, <2>4, <2>5, <2>6, <1>3, <1>1
<1> QED BY <1>4, <1>5

\* Zeros add up to 0.
LEMMA SumZero ==
  ASSUME NEW S, IsFiniteSet(S), NEW f, \A x \in S : f[x] = 0
  PROVE  SumFunctionOnSet(f, S) = 0
<1> DEFINE B == {T \in SUBSET S : SumFunctionOnSet(f, T) # 0}
<1>0. SUFFICES ASSUME B # {} PROVE FALSE OBVIOUS
<1>1. PICK T \in B : \A V \in B : V \subseteq T => V = T
  <2>1. B \subseteq SUBSET S OBVIOUS
  <2> HIDE DEF B
  <2> QED BY <1>0, <2>1, MinimalSet
<1>2. T # {} BY <1>1, SumEmpty
<1>3. Pick(T) \in T /\ IsFiniteSet(T) BY <1>2, PickIn, FS_Subset
<1>4. SumFunctionOnSet(f, T) = f[Pick(T)] + SumFunctionOnSet(f, T \ {Pick(T)})
  BY <1>2, <1>3, SumPick
<1>5. SumFunctionOnSet(f, T \ {Pick(T)}) = 0 BY <1>1, <1>3
<1>6. SumFunctionOnSet(f, T) = 0 BY <1>3, <1>4, <1>5
<1> QED BY <1>1, <1>6

\* Sums over one set can be added element by element.
LEMMA SumPlus ==
  ASSUME NEW S, IsFiniteSet(S), NEW f, NEW g, NEW h,
         \A x \in S : f[x] \in Int /\ g[x] \in Int /\ h[x] = f[x] + g[x]
  PROVE  SumFunctionOnSet(h, S) = SumFunctionOnSet(f, S) + SumFunctionOnSet(g, S)
<1> DEFINE B == {T \in SUBSET S : SumFunctionOnSet(h, T) #
                    SumFunctionOnSet(f, T) + SumFunctionOnSet(g, T)}
<1>0. SUFFICES ASSUME B # {} PROVE FALSE OBVIOUS
<1>1. PICK T \in B : \A V \in B : V \subseteq T => V = T
  <2>1. B \subseteq SUBSET S OBVIOUS
  <2> HIDE DEF B
  <2> QED BY <1>0, <2>1, MinimalSet
<1>2. T # {}
  <2>1. SumFunctionOnSet(f, {}) = 0 /\ SumFunctionOnSet(g, {}) = 0 /\ SumFunctionOnSet(h, {}) = 0
    BY SumEmpty
  <2>2. T \in B BY <1>1
  <2>3. T = {} => FALSE BY <2>1, <2>2
  <2> QED BY <2>3
<1> DEFINE e == Pick(T)
           V == T \ {e}
<1>3. e \in T /\ IsFiniteSet(T) /\ IsFiniteSet(V) /\ V \subseteq S
  BY <1>2, PickIn, FS_Subset
<1>4. /\ SumFunctionOnSet(f, T) = f[e] + SumFunctionOnSet(f, V)
      /\ SumFunctionOnSet(g, T) = g[e] + SumFunctionOnSet(g, V)
      /\ SumFunctionOnSet(h, T) = h[e] + SumFunctionOnSet(h, V)
  BY <1>2, <1>3, SumPick
<1>5. SumFunctionOnSet(h, V) = SumFunctionOnSet(f, V) + SumFunctionOnSet(g, V)
  BY <1>1, <1>3
<1>6. SumFunctionOnSet(f, V) \in Int /\ SumFunctionOnSet(g, V) \in Int
  BY <1>3, SumInt
<1>7. f[e] \in Int /\ g[e] \in Int /\ h[e] = f[e] + g[e] BY <1>3
<1>8. SumFunctionOnSet(h, T) # SumFunctionOnSet(f, T) + SumFunctionOnSet(g, T) BY <1>1
<1> HIDE DEF e, V
<1> QED BY <1>4, <1>5, <1>6, <1>7, <1>8

\* Larger values have a larger sum.
LEMMA SumMonotone ==
  ASSUME NEW S, IsFiniteSet(S), NEW f, NEW g,
         \A x \in S : f[x] \in Int /\ g[x] \in Int /\ f[x] <= g[x]
  PROVE  SumFunctionOnSet(f, S) <= SumFunctionOnSet(g, S)
<1> DEFINE B == {T \in SUBSET S : ~ (SumFunctionOnSet(f, T) <= SumFunctionOnSet(g, T))}
<1>0. SUFFICES ASSUME B # {} PROVE FALSE OBVIOUS
<1>1. PICK T \in B : \A V \in B : V \subseteq T => V = T
  <2>1. B \subseteq SUBSET S OBVIOUS
  <2> HIDE DEF B
  <2> QED BY <1>0, <2>1, MinimalSet
<1>2. T # {}
  <2>1. SumFunctionOnSet(f, {}) = 0 /\ SumFunctionOnSet(g, {}) = 0
    BY SumEmpty
  <2>2. T \in B BY <1>1
  <2>3. T = {} => FALSE BY <2>1, <2>2
  <2> QED BY <2>3
<1> DEFINE e == Pick(T)
           V == T \ {e}
<1>3. e \in T /\ IsFiniteSet(T) /\ IsFiniteSet(V) /\ V \subseteq S
  BY <1>2, PickIn, FS_Subset
<1>4. /\ SumFunctionOnSet(f, T) = f[e] + SumFunctionOnSet(f, V)
      /\ SumFunctionOnSet(g, T) = g[e] + SumFunctionOnSet(g, V)
  BY <1>2, <1>3, SumPick
<1>5. SumFunctionOnSet(f, V) <= SumFunctionOnSet(g, V)
  BY <1>1, <1>3
<1>6. SumFunctionOnSet(f, V) \in Int /\ SumFunctionOnSet(g, V) \in Int
  BY <1>3, SumInt
<1>7. f[e] \in Int /\ g[e] \in Int /\ f[e] <= g[e] BY <1>3
<1>8. ~ (SumFunctionOnSet(f, T) <= SumFunctionOnSet(g, T)) BY <1>1
<1> HIDE DEF e, V
<1> QED BY <1>4, <1>5, <1>6, <1>7, <1>8

\* A sum moves by what one changed element moves.
LEMMA SumPoint ==
  ASSUME NEW S, IsFiniteSet(S), NEW f, NEW g, NEW e \in S,
         \A x \in S : f[x] \in Int /\ g[x] \in Int,
         \A x \in S \ {e} : f[x] = g[x]
  PROVE  SumFunctionOnSet(g, S) = SumFunctionOnSet(f, S) + (g[e] - f[e])
<1> DEFINE V == S \ {e}
<1>1. IsFiniteSet(V) BY FS_Subset
<1>2. /\ SumFunctionOnSet(f, S) = f[e] + SumFunctionOnSet(f, V)
      /\ SumFunctionOnSet(g, S) = g[e] + SumFunctionOnSet(g, V)
  BY SumRemove
<1>3. SumFunctionOnSet(f, V) = SumFunctionOnSet(g, V) BY <1>1, SumCongruent
<1>4. SumFunctionOnSet(f, V) \in Int BY <1>1, SumInt
<1>5. f[e] \in Int /\ g[e] \in Int OBVIOUS
<1> HIDE DEF V
<1> QED BY <1>2, <1>3, <1>4, <1>5

\* A sum over some elements is a sum over all, where the others count 0.
LEMMA SumFilter ==
  ASSUME NEW S, IsFiniteSet(S), NEW T \in SUBSET S, NEW f, NEW g,
         \A x \in T : f[x] \in Int /\ g[x] = f[x],
         \A x \in S \ T : g[x] = 0
  PROVE  SumFunctionOnSet(f, T) = SumFunctionOnSet(g, S)
<1> DEFINE V == S \ T
<1>1. IsFiniteSet(T) /\ IsFiniteSet(V) BY FS_Subset
<1>2. T \cap V = {} /\ T \cup V = S /\ \A x \in T \cup V : g[x] \in Int OBVIOUS
<1>3. SumFunctionOnSet(g, S) = SumFunctionOnSet(g, T) + SumFunctionOnSet(g, V)
  <2> HIDE DEF V
  <2>1. SumFunctionOnSet(g, T \cup V) = SumFunctionOnSet(g, T) + SumFunctionOnSet(g, V)
    BY <1>1, <1>2, SumUnion
  <2> QED BY <2>1, <1>2
<1>4. SumFunctionOnSet(g, V) = 0 BY <1>1, SumZero
<1>5. SumFunctionOnSet(f, T) = SumFunctionOnSet(g, T) BY <1>1, SumCongruent
<1>6. SumFunctionOnSet(g, T) \in Int BY <1>1, <1>2, SumInt
<1> HIDE DEF V
<1> QED BY <1>3, <1>4, <1>5, <1>6

-----------------------------------------------------------------------------
(* What the sums are made of *)

\* A share is never negative; a deduction is for a reversed order and is absorbed by a payout
\* of the same kiosk; a payout that was not generated has no total.
SharesNatural == \A e \in Event : event[e].share >= 0
DeductionsFit ==
  \A e \in Event : adjustment[e].exists =>
    /\ event[e].status = "REVERSED"
    /\ adjustment[e].payout # None =>
         /\ payout[adjustment[e].payout].status # "absent"
         /\ payout[adjustment[e].payout].kiosk = EventKiosk[e]
AbsentEmpty == \A p \in Payout : payout[p].status = "absent" => payout[p].total = 0
RowsInv == LedgerInv /\ SharesNatural /\ DeductionsFit /\ AbsentEmpty

\* What one row adds to a sum: to the total of payout p, as an order or as a deduction; to
\* what kiosk k has earned, has not swept, owes, carries in payouts and was paid.
Held(ev, adj, p) ==
  [e \in Event |-> IF ev[e].payout # p THEN 0
                   ELSE IF ev[e].status = "REVERSED" /\ adj[e].exists
                        THEN -adj[e].amount ELSE ev[e].share]
Absorbed(adj, p) ==
  [e \in Event |-> IF adj[e].exists /\ adj[e].payout = p THEN adj[e].amount ELSE 0]
Worth(ev, k) ==
  [e \in Event |-> IF e \notin TestEvent /\ EventKiosk[e] = k /\ ev[e].status = "CONFIRMED"
                   THEN ev[e].share ELSE 0]
Unswept(ev, k) ==
  [e \in Event |-> IF /\ e \notin TestEvent /\ EventKiosk[e] = k
                      /\ ev[e].status = "CONFIRMED" /\ ev[e].payout = None
                   THEN ev[e].share ELSE 0]
Debt(adj, k) ==
  [e \in Event |-> IF adj[e].exists /\ adj[e].payout = None /\ EventKiosk[e] = k
                   THEN adj[e].amount ELSE 0]
Carried(pay, k) == [p \in Payout |-> IF pay[p].kiosk = k THEN pay[p].total ELSE 0]
Committed(pay, k) ==
  [p \in Payout |-> IF pay[p].kiosk = k /\ pay[p].status \in Claimed
                    THEN pay[p].total ELSE 0]

OfEvents(f) == SumFunctionOnSet(f, Event)
OfPayouts(f) == SumFunctionOnSet(f, Payout)

\* TotalsExplained and BalanceConserved as sums over all rows; MoneyInv is inductive: a total
\* is only right after a claim if the rows it absorbs were, and a reversal in a claimed payout
\* keeps both only because the share is not negative and no other deduction exists.
TotalsAdd ==
  \A p \in Payout : payout[p].total = OfEvents(Held(event, adjustment, p))
                                      + OfEvents(Absorbed(adjustment, p))
UnpaidPositive ==
  \A p \in Payout : payout[p].status \in {"PENDING", "PROCESSING", "PAID"}
                      => payout[p].total > 0
AccountsBalance ==
  \A k \in Kiosk :
    OfEvents(Worth(event, k)) = OfPayouts(Carried(payout, k))
                                + OfEvents(Unswept(event, k)) + OfEvents(Debt(adjustment, k))
BooksOk == TotalsAdd /\ UnpaidPositive /\ AccountsBalance
MoneyInv == RowsInv /\ TotalsAdd /\ UnpaidPositive /\ AccountsBalance

\* What a row adds to a sum is a whole number of cents.
LEMMA PartsInt ==
  ASSUME TypeOK
  PROVE  /\ \A p \in Payout, e \in Event : Held(event, adjustment, p)[e] \in Int
         /\ \A p \in Payout, e \in Event : Absorbed(adjustment, p)[e] \in Int
         /\ \A k \in Kiosk, e \in Event : Worth(event, k)[e] \in Int
         /\ \A k \in Kiosk, e \in Event : Unswept(event, k)[e] \in Int
         /\ \A k \in Kiosk, e \in Event : Debt(adjustment, k)[e] \in Int
         /\ \A k \in Kiosk, p \in Payout : Carried(payout, k)[p] \in Int
         /\ \A k \in Kiosk, p \in Payout : Committed(payout, k)[p] \in Int
<1>1. Amount \subseteq Int BY LedgerAssumption DEF Amount
<1>2. \A e \in Event : event[e].share \in Int /\ adjustment[e].amount \in Int
  BY <1>1 DEF TypeOK, EventRow, AdjustmentRow
<1>3. \A p \in Payout : payout[p].total \in Int
  BY <1>1 DEF TypeOK, PayoutRow
<1> QED BY <1>2, <1>3 DEF Held, Absorbed, Worth, Unswept, Debt, Carried, Committed

\* The same, in the next state.
LEMMA PartsInt1 ==
  ASSUME TypeOK'
  PROVE  /\ \A p \in Payout, e \in Event : Held(event', adjustment', p)[e] \in Int
         /\ \A p \in Payout, e \in Event : Absorbed(adjustment', p)[e] \in Int
         /\ \A k \in Kiosk, e \in Event : Worth(event', k)[e] \in Int
         /\ \A k \in Kiosk, e \in Event : Unswept(event', k)[e] \in Int
         /\ \A k \in Kiosk, e \in Event : Debt(adjustment', k)[e] \in Int
         /\ \A k \in Kiosk, p \in Payout : Carried(payout', k)[p] \in Int
         /\ \A k \in Kiosk, p \in Payout : Committed(payout', k)[p] \in Int
<1>1. Amount \subseteq Int BY LedgerAssumption DEF Amount
<1>2. \A e \in Event : event'[e].share \in Int /\ adjustment'[e].amount \in Int
  BY <1>1 DEF TypeOK, EventRow, AdjustmentRow
<1>3. \A p \in Payout : payout'[p].total \in Int
  BY <1>1 DEF TypeOK, PayoutRow
<1> QED BY <1>2, <1>3 DEF Held, Absorbed, Worth, Unswept, Debt, Carried, Committed

\* TotalsExplained, read as sums over all orders.
LEMMA ExplainedIsSum ==
  ASSUME TypeOK
  PROVE  TotalsExplained <=> TotalsAdd /\ UnpaidPositive
<1>1. ASSUME NEW p \in Payout
      PROVE /\ SumFunctionOnSet([e \in EventsOf(p) |-> Contribution(e)], EventsOf(p))
                 = OfEvents(Held(event, adjustment, p))
            /\ SumAdjustments(AdjustmentsOf(p)) = OfEvents(Absorbed(adjustment, p))
  <2> DEFINE T == EventsOf(p)
             f == [e \in T |-> Contribution(e)]
             A == AdjustmentsOf(p)
             a == [e \in A |-> adjustment[e].amount]
             g == Held(event, adjustment, p)
             b == Absorbed(adjustment, p)
  <2>1. T \in SUBSET Event /\ A \in SUBSET Event BY DEF EventsOf, AdjustmentsOf
  <2>2. \A e \in T : g[e] = f[e] BY DEF EventsOf, Held, Contribution
  <2>3. \A e \in Event \ T : g[e] = 0 BY DEF EventsOf, Held
  <2>4. \A e \in A : b[e] = a[e] BY DEF AdjustmentsOf, Absorbed
  <2>5. \A e \in Event \ A : b[e] = 0 BY DEF AdjustmentsOf, Absorbed
  <2>6. \A e \in Event : g[e] \in Int /\ b[e] \in Int BY PartsInt
  <2> HIDE DEF f, g, a, b, T, A
  <2>7. SumFunctionOnSet(f, T) = SumFunctionOnSet(g, Event)
    BY <2>1, <2>2, <2>3, <2>6, FiniteAssumption, SumFilter
  <2>8. SumFunctionOnSet(a, A) = SumFunctionOnSet(b, Event)
    BY <2>1, <2>4, <2>5, <2>6, FiniteAssumption, SumFilter
  <2> QED BY <2>7, <2>8 DEF f, g, a, b, T, A, SumAdjustments, OfEvents
<1> QED BY <1>1 DEF TotalsExplained, TotalsAdd, UnpaidPositive

\* A kiosk's four balances are sums over all rows, a row that does not count adding zero.
LEMMA KioskIsSum ==
  ASSUME TypeOK, NEW k \in Kiosk
  PROVE  /\ Earned(k) = OfEvents(Worth(event, k))
         /\ TotalOf(KioskPayouts(k)) = OfPayouts(Carried(payout, k))
         /\ SumShares(Sweepable(k)) = OfEvents(Unswept(event, k))
         /\ SumAdjustments(OpenAdjustments(k)) = OfEvents(Debt(adjustment, k))
<1>1. Earned(k) = OfEvents(Worth(event, k))
  <2> DEFINE T == {e \in KioskEvents(k) : event[e].status = "CONFIRMED"}
             f == [e \in T |-> event[e].share]
             g == Worth(event, k)
  <2>1. T \in SUBSET Event BY DEF KioskEvents
  <2>2. \A e \in T : g[e] = f[e] BY DEF KioskEvents, Worth
  <2>3. \A e \in Event \ T : g[e] = 0 BY DEF KioskEvents, Worth
  <2>4. \A e \in Event : g[e] \in Int BY PartsInt
  <2> HIDE DEF f, g, T
  <2>5. SumFunctionOnSet(f, T) = SumFunctionOnSet(g, Event)
    BY <2>1, <2>2, <2>3, <2>4, FiniteAssumption, SumFilter
  <2> QED BY <2>5 DEF f, g, T, Earned, SumShares, OfEvents
<1>2. TotalOf(KioskPayouts(k)) = OfPayouts(Carried(payout, k))
  <2> DEFINE T == KioskPayouts(k)
             f == [p \in T |-> payout[p].total]
             g == Carried(payout, k)
  <2>1. T \in SUBSET Payout BY DEF KioskPayouts
  <2>2. \A p \in T : g[p] = f[p] BY DEF KioskPayouts, Carried
  <2>3. \A p \in Payout \ T : g[p] = 0 BY DEF KioskPayouts, Carried
  <2>4. \A p \in Payout : g[p] \in Int BY PartsInt
  <2> HIDE DEF f, g, T
  <2>5. SumFunctionOnSet(f, T) = SumFunctionOnSet(g, Payout)
    BY <2>1, <2>2, <2>3, <2>4, FiniteAssumption, SumFilter
  <2> QED BY <2>5 DEF f, g, T, TotalOf, OfPayouts
<1>3. SumShares(Sweepable(k)) = OfEvents(Unswept(event, k))
  <2> DEFINE T == Sweepable(k)
             f == [e \in T |-> event[e].share]
             g == Unswept(event, k)
  <2>1. T \in SUBSET Event BY DEF Sweepable
  <2>2. \A e \in T : g[e] = f[e] BY DEF Sweepable, Unswept
  <2>3. \A e \in Event \ T : g[e] = 0 BY DEF Sweepable, Unswept
  <2>4. \A e \in Event : g[e] \in Int BY PartsInt
  <2> HIDE DEF f, g, T
  <2>5. SumFunctionOnSet(f, T) = SumFunctionOnSet(g, Event)
    BY <2>1, <2>2, <2>3, <2>4, FiniteAssumption, SumFilter
  <2> QED BY <2>5 DEF f, g, T, SumShares, OfEvents
<1>4. SumAdjustments(OpenAdjustments(k)) = OfEvents(Debt(adjustment, k))
  <2> DEFINE T == OpenAdjustments(k)
             f == [e \in T |-> adjustment[e].amount]
             g == Debt(adjustment, k)
  <2>1. T \in SUBSET Event BY DEF OpenAdjustments
  <2>2. \A e \in T : g[e] = f[e] BY DEF OpenAdjustments, Debt
  <2>3. \A e \in Event \ T : g[e] = 0 BY DEF OpenAdjustments, Debt
  <2>4. \A e \in Event : g[e] \in Int BY PartsInt
  <2> HIDE DEF f, g, T
  <2>5. SumFunctionOnSet(f, T) = SumFunctionOnSet(g, Event)
    BY <2>1, <2>2, <2>3, <2>4, FiniteAssumption, SumFilter
  <2> QED BY <2>5 DEF f, g, T, SumAdjustments, OfEvents
<1> QED BY <1>1, <1>2, <1>3, <1>4

\* BalanceConserved, read as sums over all orders and payouts.
LEMMA BalanceIsSum ==
  ASSUME TypeOK
  PROVE  BalanceConserved <=> AccountsBalance
BY KioskIsSum DEF BalanceConserved, AccountsBalance

-----------------------------------------------------------------------------
(* Single rows *)

\* What the two equations say in the next state.
LEMMA PrimedParts ==
  /\ TotalsAdd' <=> \A p \in Payout : payout'[p].total = OfEvents(Held(event', adjustment', p))
                                      + OfEvents(Absorbed(adjustment', p))
  /\ AccountsBalance' <=> \A k \in Kiosk :
    OfEvents(Worth(event', k)) = OfPayouts(Carried(payout', k))
                                + OfEvents(Unswept(event', k)) + OfEvents(Debt(adjustment', k))
BY DEF TotalsAdd, AccountsBalance

\* The kiosk share of a commission is not negative.
LEMMA ShareNatural ==
  ASSUME TypeOK, NEW e \in Event PROVE KioskShare(e) \in Nat
<1> DEFINE c == Commission[e]
           s == kiosk[EventKiosk[e]].pct
<1>1. c \in Nat /\ EventKiosk[e] \in Kiosk BY LedgerAssumption
<1>2. s \in 0..100 BY <1>1, LedgerAssumption DEF TypeOK
<1>3. c * s \in Nat
  <2> HIDE DEF c, s
  <2> QED BY <1>1, <1>2
<1>4. (c * s + 50) \div 100 \in Nat
  <2> DEFINE x == c * s
  <2> HIDE DEF x
  <2>1. x \in Nat BY <1>3 DEF x
  <2>2. (x + 50) \div 100 \in Nat BY <2>1
  <2> QED BY <2>2 DEF x
<1> QED BY <1>4 DEF KioskShare

\* Payouts that were not generated have no total: kept by every step.
LEMMA NextAbsentEmpty == RowsInv /\ [LedgerNext]_ledgerVars => AbsentEmpty'
<1> SUFFICES ASSUME RowsInv, [LedgerNext]_ledgerVars, NEW p \in Payout,
                    payout'[p].status = "absent"
             PROVE  payout'[p].total = 0
  BY DEF AbsentEmpty
<1> QED BY PayoutSteps DEF RowsInv, LedgerInv, AbsentEmpty

\* Shares are not negative: kept by every step.
LEMMA NextSharesNatural == RowsInv /\ [LedgerNext]_ledgerVars => SharesNatural'
<1> SUFFICES ASSUME RowsInv, [LedgerNext]_ledgerVars, NEW e \in Event
             PROVE  event'[e].share >= 0
  BY DEF SharesNatural
<1>0. /\ TypeOK /\ event[e].share >= 0 /\ event \in [Event -> EventRow]
      /\ \A f \in Event : KioskShare(f) \in Nat
  BY ShareNatural DEF RowsInv, LedgerInv, SharesNatural, TypeOK
<1>1. ASSUME NEW k \in Kiosk, NEW p \in Payout, GeneratePayout(k, p)
      PROVE event'[e].share >= 0
  BY <1>0, <1>1 DEF GeneratePayout, EventRow
<1>2. ASSUME NEW f \in Event, ReconcileReversedPending(f)
      PROVE event'[e].share >= 0
  <2> DEFINE gone == [status |-> "REVERSED", share |-> 0, payout |-> None]
  <2>1. CASE event' = [event EXCEPT ![f] = gone]
    BY <2>1, <1>0
  <2>2. CASE event' = [ReleasedEvents(event[f].payout) EXCEPT ![f] = gone]
    BY <2>2, <1>0 DEF ReleasedEvents, EventRow
  <2> QED
    BY <1>2, <2>1, <2>2 DEF ReconcileReversedPending
<1>3. ASSUME NEW p \in Payout, CarryForwardPayout(p)
      PROVE event'[e].share >= 0
  BY <1>3, <1>0 DEF CarryForwardPayout, ReleasedEvents, EventRow
<1>4. ASSUME NEW f \in Event,
             \/ ReconcileConfirmed(f)
             \/ ReconcileReversedUnswept(f)
             \/ ReconcileReversedClaimed(f)
      PROVE event'[e].share >= 0
  BY <1>4, <1>0 DEF ReconcileConfirmed, ReconcileReversedUnswept,
              ReconcileReversedClaimed, EventRow
<1>5. ASSUME NEW f \in Event, NEW s \in {"PENDING", "CONFIRMED", "REVERSED"},
                  CreateCommissionEvent(f, s)
      PROVE event'[e].share >= 0
  BY <1>5, <1>0 DEF CreateCommissionEvent
<1>6. ASSUME \/ \E k \in Kiosk, pct \in SharePct : UpdateSharePct(k, pct)
             \/ \E k \in Kiosk, a \in Account : ConnectStripe(k, a)
             \/ \E p \in Payout : ClaimPayout(p)
             \/ \E p \in Payout, reversed \in BOOLEAN : SettlePayout(p, reversed)
             \/ UNCHANGED ledgerVars
      PROVE event'[e].share >= 0
  <2>1. event' = event
    BY <1>6 DEF UpdateSharePct, ConnectStripe, ClaimPayout, SettlePayout, ledgerVars
  <2> QED BY <2>1, <1>0
<1> QED
  BY <1>1, <1>2, <1>3, <1>4, <1>5, <1>6 DEF LedgerNext, Bookkeeping, ReconcileReversed

\* What a reversed order's row and its deduction may become.
LEMMA ReversedStays ==
  ASSUME TypeOK, [LedgerNext]_ledgerVars, NEW e \in Event, event[e].status = "REVERSED"
  PROVE  event'[e].status = "REVERSED"
<1> USE DEF TypeOK
<1>1. ASSUME NEW k \in Kiosk, NEW p \in Payout, GeneratePayout(k, p)
      PROVE event'[e].status = "REVERSED"
  BY <1>1 DEF GeneratePayout, EventRow
<1>2. ASSUME NEW f \in Event, ReconcileReversedPending(f)
      PROVE event'[e].status = "REVERSED"
  <2> DEFINE gone == [status |-> "REVERSED", share |-> 0, payout |-> None]
  <2>1. CASE event' = [event EXCEPT ![f] = gone]
    BY <2>1
  <2>2. CASE event' = [ReleasedEvents(event[f].payout) EXCEPT ![f] = gone]
    BY <2>2 DEF ReleasedEvents, EventRow
  <2> QED
    BY <1>2, <2>1, <2>2 DEF ReconcileReversedPending
<1>3. ASSUME NEW p \in Payout, CarryForwardPayout(p)
      PROVE event'[e].status = "REVERSED"
  BY <1>3 DEF CarryForwardPayout, ReleasedEvents, EventRow
<1>4. ASSUME NEW f \in Event,
             \/ \E s \in {"PENDING", "CONFIRMED", "REVERSED"} :
                  CreateCommissionEvent(f, s)
             \/ ReconcileConfirmed(f)
             \/ ReconcileReversedUnswept(f)
             \/ ReconcileReversedClaimed(f)
      PROVE event'[e].status = "REVERSED"
  BY <1>4 DEF CreateCommissionEvent, ReconcileConfirmed, ReconcileReversedUnswept,
              ReconcileReversedClaimed, EventRow
<1>5. ASSUME \/ \E k \in Kiosk, pct \in SharePct : UpdateSharePct(k, pct)
             \/ \E k \in Kiosk, a \in Account : ConnectStripe(k, a)
             \/ \E p \in Payout : ClaimPayout(p)
             \/ \E p \in Payout, reversed \in BOOLEAN : SettlePayout(p, reversed)
             \/ UNCHANGED ledgerVars
      PROVE event' = event
  BY <1>5 DEF UpdateSharePct, ConnectStripe, ClaimPayout, SettlePayout, ledgerVars
<1> QED
  BY <1>1, <1>2, <1>3, <1>4, <1>5 DEF LedgerNext, Bookkeeping, ReconcileReversed

\* A deduction changes by being recorded, absorbed or given back.
LEMMA DeductionSteps ==
  ASSUME TypeOK, [LedgerNext]_ledgerVars, NEW e \in Event, adjustment'[e].exists
  PROVE  \/ adjustment'[e] = adjustment[e]
         \/ adjustment'[e].payout = None /\ adjustment[e].exists
         \/ adjustment'[e].payout = None /\ event'[e].status = "REVERSED"
         \/ /\ adjustment[e].exists
            /\ \E p \in Payout : /\ adjustment'[e].payout = p
                                 /\ payout'[p].kiosk = EventKiosk[e]
                                 /\ payout'[p].status # "absent"
<1> USE DEF TypeOK
<1>1. ASSUME NEW k \in Kiosk, NEW p \in Payout, GeneratePayout(k, p)
      PROVE \/ adjustment'[e] = adjustment[e]
            \/ /\ adjustment[e].exists
               /\ adjustment'[e].payout = p
               /\ payout'[p].kiosk = EventKiosk[e]
               /\ payout'[p].status # "absent"
  BY <1>1 DEF GeneratePayout, OpenAdjustments, AdjustmentRow
<1>2. ASSUME NEW p \in Payout, ClaimPayout(p)
      PROVE \/ adjustment'[e] = adjustment[e]
            \/ /\ adjustment[e].exists
               /\ adjustment'[e].payout = p
               /\ payout'[p].kiosk = EventKiosk[e]
               /\ payout'[p].status # "absent"
  <2>1. payout'[p].kiosk = payout[p].kiosk /\ payout'[p].status = "PROCESSING"
    BY <1>2 DEF ClaimPayout, PayoutRow
  <2> QED BY <1>2, <2>1 DEF ClaimPayout, OpenAdjustments, AdjustmentRow
<1>3. ASSUME NEW p \in Payout, adjustment' = ReleasedAdjustments(p)
      PROVE \/ adjustment'[e] = adjustment[e]
            \/ adjustment'[e].payout = None /\ adjustment[e].exists
  BY <1>3 DEF ReleasedAdjustments, AdjustmentRow
<1>4. ASSUME NEW f \in Event, ReconcileReversedClaimed(f)
      PROVE \/ adjustment'[e] = adjustment[e]
            \/ adjustment'[e].payout = None /\ event'[e].status = "REVERSED"
  BY <1>4 DEF ReconcileReversedClaimed, EventRow
<1>5. ASSUME NEW f \in Event, ReconcileReversedPending(f)
      PROVE adjustment' = adjustment \/ \E p \in Payout : adjustment' = ReleasedAdjustments(p)
  BY <1>5 DEF ReconcileReversedPending, EventRow
<1>6. ASSUME \/ \E k \in Kiosk, pct \in SharePct : UpdateSharePct(k, pct)
             \/ \E k \in Kiosk, a \in Account : ConnectStripe(k, a)
             \/ \E f \in Event :
                  \/ \E s \in {"PENDING", "CONFIRMED", "REVERSED"} :
                       CreateCommissionEvent(f, s)
                  \/ ReconcileConfirmed(f)
                  \/ ReconcileReversedUnswept(f)
             \/ \E p \in Payout, reversed \in BOOLEAN : SettlePayout(p, reversed)
             \/ UNCHANGED ledgerVars
      PROVE adjustment' = adjustment
  BY <1>6 DEF UpdateSharePct, ConnectStripe, CreateCommissionEvent, ReconcileConfirmed,
              ReconcileReversedUnswept, SettlePayout, ledgerVars
<1>7. ASSUME NEW p \in Payout, CarryForwardPayout(p)
      PROVE adjustment' = ReleasedAdjustments(p)
  BY <1>7 DEF CarryForwardPayout
<1> QED
  BY <1>1, <1>2, <1>3, <1>4, <1>5, <1>6, <1>7 DEF LedgerNext, Bookkeeping, ReconcileReversed

\* Deductions are for reversed orders, in payouts of their kiosk: kept by every step.
LEMMA NextDeductionsFit == RowsInv /\ [LedgerNext]_ledgerVars => DeductionsFit'
<1> SUFFICES ASSUME RowsInv, [LedgerNext]_ledgerVars, NEW e \in Event, adjustment'[e].exists
             PROVE  /\ event'[e].status = "REVERSED"
                    /\ adjustment'[e].payout # None =>
                         /\ payout'[adjustment'[e].payout].status # "absent"
                         /\ payout'[adjustment'[e].payout].kiosk = EventKiosk[e]
  BY DEF DeductionsFit
<1>0. TypeOK BY DEF RowsInv, LedgerInv
<1>1. adjustment[e].exists => event'[e].status = "REVERSED"
  BY <1>0, ReversedStays DEF RowsInv, DeductionsFit
<1>2. CASE adjustment'[e] = adjustment[e]
  <2> DEFINE p == adjustment[e].payout
  <2>1. CASE p = None BY <1>1, <1>2, <2>1
  <2>2. CASE p # None
    <3>1. p \in Payout /\ payout[p].status # "absent" /\ payout[p].kiosk = EventKiosk[e]
      BY <1>2, <2>2 DEF RowsInv, DeductionsFit, LedgerInv, TypeOK, AdjustmentRow
    <3>2. payout'[p].status # "absent" /\ payout'[p].kiosk = payout[p].kiosk
      BY <1>0, <3>1, PayoutSteps DEF TypeOK, PayoutRow, GeneratePayout
    <3> QED BY <1>1, <1>2, <3>1, <3>2
  <2> QED BY <2>1, <2>2
<1> QED BY <1>0, <1>1, <1>2, DeductionSteps

\* What is known of single rows is kept by every step.
LEMMA NextRows == RowsInv /\ [LedgerNext]_ledgerVars => RowsInv'
<1>1. LedgerInv /\ [LedgerNext]_ledgerVars => LedgerInv'
  BY NextTypeOK, NextPayoutHasKiosk, NextAttachedToPayout, NextPayable DEF LedgerInv
<1> QED BY <1>1, NextAbsentEmpty, NextSharesNatural, NextDeductionsFit DEF RowsInv

-----------------------------------------------------------------------------
(* Sums of the ledger *)

\* What generatePayouts and processPayout add up, as sums over all orders.
LEMMA KioskSums ==
  ASSUME TypeOK, NEW k \in Kiosk
  PROVE /\ SumShares(Sweepable(k)) = OfEvents(Unswept(event, k))
        /\ SumAdjustments(OpenAdjustments(k)) = OfEvents(Debt(adjustment, k))
BY KioskIsSum

\* Sums over orders: same values.
LEMMA EventsSame ==
  ASSUME NEW f, NEW g, \A e \in Event : f[e] = g[e]
  PROVE  OfEvents(f) = OfEvents(g)
BY FiniteAssumption, SumCongruent DEF OfEvents

\* Sums over orders: one changes.
LEMMA EventsPoint ==
  ASSUME NEW f, NEW g, NEW e \in Event,
         \A x \in Event : f[x] \in Int /\ g[x] \in Int,
         \A x \in Event \ {e} : f[x] = g[x]
  PROVE  OfEvents(g) = OfEvents(f) + (g[e] - f[e])
BY FiniteAssumption, SumPoint DEF OfEvents

\* Sums over orders: added up.
LEMMA EventsPlus ==
  ASSUME NEW f, NEW g, NEW h,
         \A x \in Event : f[x] \in Int /\ g[x] \in Int /\ h[x] = f[x] + g[x]
  PROVE  OfEvents(h) = OfEvents(f) + OfEvents(g)
BY FiniteAssumption, SumPlus DEF OfEvents

\* Sums over orders: zeros.
LEMMA EventsZero ==
  ASSUME NEW f, \A x \in Event : f[x] = 0
  PROVE  OfEvents(f) = 0
BY FiniteAssumption, SumZero DEF OfEvents

\* Sums over orders: integers.
LEMMA EventsInt ==
  ASSUME NEW f, \A x \in Event : f[x] \in Int
  PROVE  OfEvents(f) \in Int
BY FiniteAssumption, SumInt DEF OfEvents

\* Sums over payouts: same values.
LEMMA PayoutsSame ==
  ASSUME NEW f, NEW g, \A p \in Payout : f[p] = g[p]
  PROVE  OfPayouts(f) = OfPayouts(g)
BY FiniteAssumption, SumCongruent DEF OfPayouts

\* Sums over payouts: one changes.
LEMMA PayoutsPoint ==
  ASSUME NEW f, NEW g, NEW p \in Payout,
         \A x \in Payout : f[x] \in Int /\ g[x] \in Int,
         \A x \in Payout \ {p} : f[x] = g[x]
  PROVE  OfPayouts(g) = OfPayouts(f) + (g[p] - f[p])
BY FiniteAssumption, SumPoint DEF OfPayouts

\* Sums over payouts: integers.
LEMMA PayoutsInt ==
  ASSUME NEW f, \A x \in Payout : f[x] \in Int
  PROVE  OfPayouts(f) \in Int
BY FiniteAssumption, SumInt DEF OfPayouts

\* The sums of the two equations are integers.
LEMMA SumsInt ==
  ASSUME TypeOK
  PROVE  /\ \A p \in Payout : /\ payout[p].total \in Int
                              /\ OfEvents(Held(event, adjustment, p)) \in Int
                              /\ OfEvents(Absorbed(adjustment, p)) \in Int
         /\ \A k \in Kiosk : /\ OfEvents(Worth(event, k)) \in Int
                             /\ OfEvents(Unswept(event, k)) \in Int
                             /\ OfEvents(Debt(adjustment, k)) \in Int
                             /\ OfPayouts(Carried(payout, k)) \in Int
<1>1. Amount \subseteq Int BY LedgerAssumption DEF Amount
<1>2. \A p \in Payout : payout[p].total \in Int BY <1>1 DEF TypeOK, PayoutRow
<1>3. ASSUME NEW p \in Payout
      PROVE /\ OfEvents(Held(event, adjustment, p)) \in Int
            /\ OfEvents(Absorbed(adjustment, p)) \in Int
  BY PartsInt, EventsInt
<1>4. ASSUME NEW k \in Kiosk
      PROVE /\ OfEvents(Worth(event, k)) \in Int
            /\ OfEvents(Unswept(event, k)) \in Int
            /\ OfEvents(Debt(adjustment, k)) \in Int
            /\ OfPayouts(Carried(payout, k)) \in Int
  BY PartsInt, EventsInt, PayoutsInt
<1> QED BY <1>2, <1>3, <1>4

\* An order outside every payout changes: only its kiosk's earnings and unswept amount do.
LEMMA UnattachedStep ==
  ASSUME MoneyInv, TypeOK', NEW e \in Event,
         \A f \in Event \ {e} : event'[f] = event[f],
         event[e].payout = None, event'[e].payout = None,
         UNCHANGED <<adjustment, payout>>
  PROVE  BooksOk'
<1>0. TypeOK BY DEF MoneyInv, RowsInv, LedgerInv
<1>1. ASSUME NEW p \in Payout
      PROVE  payout'[p].total = OfEvents(Held(event', adjustment', p))
                                      + OfEvents(Absorbed(adjustment', p))
  <2>1. \A f \in Event : Held(event, adjustment, p)[f] = Held(event', adjustment', p)[f]
    BY LedgerAssumption DEF Held
  <2>2. OfEvents(Held(event, adjustment, p)) = OfEvents(Held(event', adjustment', p))
    BY <2>1, EventsSame
  <2> QED BY <2>2 DEF MoneyInv, TotalsAdd
<1>2. ASSUME NEW k \in Kiosk
      PROVE  OfEvents(Worth(event', k)) = OfPayouts(Carried(payout', k))
                                + OfEvents(Unswept(event', k)) + OfEvents(Debt(adjustment', k))
  <2> DEFINE w == Worth(event, k)  w1 == Worth(event', k)
             u == Unswept(event, k) u1 == Unswept(event', k)
  <2>1. \A f \in Event : w[f] \in Int /\ u[f] \in Int /\ w1[f] \in Int /\ u1[f] \in Int
    BY <1>0, PartsInt, PartsInt1
  <2>2. \A f \in Event \ {e} : w[f] = w1[f] /\ u[f] = u1[f] BY DEF Worth, Unswept
  <2>3. w1[e] = u1[e] /\ w[e] = u[e] BY DEF Worth, Unswept
  <2>4. OfEvents(w) = OfPayouts(Carried(payout, k)) + OfEvents(u) + OfEvents(Debt(adjustment, k))
    BY DEF MoneyInv, AccountsBalance
  <2>5. /\ OfPayouts(Carried(payout, k)) \in Int /\ OfEvents(u) \in Int /\ OfEvents(w) \in Int
        /\ OfEvents(Debt(adjustment, k)) \in Int
    BY <1>0, SumsInt
  <2> HIDE DEF w, w1, u, u1
  <2>6. /\ OfEvents(w1) = OfEvents(w) + (w1[e] - w[e])
        /\ OfEvents(u1) = OfEvents(u) + (u1[e] - u[e])
    BY <2>1, <2>2, EventsPoint
  <2>7. w[e] \in Int /\ u[e] \in Int /\ w1[e] \in Int /\ u1[e] \in Int BY <2>1
  <2>8. OfEvents(w1) = OfPayouts(Carried(payout, k)) + OfEvents(u1) + OfEvents(Debt(adjustment, k))
    BY <2>3, <2>4, <2>5, <2>6, <2>7
  <2> QED BY <2>8 DEF w1, u1
<1>3. UnpaidPositive' BY DEF MoneyInv, UnpaidPositive
<1> QED BY <1>1, <1>2, <1>3, PrimedParts DEF BooksOk

\* reconcileEvent on an order in an unclaimed payout that stays worth something.
LEMMA ReducedStep ==
  ASSUME MoneyInv, TypeOK', NEW e \in Event, NEW p \in Payout,
         event[e].payout = p, payout[p].status = "PENDING",
         event[e].status \in {"PENDING", "CONFIRMED"},
         payout[p].total - event[e].share > 0,
         payout' = [payout EXCEPT ![p].total = payout[p].total - event[e].share],
         event' = [event EXCEPT ![e] = [status |-> "REVERSED", share |-> 0, payout |-> None]],
         UNCHANGED adjustment
  PROVE  BooksOk'
<1> DEFINE share == event[e].share
           total == payout[p].total
<1>0. TypeOK BY DEF MoneyInv, RowsInv, LedgerInv
<1>1. /\ event[e].status = "CONFIRMED" /\ e \notin TestEvent
      /\ payout[p].kiosk = EventKiosk[e] /\ ~adjustment[e].exists
  BY LedgerAssumption, <1>0 DEF MoneyInv, RowsInv, LedgerInv, PayableIsConfirmed, DeductionsFit
<1>2. /\ event'[e].status = "REVERSED" /\ event'[e].share = 0 /\ event'[e].payout = None
      /\ \A f \in Event \ {e} : event'[f] = event[f]
  BY <1>0 DEF TypeOK
<1>3. /\ payout'[p].total = total - share
      /\ \A q \in Payout : /\ payout'[q].kiosk = payout[q].kiosk
                           /\ payout'[q].status = payout[q].status
      /\ \A q \in Payout \ {p} : payout'[q] = payout[q]
  <2> HIDE DEF total, share
  <2>1. payout' = [payout EXCEPT ![p].total = total - share] BY DEF total, share
  <2> QED BY <1>0, <2>1 DEF TypeOK, PayoutRow
<1>4. share \in Int /\ total \in Int
  BY <1>0, LedgerAssumption DEF TypeOK, EventRow, PayoutRow, Amount
<1>5. ASSUME NEW q \in Payout
      PROVE  payout'[q].total = OfEvents(Held(event', adjustment', q))
                                      + OfEvents(Absorbed(adjustment', q))
  <2> DEFINE h == Held(event, adjustment, q)
             h1 == Held(event', adjustment, q)
  <2>1. \A f \in Event : h[f] \in Int /\ h1[f] \in Int BY <1>0, PartsInt, PartsInt1
  <2>2. \A f \in Event \ {e} : h[f] = h1[f] BY <1>2 DEF Held
  <2>3. h1[e] = 0 /\ h[e] = IF q = p THEN share ELSE 0
    BY <1>1, <1>2, LedgerAssumption DEF Held
  <2>4. OfEvents(h1) = OfEvents(h) + (h1[e] - h[e])
    <3> HIDE DEF h, h1
    <3> QED BY <2>1, <2>2, EventsPoint
  <2>5. payout[q].total = OfEvents(h) + OfEvents(Absorbed(adjustment, q))
    BY DEF MoneyInv, TotalsAdd
  <2>6. payout[q].total \in Int /\ OfEvents(h) \in Int /\ OfEvents(Absorbed(adjustment, q)) \in Int
    BY <1>0, SumsInt
  <2>7. payout'[q].total = IF q = p THEN total - share ELSE payout[q].total
    BY <1>3
  <2>8. payout'[q].total = OfEvents(h1) + OfEvents(Absorbed(adjustment, q))
    <3> HIDE DEF h, h1, share
    <3> QED BY <2>3, <2>4, <2>5, <2>6, <2>7, <1>4
  <2> QED BY <2>8
<1>6. ASSUME NEW k \in Kiosk
      PROVE  OfEvents(Worth(event', k)) = OfPayouts(Carried(payout', k))
                                + OfEvents(Unswept(event', k)) + OfEvents(Debt(adjustment', k))
  <2> DEFINE w == Worth(event, k)  w1 == Worth(event', k)
             u == Unswept(event, k) u1 == Unswept(event', k)
             c == Carried(payout, k) c1 == Carried(payout', k)
             d == Debt(adjustment, k)
  <2>1. \A f \in Event : w[f] \in Int /\ w1[f] \in Int BY <1>0, PartsInt, PartsInt1
  <2>2. \A q \in Payout : c[q] \in Int /\ c1[q] \in Int BY <1>0, PartsInt, PartsInt1
  <2>3. \A f \in Event \ {e} : w[f] = w1[f] BY <1>2 DEF Worth
  <2>4. \A f \in Event : u[f] = u1[f] BY <1>2, LedgerAssumption DEF Unswept
  <2>5. \A q \in Payout \ {p} : c[q] = c1[q] BY <1>3 DEF Carried
  <2>6. w1[e] = 0 /\ w[e] = (IF k = payout[p].kiosk THEN share ELSE 0) BY <1>1, <1>2 DEF Worth
  <2>7. /\ c1[p] = (IF k = payout[p].kiosk THEN total - share ELSE 0)
        /\ c[p] = (IF k = payout[p].kiosk THEN total ELSE 0)
    BY <1>3 DEF Carried
  <2>8. OfEvents(w) = OfPayouts(c) + OfEvents(u) + OfEvents(d)
    BY DEF MoneyInv, AccountsBalance
  <2>9. OfPayouts(c) \in Int /\ OfEvents(u) \in Int /\ OfEvents(w) \in Int /\ OfEvents(d) \in Int
    BY <1>0, SumsInt
  <2> HIDE DEF w, w1, u, u1, c, c1, d
  <2>10. OfEvents(w1) = OfEvents(w) + (w1[e] - w[e]) BY <2>1, <2>3, EventsPoint
  <2>11. OfPayouts(c1) = OfPayouts(c) + (c1[p] - c[p]) BY <2>2, <2>5, PayoutsPoint
  <2>12. OfEvents(u1) = OfEvents(u) BY <2>4, EventsSame
  <2>13. OfEvents(w1) = OfPayouts(c1) + OfEvents(u1) + OfEvents(d)
    <3> HIDE DEF share, total
    <3> QED BY <2>6, <2>7, <2>8, <2>9, <2>10, <2>11, <2>12, <1>4
  <2> QED BY <2>13 DEF w1, u1, c1, d
<1>7. UnpaidPositive'
  BY <1>3 DEF MoneyInv, UnpaidPositive
<1> QED BY <1>5, <1>6, <1>7, PrimedParts DEF BooksOk

\* reconcileEvent on an order of a claimed payout: its share becomes a deduction.
LEMMA DeductedStep ==
  ASSUME MoneyInv, TypeOK', NEW e \in Event, ReconcileReversedClaimed(e)
  PROVE  BooksOk'
<1> DEFINE share == event[e].share
           p == event[e].payout
<1>0. TypeOK BY DEF MoneyInv, RowsInv, LedgerInv
<1>1. /\ p \in Payout /\ event[e].status = "CONFIRMED" /\ e \notin TestEvent
      /\ payout[p].kiosk = EventKiosk[e] /\ ~adjustment[e].exists
  BY <1>0, LedgerAssumption DEF MoneyInv, RowsInv, LedgerInv, PayableIsConfirmed,
     DeductionsFit, ReconcileReversedClaimed, TypeOK, EventRow
<1>2. share \in Nat
  BY <1>0, LedgerAssumption DEF MoneyInv, RowsInv, SharesNatural, TypeOK, EventRow, Amount
<1>3. /\ event'[e].status = "REVERSED" /\ event'[e].share = 0 /\ event'[e].payout = p
      /\ \A f \in Event \ {e} : event'[f] = event[f]
  BY <1>0 DEF ReconcileReversedClaimed, TypeOK, EventRow
<1>4. /\ \A f \in Event \ {e} : adjustment'[f] = adjustment[f]
      /\ \/ share > 0 /\ adjustment'[e] = [exists |-> TRUE, amount |-> -share, payout |-> None]
         \/ share = 0 /\ adjustment'[e] = adjustment[e]
  <2>1. CASE /\ share > 0
             /\ adjustment' = [adjustment EXCEPT ![e] =
                            [exists |-> TRUE, amount |-> -event[e].share,
                             payout |-> None]]
    BY <2>1, <1>0 DEF TypeOK
  <2>2. CASE adjustment' = adjustment /\ share = 0
    BY <2>2
  <2> QED BY <1>1, <2>1, <2>2 DEF ReconcileReversedClaimed
<1>5. payout' = payout BY DEF ReconcileReversedClaimed
<1>6. ASSUME NEW q \in Payout
      PROVE  payout'[q].total = OfEvents(Held(event', adjustment', q))
                                      + OfEvents(Absorbed(adjustment', q))
  <2>1. \A f \in Event \ {e} : Held(event, adjustment, q)[f] = Held(event', adjustment', q)[f]
    BY <1>3, <1>4 DEF Held
  <2>2. Held(event', adjustment', q)[e] = Held(event, adjustment, q)[e]
    <3>1. Held(event, adjustment, q)[e] = IF p = q THEN share ELSE 0
      BY <1>1 DEF Held
    <3>2. Held(event', adjustment', q)[e] = IF p = q THEN share ELSE 0
      <4>1. CASE share = 0 /\ adjustment'[e] = adjustment[e]
        BY <4>1, <1>1, <1>3 DEF Held
      <4>2. CASE adjustment'[e] = [exists |-> TRUE, amount |-> -share, payout |-> None]
        <5>1. adjustment'[e].exists /\ -adjustment'[e].amount = share BY <4>2, <1>2
        <5> HIDE DEF share, p
        <5> QED BY <5>1, <1>3 DEF Held
      <4> QED BY <4>1, <4>2, <1>4
    <3> QED BY <3>1, <3>2
  <2>3. \A f \in Event : Absorbed(adjustment, q)[f] = Absorbed(adjustment', q)[f]
    BY <1>1, <1>4, LedgerAssumption DEF Absorbed
  <2>4. OfEvents(Held(event, adjustment, q)) = OfEvents(Held(event', adjustment', q))
    BY <2>1, <2>2, EventsSame
  <2>5. OfEvents(Absorbed(adjustment, q)) = OfEvents(Absorbed(adjustment', q))
    BY <2>3, EventsSame
  <2> QED BY <2>4, <2>5, <1>5 DEF MoneyInv, TotalsAdd
<1>7. ASSUME NEW k \in Kiosk
      PROVE  OfEvents(Worth(event', k)) = OfPayouts(Carried(payout', k))
                                + OfEvents(Unswept(event', k)) + OfEvents(Debt(adjustment', k))
  <2> DEFINE w == Worth(event, k)  w1 == Worth(event', k)
             u == Unswept(event, k) u1 == Unswept(event', k)
             c == Carried(payout, k)
             d == Debt(adjustment, k) d1 == Debt(adjustment', k)
  <2>1. \A f \in Event : w[f] \in Int /\ w1[f] \in Int /\ d[f] \in Int /\ d1[f] \in Int
    BY <1>0, PartsInt, PartsInt1
  <2>2. \A f \in Event \ {e} : w[f] = w1[f] BY <1>3 DEF Worth
  <2>3. \A f \in Event \ {e} : d[f] = d1[f] BY <1>4 DEF Debt
  <2>4. \A f \in Event : u[f] = u1[f] BY <1>1, <1>3, LedgerAssumption DEF Unswept
  <2>5. w1[e] = 0 /\ w[e] = (IF k = EventKiosk[e] THEN share ELSE 0) BY <1>1, <1>3 DEF Worth
  <2>6. d1[e] = (IF k = EventKiosk[e] THEN -share ELSE 0) /\ d[e] = 0
    <3>1. CASE share = 0 /\ adjustment'[e] = adjustment[e]
      BY <3>1, <1>1 DEF Debt
    <3>2. CASE adjustment'[e] = [exists |-> TRUE, amount |-> -share, payout |-> None]
      BY <3>2, <1>1 DEF Debt
    <3> QED BY <3>1, <3>2, <1>4
  <2>8. OfEvents(w) = OfPayouts(c) + OfEvents(u) + OfEvents(d)
    BY DEF MoneyInv, AccountsBalance
  <2>9. OfPayouts(c) \in Int /\ OfEvents(u) \in Int /\ OfEvents(w) \in Int /\ OfEvents(d) \in Int
    BY <1>0, SumsInt
  <2> HIDE DEF w, w1, u, u1, c, d, d1
  <2>10. OfEvents(w1) = OfEvents(w) + (w1[e] - w[e]) BY <2>1, <2>2, EventsPoint
  <2>11. OfEvents(d1) = OfEvents(d) + (d1[e] - d[e]) BY <2>1, <2>3, EventsPoint
  <2>12. OfEvents(u1) = OfEvents(u) BY <2>4, EventsSame
  <2>13. OfEvents(w1) = OfPayouts(c) + OfEvents(u1) + OfEvents(d1)
    <3> HIDE DEF share
    <3> QED BY <2>5, <2>6, <2>8, <2>9, <2>10, <2>11, <2>12, <1>2
  <2> QED BY <2>13, <1>5 DEF w1, u1, c, d1
<1>8. UnpaidPositive'
  BY <1>5 DEF MoneyInv, UnpaidPositive
<1> QED BY <1>6, <1>7, <1>8, PrimedParts DEF BooksOk

\* An unclaimed payout gives all its rows back; gone are the orders reversed in the same step.
LEMMA ClosedStep ==
  ASSUME MoneyInv, TypeOK', NEW p \in Payout, payout[p].status = "PENDING",
         payout' = ClosedEmpty(p), adjustment' = ReleasedAdjustments(p),
         NEW gone \in SUBSET Event,
         \A e \in gone : event[e].payout = p,
         \A e \in gone : event'[e] = [status |-> "REVERSED", share |-> 0, payout |-> None],
         \A e \in Event \ gone : event'[e] = ReleasedEvents(p)[e]
  PROVE  BooksOk'
<1> DEFINE k0 == payout[p].kiosk
<1>0. TypeOK BY DEF MoneyInv, RowsInv, LedgerInv
<1>1. \A e \in Event : event[e].payout = p =>
         /\ event[e].status = "CONFIRMED" /\ e \notin TestEvent
         /\ EventKiosk[e] = k0 /\ ~adjustment[e].exists
  BY LedgerAssumption DEF MoneyInv, RowsInv, LedgerInv, PayableIsConfirmed, DeductionsFit, Claimed
<1>2. \A e \in Event : adjustment[e].exists /\ adjustment[e].payout = p => EventKiosk[e] = k0
  BY LedgerAssumption DEF MoneyInv, RowsInv, DeductionsFit
<1>3. \A e \in Event : /\ adjustment'[e].exists = adjustment[e].exists
                       /\ adjustment'[e].amount = adjustment[e].amount
                       /\ adjustment'[e].payout = IF adjustment[e].payout = p THEN None
                                                  ELSE adjustment[e].payout
  BY <1>0 DEF TypeOK, AdjustmentRow, ReleasedAdjustments
<1>4. \A e \in Event \ gone :
         /\ event'[e].status = event[e].status
         /\ event'[e].share = event[e].share
         /\ event'[e].payout = IF event[e].payout = p THEN None ELSE event[e].payout
  BY <1>0 DEF TypeOK, EventRow, ReleasedEvents
<1>5. /\ payout'[p].total = 0 /\ payout'[p].status = "FAILED"
      /\ \A q \in Payout : payout'[q].kiosk = payout[q].kiosk
      /\ \A q \in Payout \ {p} : payout'[q] = payout[q]
  BY <1>0 DEF TypeOK, PayoutRow, ClosedEmpty
<1>6. ASSUME NEW q \in Payout
      PROVE  payout'[q].total = OfEvents(Held(event', adjustment', q))
                                      + OfEvents(Absorbed(adjustment', q))
  <2> DEFINE h1 == Held(event', adjustment', q)
             a1 == Absorbed(adjustment', q)
  <2>1. CASE q = p
    <3>1. \A e \in Event : h1[e] = 0 BY <2>1, <1>4, LedgerAssumption DEF Held
    <3>2. \A e \in Event : a1[e] = 0 BY <2>1, <1>3, LedgerAssumption DEF Absorbed
    <3> HIDE DEF h1, a1
    <3>3. OfEvents(h1) = 0 /\ OfEvents(a1) = 0 BY <3>1, <3>2, EventsZero
    <3>4. payout'[q].total = OfEvents(h1) + OfEvents(a1) BY <3>3, <1>5, <2>1
    <3> QED BY <3>4 DEF h1, a1
  <2>2. CASE q # p
    <3>1. \A e \in Event : Held(event, adjustment, q)[e] = h1[e]
      BY <2>2, <1>3, <1>4, LedgerAssumption DEF Held
    <3>2. \A e \in Event : Absorbed(adjustment, q)[e] = a1[e]
      BY <2>2, <1>3, LedgerAssumption DEF Absorbed
    <3> HIDE DEF h1, a1
    <3>3. /\ OfEvents(Held(event, adjustment, q)) = OfEvents(h1)
          /\ OfEvents(Absorbed(adjustment, q)) = OfEvents(a1)
      BY <3>1, <3>2, EventsSame
    <3>4. payout'[q].total = OfEvents(h1) + OfEvents(a1)
      BY <3>3, <1>5, <2>2 DEF MoneyInv, TotalsAdd
    <3> QED BY <3>4 DEF h1, a1
  <2> QED BY <2>1, <2>2
<1>7. ASSUME NEW k \in Kiosk
      PROVE  OfEvents(Worth(event', k)) = OfPayouts(Carried(payout', k))
                                + OfEvents(Unswept(event', k)) + OfEvents(Debt(adjustment', k))
  <2> DEFINE w == Worth(event, k)  w1 == Worth(event', k)
             u == Unswept(event, k) u1 == Unswept(event', k)
             c == Carried(payout, k) c1 == Carried(payout', k)
             d == Debt(adjustment, k) d1 == Debt(adjustment', k)
  <2>1. OfEvents(w) = OfPayouts(c) + OfEvents(u) + OfEvents(d)
    BY DEF MoneyInv, AccountsBalance
  <2>2. OfPayouts(c) \in Int /\ OfEvents(u) \in Int /\ OfEvents(w) \in Int /\ OfEvents(d) \in Int
    BY <1>0, SumsInt
  <2>3. /\ \A e \in Event : w[e] \in Int /\ u[e] \in Int /\ d[e] \in Int
        /\ \A e \in Event : w1[e] \in Int /\ u1[e] \in Int /\ d1[e] \in Int
        /\ \A q \in Payout : c[q] \in Int /\ c1[q] \in Int
    BY <1>0, PartsInt, PartsInt1
  <2>4. CASE k # k0
    <3>1. \A e \in Event : w[e] = w1[e] /\ u[e] = u1[e]
      BY <2>4, <1>1, <1>4 DEF Worth, Unswept
    <3>2. \A e \in Event : d[e] = d1[e] BY <2>4, <1>2, <1>3 DEF Debt
    <3>3. \A q \in Payout : c[q] = c1[q] BY <2>4, <1>5 DEF Carried
    <3> HIDE DEF w, w1, u, u1, c, c1, d, d1
    <3>4. /\ OfEvents(w) = OfEvents(w1) /\ OfEvents(u) = OfEvents(u1)
          /\ OfEvents(d) = OfEvents(d1) /\ OfPayouts(c) = OfPayouts(c1)
      BY <3>1, <3>2, <3>3, EventsSame, PayoutsSame
    <3>5. OfEvents(w1) = OfPayouts(c1) + OfEvents(u1) + OfEvents(d1) BY <3>4, <2>1
    <3> QED BY <3>5 DEF w1, u1, c1, d1
  <2>5. CASE k = k0
    <3> DEFINE h == Held(event, adjustment, p)
               a == Absorbed(adjustment, p)
               g == [e \in Event |-> IF e \in gone THEN event[e].share ELSE 0]
               uh == [e \in Event |-> u[e] + h[e]]
               w1g == [e \in Event |-> w1[e] + g[e]]
               u1g == [e \in Event |-> u1[e] + g[e]]
    <3>1. \A e \in Event : h[e] \in Int /\ a[e] \in Int BY <1>0, PartsInt
    <3>2. \A e \in Event : g[e] \in Int
      BY <1>0, LedgerAssumption DEF TypeOK, EventRow, Amount
    <3>3. \A e \in Event : w[e] = w1[e] + g[e]
      <4>1. ASSUME NEW e \in gone PROVE w[e] = w1[e] + g[e]
        <5>1. w[e] = event[e].share /\ w1[e] = 0 /\ g[e] = event[e].share
          BY <2>5, <1>1 DEF Worth
        <5> QED BY <5>1, <3>2
      <4>2. ASSUME NEW e \in Event \ gone PROVE w[e] = w1[e] + g[e]
        <5>1. w[e] = w1[e] /\ g[e] = 0 BY <1>4 DEF Worth
        <5> QED BY <5>1, <2>3
      <4> QED BY <4>1, <4>2
    <3>4. \A e \in Event : u1[e] + g[e] = u[e] + h[e]
      <4>1. ASSUME NEW e \in gone PROVE u1[e] + g[e] = u[e] + h[e]
        <5>1. event[e].payout = p /\ p # None BY LedgerAssumption
        <5>2. u1[e] = 0 /\ u[e] = 0 BY <5>1 DEF Unswept
        <5>3. h[e] = event[e].share /\ g[e] = event[e].share BY <5>1, <1>1 DEF Held
        <5> QED BY <5>2, <5>3, <3>2
      <4>2. ASSUME NEW e \in Event \ gone, event[e].payout = p PROVE u1[e] + g[e] = u[e] + h[e]
        <5>1. u1[e] = event[e].share /\ u[e] = 0
          BY <4>2, <2>5, <1>1, <1>4, LedgerAssumption DEF Unswept
        <5>2. h[e] = event[e].share /\ g[e] = 0 BY <4>2, <1>1 DEF Held
        <5> QED BY <5>1, <5>2, <2>3, <3>1
      <4>3. ASSUME NEW e \in Event \ gone, event[e].payout # p PROVE u1[e] + g[e] = u[e] + h[e]
        <5>1. u1[e] = u[e] /\ h[e] = 0 /\ g[e] = 0 BY <4>3, <1>4 DEF Unswept, Held
        <5> QED BY <5>1, <2>3
      <4> QED BY <4>1, <4>2, <4>3
    <3>5. \A e \in Event : d1[e] = d[e] + a[e]
      <4> TAKE e \in Event
      <4>1. CASE adjustment[e].exists /\ adjustment[e].payout = p
        <5>1. d1[e] = adjustment[e].amount /\ d[e] = 0 /\ a[e] = adjustment[e].amount
          BY <4>1, <1>2, <1>3, <2>5, LedgerAssumption DEF Debt, Absorbed
        <5> QED BY <5>1, <3>1
      <4>2. CASE ~(adjustment[e].exists /\ adjustment[e].payout = p)
        <5>1. d1[e] = d[e] /\ a[e] = 0 BY <4>2, <1>3 DEF Debt, Absorbed
        <5> QED BY <5>1, <2>3
      <4> QED BY <4>1, <4>2
    <3>6. /\ \A q \in Payout \ {p} : c[q] = c1[q]
          /\ c[p] = payout[p].total /\ c1[p] = 0
      BY <1>5, <2>5 DEF Carried
    <3>7. /\ payout[p].total = OfEvents(h) + OfEvents(a)
          /\ payout[p].total \in Int /\ OfEvents(h) \in Int /\ OfEvents(a) \in Int
      BY <1>0, SumsInt DEF MoneyInv, TotalsAdd
    <3>8. \A e \in Event : w1g[e] = w1[e] + g[e] /\ u1g[e] = u1[e] + g[e] /\ u1g[e] = u[e] + h[e]
      BY <3>4
    <3>9. \A e \in Event : w[e] = w1g[e] BY <3>3, <3>8
    <3> HIDE DEF w, w1, u, u1, c, c1, d, d1, h, a, g, uh, w1g, u1g
    <3>10. OfEvents(w) = OfEvents(w1) + OfEvents(g) BY <2>3, <3>2, <3>3, EventsPlus
    <3>11. OfEvents(u1g) = OfEvents(u1) + OfEvents(g) BY <2>3, <3>2, <3>8, EventsPlus
    <3>12. OfEvents(u1g) = OfEvents(u) + OfEvents(h) BY <2>3, <3>1, <3>8, EventsPlus
    <3>13. OfEvents(d1) = OfEvents(d) + OfEvents(a) BY <2>3, <3>1, <3>5, EventsPlus
    <3>14. OfPayouts(c1) = OfPayouts(c) + (c1[p] - c[p]) BY <2>3, <3>6, PayoutsPoint
    <3>15. /\ OfEvents(w1) \in Int /\ OfEvents(u1) \in Int /\ OfEvents(g) \in Int
      BY <2>3, <3>2, EventsInt
    <3>16. OfEvents(w1) = OfPayouts(c1) + OfEvents(u1) + OfEvents(d1)
      BY <2>1, <2>2, <3>6, <3>7, <3>10, <3>11, <3>12, <3>13, <3>14, <3>15
    <3> QED BY <3>16 DEF w1, u1, c1, d1
  <2> QED BY <2>4, <2>5
<1>8. UnpaidPositive'
  BY <1>5 DEF MoneyInv, UnpaidPositive
<1> QED BY <1>6, <1>7, <1>8, PrimedParts DEF BooksOk

\* generatePayouts: the unswept orders and open deductions of a kiosk move into a payout,
\* whose total is what they add up to.
LEMMA GeneratedStep ==
  ASSUME MoneyInv, TypeOK', NEW k0 \in Kiosk, NEW p \in Payout, GeneratePayout(k0, p)
  PROVE  BooksOk'
<1> DEFINE total == SumShares(Sweepable(k0)) + SumAdjustments(OpenAdjustments(k0))
<1>0. TypeOK BY DEF MoneyInv, RowsInv, LedgerInv
<1>1. /\ payout[p].status = "absent" /\ payout[p].total = 0 /\ p # None
      /\ \A e \in Event : event[e].payout # p
      /\ \A e \in Event : adjustment[e].exists => adjustment[e].payout # p
  BY LedgerAssumption DEF GeneratePayout, MoneyInv, RowsInv, LedgerInv, AbsentEmpty,
     AttachedToPayout, DeductionsFit
<1>2. /\ total = OfEvents(Unswept(event, k0)) + OfEvents(Debt(adjustment, k0)) /\ total \in Int
      /\ total > 0
  <2>1. total = OfEvents(Unswept(event, k0)) + OfEvents(Debt(adjustment, k0))
    BY <1>0, KioskSums
  <2>2. total > 0 BY DEF GeneratePayout
  <2> HIDE DEF total
  <2> QED BY <1>0, <2>1, <2>2, SumsInt
<1>3. /\ payout'[p] = [status |-> "PENDING", kiosk |-> k0, total |-> total, destination |-> None]
      /\ \A q \in Payout \ {p} : payout'[q] = payout[q]
  <2>1. payout' = [payout EXCEPT ![p] = [status |-> "PENDING", kiosk |-> k0, total |-> total,
                                          destination |-> None]]
    BY DEF GeneratePayout
  <2> HIDE DEF total
  <2> QED BY <1>0, <2>1 DEF TypeOK
<1>4. \A e \in Event : /\ event'[e].status = event[e].status
                       /\ event'[e].share = event[e].share
                       /\ event'[e].payout = IF e \in Sweepable(k0) THEN p ELSE event[e].payout
  BY <1>0 DEF GeneratePayout, TypeOK, EventRow
<1>5. \A e \in Event : /\ adjustment'[e].exists = adjustment[e].exists
                       /\ adjustment'[e].amount = adjustment[e].amount
                       /\ adjustment'[e].payout = IF e \in OpenAdjustments(k0) THEN p
                                                  ELSE adjustment[e].payout
  BY <1>0 DEF GeneratePayout, TypeOK, AdjustmentRow
<1>6. ASSUME NEW q \in Payout
      PROVE  payout'[q].total = OfEvents(Held(event', adjustment', q))
                                      + OfEvents(Absorbed(adjustment', q))
  <2> DEFINE h1 == Held(event', adjustment', q)
             a1 == Absorbed(adjustment', q)
  <2>1. CASE q = p
    <3>1. \A e \in Event : Unswept(event, k0)[e] = h1[e]
      <4> TAKE e \in Event
      <4>1. CASE e \in Sweepable(k0)
        BY <4>1, <2>1, <1>4 DEF Held, Unswept, Sweepable
      <4>2. CASE e \notin Sweepable(k0)
        <5>1. Unswept(event, k0)[e] = 0 BY <4>2 DEF Unswept, Sweepable
        <5>2. h1[e] = 0 BY <4>2, <2>1, <1>1, <1>4 DEF Held
        <5> QED BY <5>1, <5>2
      <4> QED BY <4>1, <4>2
    <3>2. \A e \in Event : Debt(adjustment, k0)[e] = a1[e]
      BY <2>1, <1>1, <1>5 DEF Absorbed, Debt, OpenAdjustments
    <3> HIDE DEF h1, a1
    <3>3. /\ OfEvents(Unswept(event, k0)) = OfEvents(h1)
          /\ OfEvents(Debt(adjustment, k0)) = OfEvents(a1)
      BY <3>1, <3>2, EventsSame
    <3>4. payout'[q].total = total BY <1>3, <2>1
    <3> HIDE DEF total
    <3>5. payout'[q].total = OfEvents(h1) + OfEvents(a1) BY <3>3, <3>4, <1>2
    <3> QED BY <3>5 DEF h1, a1
  <2>2. CASE q # p
    <3>1. \A e \in Event : Held(event, adjustment, q)[e] = h1[e]
      BY <2>2, <1>4, <1>5, LedgerAssumption DEF Held, Sweepable
    <3>2. \A e \in Event : Absorbed(adjustment, q)[e] = a1[e]
      BY <2>2, <1>5, LedgerAssumption DEF Absorbed, OpenAdjustments
    <3> HIDE DEF h1, a1
    <3>3. /\ OfEvents(Held(event, adjustment, q)) = OfEvents(h1)
          /\ OfEvents(Absorbed(adjustment, q)) = OfEvents(a1)
      BY <3>1, <3>2, EventsSame
    <3>4. payout'[q].total = OfEvents(h1) + OfEvents(a1)
      BY <3>3, <1>3, <2>2 DEF MoneyInv, TotalsAdd
    <3> QED BY <3>4 DEF h1, a1
  <2> QED BY <2>1, <2>2
<1>7. ASSUME NEW k \in Kiosk
      PROVE  OfEvents(Worth(event', k)) = OfPayouts(Carried(payout', k))
                                + OfEvents(Unswept(event', k)) + OfEvents(Debt(adjustment', k))
  <2> DEFINE w == Worth(event, k)  w1 == Worth(event', k)
             u == Unswept(event, k) u1 == Unswept(event', k)
             c == Carried(payout, k) c1 == Carried(payout', k)
             d == Debt(adjustment, k) d1 == Debt(adjustment', k)
  <2>1. OfEvents(w) = OfPayouts(c) + OfEvents(u) + OfEvents(d)
    BY DEF MoneyInv, AccountsBalance
  <2>2. OfPayouts(c) \in Int /\ OfEvents(u) \in Int /\ OfEvents(w) \in Int /\ OfEvents(d) \in Int
    BY <1>0, SumsInt
  <2>3. \A q \in Payout : c[q] \in Int /\ c1[q] \in Int
    BY <1>0, PartsInt, PartsInt1
  <2>4. \A e \in Event : w[e] = w1[e] BY <1>4 DEF Worth
  <2>5. /\ \A q \in Payout \ {p} : c[q] = c1[q]
        /\ c[p] = 0 /\ c1[p] = IF k = k0 THEN total ELSE 0
    <3> HIDE DEF total
    <3> QED BY <1>1, <1>3 DEF Carried
  <2>6. CASE k # k0
    <3>1. \A e \in Event : u[e] = u1[e] BY <2>6, <1>1, <1>4 DEF Unswept, Sweepable
    <3>2. \A e \in Event : d[e] = d1[e] BY <2>6, <1>1, <1>5 DEF Debt, OpenAdjustments
    <3> HIDE DEF w, w1, u, u1, c, c1, d, d1
    <3>3. OfEvents(w) = OfEvents(w1) /\ OfEvents(u) = OfEvents(u1) /\ OfEvents(d) = OfEvents(d1)
      BY <2>4, <3>1, <3>2, EventsSame
    <3>4. OfPayouts(c) = OfPayouts(c1) BY <2>5, <2>6, PayoutsSame
    <3>5. OfEvents(w1) = OfPayouts(c1) + OfEvents(u1) + OfEvents(d1) BY <3>3, <3>4, <2>1
    <3> QED BY <3>5 DEF w1, u1, c1, d1
  <2>7. CASE k = k0
    <3>1. \A e \in Event : u1[e] = 0 BY <2>7, <1>1, <1>4 DEF Unswept, Sweepable
    <3>2. \A e \in Event : d1[e] = 0 BY <2>7, <1>1, <1>5 DEF Debt, OpenAdjustments
    <3>3. total = OfEvents(u) + OfEvents(d) BY <1>2, <2>7
    <3> HIDE DEF w, w1, u, u1, c, c1, d, d1, total
    <3>4. OfEvents(w) = OfEvents(w1) BY <2>4, EventsSame
    <3>5. OfEvents(u1) = 0 /\ OfEvents(d1) = 0 BY <3>1, <3>2, EventsZero
    <3>6. OfPayouts(c1) = OfPayouts(c) + (c1[p] - c[p]) BY <2>3, <2>5, PayoutsPoint
    <3>7. OfEvents(w1) = OfPayouts(c1) + OfEvents(u1) + OfEvents(d1)
      BY <3>3, <3>4, <3>5, <3>6, <2>1, <2>2, <2>5, <2>7
    <3> QED BY <3>7 DEF w1, u1, c1, d1
  <2> QED BY <2>6, <2>7
<1>8. UnpaidPositive'
  <2> HIDE DEF total
  <2> QED BY <1>2, <1>3 DEF MoneyInv, UnpaidPositive
<1> QED BY <1>6, <1>7, <1>8, PrimedParts DEF BooksOk

\* processPayout's claim, row by row.
LEMMA ClaimFacts ==
  ASSUME RowsInv, NEW p \in Payout, ClaimPayout(p)
  PROVE  /\ payout[p].status = "PENDING" /\ payout[p].kiosk \in Kiosk
         /\ event' = event
         /\ ClaimTotal(p) = payout[p].total + OfEvents(Debt(adjustment, payout[p].kiosk))
         /\ ClaimTotal(p) > 0
         /\ payout'[p].total = ClaimTotal(p)
         /\ payout'[p].status = "PROCESSING"
         /\ payout'[p].kiosk = payout[p].kiosk
         /\ \A q \in Payout \ {p} : payout'[q] = payout[q]
         /\ \A e \in Event :
              /\ adjustment'[e].exists = adjustment[e].exists
              /\ adjustment'[e].amount = adjustment[e].amount
              /\ adjustment'[e].payout = IF e \in OpenAdjustments(payout[p].kiosk) THEN p
                                         ELSE adjustment[e].payout
<1>0. TypeOK BY DEF RowsInv, LedgerInv
<1>1. payout[p].status = "PENDING" /\ payout[p].kiosk \in Kiosk
  BY DEF ClaimPayout, Claimable, RowsInv, LedgerInv, PayoutHasKiosk
<1>2. ClaimTotal(p) = payout[p].total + OfEvents(Debt(adjustment, payout[p].kiosk))
  BY <1>0, <1>1, KioskSums DEF ClaimTotal
<1>3. /\ payout'[p].total = ClaimTotal(p)
      /\ payout'[p].status = "PROCESSING"
      /\ payout'[p].kiosk = payout[p].kiosk
      /\ \A q \in Payout \ {p} : payout'[q] = payout[q]
  <2> DEFINE total == ClaimTotal(p)
             account == kiosk[payout[p].kiosk].stripe
  <2>1. payout' = [payout EXCEPT ![p].status = "PROCESSING", ![p].total = total,
                                 ![p].destination = account]
    BY DEF ClaimPayout
  <2>2. payout[p] \in PayoutRow BY <1>0 DEF TypeOK
  <2> HIDE DEF total, account
  <2>3. payout'[p] = [payout[p] EXCEPT !.status = "PROCESSING", !.total = total,
                            !.destination = account]
    BY <2>1, <1>0 DEF TypeOK
  <2>4. payout'[p].total = total /\ payout'[p].status = "PROCESSING"
        /\ payout'[p].kiosk = payout[p].kiosk
    BY <2>2, <2>3 DEF PayoutRow
  <2> QED BY <2>1, <2>4, <1>0 DEF TypeOK, total
<1>4. \A e \in Event :
              /\ adjustment'[e].exists = adjustment[e].exists
              /\ adjustment'[e].amount = adjustment[e].amount
              /\ adjustment'[e].payout = IF e \in OpenAdjustments(payout[p].kiosk) THEN p
                                         ELSE adjustment[e].payout
  BY <1>0 DEF ClaimPayout, TypeOK, AdjustmentRow
<1>5. event' = event /\ ClaimTotal(p) > 0 BY DEF ClaimPayout
<1> QED BY <1>1, <1>2, <1>3, <1>4, <1>5

\* processPayout's claim: the open deductions of the kiosk move into the payout.
LEMMA ClaimedStep ==
  ASSUME MoneyInv, TypeOK', NEW p \in Payout, ClaimPayout(p)
  PROVE  BooksOk'
<1> DEFINE k0 == payout[p].kiosk
           total == ClaimTotal(p)
<1>0. TypeOK /\ RowsInv BY DEF MoneyInv, RowsInv, LedgerInv
<1>1. /\ payout[p].status = "PENDING" /\ k0 \in Kiosk /\ event' = event
      /\ total = payout[p].total + OfEvents(Debt(adjustment, k0))
      /\ total > 0
      /\ payout'[p].total = total
      /\ payout'[p].status = "PROCESSING"
      /\ payout'[p].kiosk = k0
      /\ \A q \in Payout \ {p} : payout'[q] = payout[q]
  BY <1>0, ClaimFacts
<1>2. \A e \in Event :
              /\ adjustment'[e].exists = adjustment[e].exists
              /\ adjustment'[e].amount = adjustment[e].amount
              /\ adjustment'[e].payout = IF e \in OpenAdjustments(k0) THEN p
                                         ELSE adjustment[e].payout
  BY <1>0, ClaimFacts
<1>3. p # None BY LedgerAssumption
<1>4. payout[p].total \in Int /\ OfEvents(Debt(adjustment, k0)) \in Int
  BY <1>0, <1>1, SumsInt
<1> HIDE DEF k0, total
<1>6. ASSUME NEW q \in Payout
      PROVE  payout'[q].total = OfEvents(Held(event', adjustment', q))
                                      + OfEvents(Absorbed(adjustment', q))
  <2> DEFINE h == Held(event, adjustment, q)
             h1 == Held(event', adjustment', q)
             a == Absorbed(adjustment, q)
             a1 == Absorbed(adjustment', q)
             d == Debt(adjustment, k0)
  <2>1. \A e \in Event : h[e] = h1[e] BY <1>1, <1>2 DEF Held
  <2>2. /\ payout[q].total = OfEvents(h) + OfEvents(a)
        /\ OfEvents(h) \in Int /\ OfEvents(a) \in Int
    BY <1>0, SumsInt DEF MoneyInv, TotalsAdd
  <2>3. \A e \in Event : a[e] \in Int /\ d[e] \in Int BY <1>0, <1>1, PartsInt
  <2>4. CASE q = p
    <3>1. \A e \in Event : a1[e] = a[e] + d[e]
      <4> TAKE e \in Event
      <4>1. CASE e \in OpenAdjustments(k0)
        <5>1. a1[e] = adjustment[e].amount /\ a[e] = 0 /\ d[e] = adjustment[e].amount
          BY <4>1, <2>4, <1>2, <1>3 DEF Absorbed, Debt, OpenAdjustments
        <5> QED BY <5>1, <2>3
      <4>2. CASE e \notin OpenAdjustments(k0)
        <5>1. d[e] = 0 BY <4>2 DEF Debt, OpenAdjustments
        <5>2. a1[e] = a[e] BY <4>2, <2>4, <1>2 DEF Absorbed
        <5> QED BY <5>1, <5>2, <2>3
      <4> QED BY <4>1, <4>2
    <3>2. total = payout[p].total + OfEvents(d) BY <1>1
    <3> HIDE DEF h, h1, a, a1, d
    <3>3. OfEvents(a1) = OfEvents(a) + OfEvents(d) BY <2>3, <3>1, EventsPlus
    <3>4. OfEvents(h) = OfEvents(h1) BY <2>1, EventsSame
    <3>5. OfEvents(d) \in Int BY <1>4 DEF d
    <3>6. payout'[q].total = OfEvents(h1) + OfEvents(a1)
      BY <3>2, <3>3, <3>4, <3>5, <2>2, <2>4, <1>1
    <3> QED BY <3>6 DEF h1, a1
  <2>5. CASE q # p
    <3>1. \A e \in Event : a[e] = a1[e]
      BY <2>5, <1>2, LedgerAssumption DEF Absorbed, OpenAdjustments
    <3> HIDE DEF h, h1, a, a1, d
    <3>2. OfEvents(h) = OfEvents(h1) /\ OfEvents(a) = OfEvents(a1)
      BY <2>1, <3>1, EventsSame
    <3>3. payout'[q].total = OfEvents(h1) + OfEvents(a1)
      BY <3>2, <2>2, <2>5, <1>1
    <3> QED BY <3>3 DEF h1, a1
  <2> QED BY <2>4, <2>5
<1>7. ASSUME NEW k \in Kiosk
      PROVE  OfEvents(Worth(event', k)) = OfPayouts(Carried(payout', k))
                                + OfEvents(Unswept(event', k)) + OfEvents(Debt(adjustment', k))
  <2> DEFINE w == Worth(event, k)
             u == Unswept(event, k)
             c == Carried(payout, k) c1 == Carried(payout', k)
             d == Debt(adjustment, k) d1 == Debt(adjustment', k)
  <2>1. OfEvents(w) = OfPayouts(c) + OfEvents(u) + OfEvents(d)
    BY DEF MoneyInv, AccountsBalance
  <2>2. OfPayouts(c) \in Int /\ OfEvents(u) \in Int /\ OfEvents(w) \in Int /\ OfEvents(d) \in Int
    BY <1>0, SumsInt
  <2>3. \A q \in Payout : c[q] \in Int /\ c1[q] \in Int
    BY <1>0, PartsInt, PartsInt1
  <2>5. /\ \A q \in Payout \ {p} : c[q] = c1[q]
        /\ c[p] = (IF k = k0 THEN payout[p].total ELSE 0)
        /\ c1[p] = IF k = k0 THEN total ELSE 0
    BY <1>1 DEF Carried, k0
  <2>6. CASE k # k0
    <3>2. \A e \in Event : d[e] = d1[e] BY <2>6, <1>2, <1>3 DEF Debt, OpenAdjustments
    <3> HIDE DEF w, u, c, c1, d, d1
    <3>3. OfEvents(d) = OfEvents(d1) BY <3>2, EventsSame
    <3>4. OfPayouts(c) = OfPayouts(c1) BY <2>5, <2>6, PayoutsSame
    <3>5. OfEvents(w) = OfPayouts(c1) + OfEvents(u) + OfEvents(d1) BY <3>3, <3>4, <2>1
    <3> QED BY <3>5, <1>1 DEF w, u, c1, d1
  <2>7. CASE k = k0
    <3>2. \A e \in Event : d1[e] = 0 BY <2>7, <1>2, <1>3 DEF Debt, OpenAdjustments
    <3>3. total = payout[p].total + OfEvents(d) BY <1>1, <2>7
    <3> HIDE DEF w, u, c, c1, d, d1
    <3>5. OfEvents(d1) = 0 BY <3>2, EventsZero
    <3>6. OfPayouts(c1) = OfPayouts(c) + (c1[p] - c[p]) BY <2>3, <2>5, PayoutsPoint
    <3>7. OfEvents(w) = OfPayouts(c1) + OfEvents(u) + OfEvents(d1)
      BY <3>3, <3>5, <3>6, <2>1, <2>2, <2>5, <2>7, <1>4
    <3> QED BY <3>7, <1>1 DEF w, u, c1, d1
  <2> QED BY <2>6, <2>7
<1>8. UnpaidPositive'
  BY <1>1 DEF MoneyInv, UnpaidPositive
<1> QED BY <1>6, <1>7, <1>8, PrimedParts DEF BooksOk

\* acceptTransfer moves no money between rows.
LEMMA SettledStep ==
  ASSUME MoneyInv, NEW p \in Payout, NEW reversed \in BOOLEAN, SettlePayout(p, reversed)
  PROVE  BooksOk'
<1>0. TypeOK BY DEF MoneyInv, RowsInv, LedgerInv
<1>1. \A q \in Payout : payout'[q].total = payout[q].total /\ payout'[q].kiosk = payout[q].kiosk
  BY <1>0 DEF SettlePayout, TypeOK, PayoutRow
<1>2. \A q \in Payout : payout'[q].status \in {"PENDING", "PROCESSING", "PAID"} =>
        payout[q].status \in {"PENDING", "PROCESSING", "PAID"}
  BY <1>0 DEF SettlePayout, TypeOK, PayoutRow
<1>3. event' = event /\ adjustment' = adjustment BY DEF SettlePayout
<1>4. ASSUME NEW k \in Kiosk PROVE OfPayouts(Carried(payout, k)) = OfPayouts(Carried(payout', k))
  <2>1. \A q \in Payout : Carried(payout, k)[q] = Carried(payout', k)[q] BY <1>1 DEF Carried
  <2> QED BY <2>1, PayoutsSame
<1> QED BY <1>1, <1>2, <1>3, <1>4, PrimedParts DEF MoneyInv, BooksOk, TotalsAdd, AccountsBalance,
     UnpaidPositive

\* Every step keeps the equations.
LEMMA NextBooks == MoneyInv /\ [LedgerNext]_ledgerVars => BooksOk'
<1> SUFFICES ASSUME MoneyInv, [LedgerNext]_ledgerVars PROVE BooksOk'
  OBVIOUS
<1>0. TypeOK /\ TypeOK' /\ LedgerInv BY NextRows DEF MoneyInv, RowsInv, LedgerInv
<1>1. ASSUME NEW e \in Event, NEW s \in {"PENDING", "CONFIRMED", "REVERSED"},
             CreateCommissionEvent(e, s)
      PROVE BooksOk'
  <2>1. event[e].payout = None
    BY <1>1, <1>0 DEF LedgerInv, PayableIsConfirmed, CreateCommissionEvent
  <2>2. /\ \A f \in Event \ {e} : event'[f] = event[f]
        /\ event'[e].payout = None /\ UNCHANGED <<adjustment, payout>>
    BY <1>1, <1>0 DEF CreateCommissionEvent, TypeOK
  <2> QED BY <1>0, <2>1, <2>2, UnattachedStep
<1>2. ASSUME NEW e \in Event, ReconcileConfirmed(e) \/ ReconcileReversedUnswept(e)
      PROVE BooksOk'
  <2>1. event[e].payout = None
    BY <1>2, <1>0 DEF LedgerInv, PayableIsConfirmed, ReconcileConfirmed, ReconcileReversedUnswept
  <2>2. event[e] \in EventRow BY <1>0 DEF TypeOK
  <2>3. event'[e].payout = event[e].payout
    BY <1>2, <1>0, <2>2 DEF ReconcileConfirmed, ReconcileReversedUnswept, TypeOK, EventRow
  <2>4. \A f \in Event \ {e} : event'[f] = event[f]
    BY <1>2, <1>0 DEF TypeOK, ReconcileConfirmed, ReconcileReversedUnswept
  <2>5. UNCHANGED <<adjustment, payout>>
    BY <1>2 DEF ReconcileConfirmed, ReconcileReversedUnswept
  <2> QED BY <1>0, <2>1, <2>3, <2>4, <2>5, UnattachedStep
<1>3. ASSUME NEW e \in Event, ReconcileReversedPending(e)
      PROVE BooksOk'
  <2> DEFINE p == event[e].payout
             reduced == payout[p].total - event[e].share
  <2>1. /\ p \in Payout /\ payout[p].status = "PENDING"
        /\ event[e].status \in {"PENDING", "CONFIRMED"}
    BY <1>3, <1>0 DEF ReconcileReversedPending, TypeOK, EventRow
  <2>2. CASE /\ reduced > 0
             /\ payout' = [payout EXCEPT ![p].total = reduced]
             /\ event' = [event EXCEPT ![e] = [status |-> "REVERSED",
                                                 share |-> 0, payout |-> None]]
             /\ UNCHANGED adjustment
    BY <1>0, <2>1, <2>2, ReducedStep
  <2>3. CASE /\ payout' = ClosedEmpty(p)
             /\ adjustment' = ReleasedAdjustments(p)
             /\ event' = [ReleasedEvents(p) EXCEPT
                              ![e] = [status |-> "REVERSED", share |-> 0,
                                      payout |-> None]]
    <3>1. event'[e] = [status |-> "REVERSED", share |-> 0, payout |-> None]
      BY <2>3 DEF ReleasedEvents
    <3>2. \A f \in Event \ {e} : event'[f] = ReleasedEvents(p)[f]
      BY <2>3 DEF ReleasedEvents
    <3>3. {e} \in SUBSET Event OBVIOUS
    <3>4. \A f \in {e} : /\ event[f].payout = p
                         /\ event'[f] = [status |-> "REVERSED", share |-> 0, payout |-> None]
      BY <3>1
    <3> HIDE DEF p
    <3> QED BY <1>0, <2>1, <2>3, <3>2, <3>3, <3>4, ClosedStep
  <2> QED BY <1>3, <2>2, <2>3 DEF ReconcileReversedPending
<1>4. ASSUME NEW e \in Event, ReconcileReversedClaimed(e)
      PROVE BooksOk'
  BY <1>0, <1>4, DeductedStep
<1>5. ASSUME NEW k \in Kiosk, NEW p \in Payout, GeneratePayout(k, p)
      PROVE BooksOk'
  BY <1>0, <1>5, GeneratedStep
<1>6. ASSUME NEW p \in Payout, CarryForwardPayout(p)
      PROVE BooksOk'
  <2>1. /\ payout[p].status = "PENDING" /\ payout' = ClosedEmpty(p)
        /\ adjustment' = ReleasedAdjustments(p) /\ event' = ReleasedEvents(p)
    BY <1>6 DEF CarryForwardPayout, Claimable
  <2> QED BY <1>0, <2>1, ClosedStep, {} \in SUBSET Event
<1>7. ASSUME NEW p \in Payout, ClaimPayout(p)
      PROVE BooksOk'
  BY <1>0, <1>7, ClaimedStep
<1>8. ASSUME NEW p \in Payout, NEW reversed \in BOOLEAN, SettlePayout(p, reversed)
      PROVE BooksOk'
  BY <1>8, SettledStep
<1>9. ASSUME \/ \E k \in Kiosk, pct \in SharePct : UpdateSharePct(k, pct)
             \/ \E k \in Kiosk, a \in Account : ConnectStripe(k, a)
             \/ UNCHANGED ledgerVars
      PROVE BooksOk'
  <2>1. UNCHANGED <<event, adjustment, payout>>
    BY <1>9 DEF UpdateSharePct, ConnectStripe, ledgerVars
  <2> QED BY <2>1, PrimedParts DEF MoneyInv, BooksOk, TotalsAdd, AccountsBalance, UnpaidPositive
<1> QED
  BY <1>1, <1>2, <1>3, <1>4, <1>5, <1>6, <1>7, <1>8, <1>9
     DEF LedgerNext, Bookkeeping, ReconcileReversed

\* The empty ledger adds up.
LEMMA MoneyInitial == LedgerInit => MoneyInv
<1> SUFFICES ASSUME LedgerInit PROVE MoneyInv OBVIOUS
<1>1. LedgerInv
  BY InitTypeOK
     DEF LedgerInit, LedgerInv, PayoutHasKiosk, AttachedToPayout, PayableIsConfirmed
<1>2. SharesNatural /\ DeductionsFit /\ AbsentEmpty /\ UnpaidPositive
  BY DEF LedgerInit, SharesNatural, DeductionsFit, AbsentEmpty, UnpaidPositive
<1>3. TotalsAdd
  <2> SUFFICES ASSUME NEW p \in Payout
               PROVE payout[p].total = OfEvents(Held(event, adjustment, p))
                                      + OfEvents(Absorbed(adjustment, p))
    BY DEF TotalsAdd
  <2> DEFINE h == Held(event, adjustment, p)
             a == Absorbed(adjustment, p)
  <2>1. \A e \in Event : h[e] = 0 /\ a[e] = 0
    BY LedgerAssumption DEF LedgerInit, Held, Absorbed
  <2>2. payout[p].total = 0 BY DEF LedgerInit
  <2> HIDE DEF h, a
  <2>3. OfEvents(h) = 0 /\ OfEvents(a) = 0 BY <2>1, EventsZero
  <2>4. payout[p].total = OfEvents(h) + OfEvents(a) BY <2>2, <2>3
  <2> QED BY <2>4 DEF h, a
<1>4. AccountsBalance
  <2> SUFFICES ASSUME NEW k \in Kiosk
               PROVE OfEvents(Worth(event, k)) = OfPayouts(Carried(payout, k))
                                + OfEvents(Unswept(event, k)) + OfEvents(Debt(adjustment, k))
    BY DEF AccountsBalance
  <2> DEFINE w == Worth(event, k) u == Unswept(event, k) c == Carried(payout, k)
             d == Debt(adjustment, k)
  <2>1. \A e \in Event : w[e] = 0 /\ u[e] = 0 /\ d[e] = 0
    BY DEF LedgerInit, Worth, Unswept, Debt
  <2>2. \A p \in Payout : c[p] = 0
    BY DEF LedgerInit, Carried
  <2> HIDE DEF w, u, c, d
  <2>3. OfEvents(w) = 0 /\ OfEvents(u) = 0 /\ OfEvents(d) = 0 BY <2>1, EventsZero
  <2>4. OfPayouts(c) = 0 BY <2>2, FiniteAssumption, SumZero DEF OfPayouts
  <2>5. OfEvents(w) = OfPayouts(c) + OfEvents(u) + OfEvents(d) BY <2>3, <2>4
  <2> QED BY <2>5 DEF w, u, c, d
<1> QED BY <1>1, <1>2, <1>3, <1>4 DEF MoneyInv, RowsInv

\* The inductive invariant of the sums holds in every behaviour.
LEMMA MoneyInvariant == LedgerSpec => []MoneyInv
<1>1. MoneyInv /\ [LedgerNext]_ledgerVars => MoneyInv'
  BY NextRows, NextBooks DEF MoneyInv, BooksOk
<1> QED BY MoneyInitial, <1>1, PTL DEF LedgerSpec

\* The total of every payout is what its orders and deductions add up to, and an unclaimed
\* or paid one is positive: generatePayouts, processPayout and reconcileEvent agree to the
\* cent, for every commission, percentage and order of events.
THEOREM TotalsAreExplained == LedgerSpec => []TotalsExplained
<1>1. MoneyInv => TotalsExplained
  BY ExplainedIsSum DEF MoneyInv, RowsInv, LedgerInv
<1> QED BY <1>1, MoneyInvariant, PTL

\* No cent is lost or counted twice: what a kiosk's confirmed orders are worth is in its
\* payouts or unswept, less deductions nobody has absorbed.
THEOREM MoneyIsConserved == LedgerSpec => []BalanceConserved
<1>1. MoneyInv => BalanceConserved
  BY BalanceIsSum DEF MoneyInv, RowsInv, LedgerInv
<1> QED BY <1>1, MoneyInvariant, PTL

\* What NeverOverpays calls paid.
PaidOut(k) == TotalOf({p \in KioskPayouts(k) : payout[p].status \in Claimed})
AccountIsSum ==
  \A k \in Kiosk : /\ Earned(k) = OfEvents(Worth(event, k))
                   /\ PaidOut(k) = OfPayouts(Committed(payout, k))

\* Earned and paid, as sums over all orders and payouts.
LEMMA AccountSums == TypeOK => AccountIsSum
<1> SUFFICES ASSUME TypeOK, NEW k \in Kiosk
             PROVE /\ Earned(k) = OfEvents(Worth(event, k))
                   /\ PaidOut(k) = OfPayouts(Committed(payout, k))
  BY DEF AccountIsSum
<1>1. Earned(k) = OfEvents(Worth(event, k))
  BY KioskIsSum
<1>2. PaidOut(k) = OfPayouts(Committed(payout, k))
  <3> DEFINE T == {p \in KioskPayouts(k) : payout[p].status \in Claimed}
             f == [p \in T |-> payout[p].total]
             g == Committed(payout, k)
  <3>1. T \in SUBSET Payout BY DEF KioskPayouts
  <3>2. \A p \in T : g[p] = f[p] BY DEF KioskPayouts, Committed
  <3>3. \A p \in Payout \ T : g[p] = 0 BY DEF KioskPayouts, Committed
  <3>4. \A p \in Payout : g[p] \in Int BY PartsInt
  <3> HIDE DEF f, g, T
  <3>5. SumFunctionOnSet(f, T) = SumFunctionOnSet(g, Payout)
    BY <3>1, <3>2, <3>3, <3>4, FiniteAssumption, SumFilter
  <3> QED BY <3>5 DEF f, g, T, PaidOut, TotalOf, OfPayouts
<1> QED BY <1>1, <1>2

\* The same, in the next state.
LEMMA AccountSums1 == TypeOK' => AccountIsSum'
BY AccountSums, PTL

\* What it says in the next state.
LEMMA AccountPrimed ==
  AccountIsSum' <=>
  \A k \in Kiosk : /\ Earned(k)' = OfEvents(Worth(event', k))
                   /\ PaidOut(k)' = OfPayouts(Committed(payout', k))
BY DEF AccountIsSum

\* The account of a kiosk is left alone.
Same(k) == /\ OfEvents(Worth(event', k)) = OfEvents(Worth(event, k))
           /\ OfPayouts(Committed(payout', k)) = OfPayouts(Committed(payout, k))

\* A kiosk has earned the same while its orders keep status and share.
LEMMA WorthSame ==
  ASSUME NEW k \in Kiosk,
         \A e \in Event : /\ event'[e].status = event[e].status
                          /\ event'[e].share = event[e].share
  PROVE  OfEvents(Worth(event', k)) = OfEvents(Worth(event, k))
<1> DEFINE w == Worth(event, k) w1 == Worth(event', k)
<1>1. \A e \in Event : w1[e] = w[e] BY DEF Worth
<1> HIDE DEF w, w1
<1>2. OfEvents(w1) = OfEvents(w) BY <1>1, EventsSame
<1> QED BY <1>2 DEF w, w1

\* A kiosk has been paid the same while its claimed payouts keep their totals.
LEMMA CommittedSame ==
  ASSUME NEW k \in Kiosk,
         \A p \in Payout : \/ payout'[p] = payout[p]
                           \/ /\ payout[p].status \in Claimed => payout[p].total = 0
                              /\ payout'[p].status \in Claimed => payout'[p].total = 0
                           \/ /\ payout[p].status \in Claimed /\ payout'[p].status \in Claimed
                              /\ payout'[p].total = payout[p].total
                              /\ payout'[p].kiosk = payout[p].kiosk
  PROVE  OfPayouts(Committed(payout', k)) = OfPayouts(Committed(payout, k))
<1> DEFINE c == Committed(payout, k) c1 == Committed(payout', k)
<1>1. \A p \in Payout : c1[p] = c[p] BY DEF Committed
<1> HIDE DEF c, c1
<1>2. OfPayouts(c1) = OfPayouts(c) BY <1>1, PayoutsSame
<1> QED BY <1>2 DEF c, c1

\* An order's row changes: only the earnings of its kiosk do.
LEMMA RevaluedStep ==
  ASSUME TypeOK, [LedgerNext]_ledgerVars, NEW e \in Event,
         \/ \E s \in {"PENDING", "CONFIRMED", "REVERSED"} : CreateCommissionEvent(e, s)
         \/ ReconcileConfirmed(e)
         \/ ReconcileReversed(e)
  PROVE  /\ \A k \in Kiosk \ {EventKiosk[e]} : Same(k)
         /\ \A k \in Kiosk : OfPayouts(Committed(payout', k)) = OfPayouts(Committed(payout, k))
<1>1. \A f \in Event \ {e} : /\ event'[f].status = event[f].status
                             /\ event'[f].share = event[f].share
  <2>0. event \in [Event -> EventRow] BY DEF TypeOK
  <2>1. CASE \E s \in {"PENDING", "CONFIRMED", "REVERSED"} : CreateCommissionEvent(e, s)
    BY <2>0, <2>1 DEF CreateCommissionEvent
  <2>3. CASE ReconcileConfirmed(e)
    BY <2>0, <2>3 DEF ReconcileConfirmed
  <2>4. CASE ReconcileReversedUnswept(e)
    BY <2>0, <2>4 DEF ReconcileReversedUnswept
  <2>5. CASE ReconcileReversedClaimed(e)
    BY <2>0, <2>5 DEF ReconcileReversedClaimed
  <2>2. CASE ReconcileReversedPending(e)
    <3> DEFINE gone == [status |-> "REVERSED", share |-> 0, payout |-> None]
    <3>1. CASE event' = [event EXCEPT ![e] = gone]
      BY <3>1
    <3>2. CASE event' = [ReleasedEvents(event[e].payout) EXCEPT ![e] = gone]
      BY <3>2 DEF ReleasedEvents, EventRow, TypeOK
    <3> QED BY <2>2, <3>1, <3>2 DEF ReconcileReversedPending
  <2> QED BY <2>1, <2>2, <2>3, <2>4, <2>5 DEF ReconcileReversed
<1>2. \A k \in Kiosk \ {EventKiosk[e]} :
        OfEvents(Worth(event', k)) = OfEvents(Worth(event, k))
  <2> TAKE k \in Kiosk \ {EventKiosk[e]}
  <2> DEFINE w == Worth(event, k) w1 == Worth(event', k)
  <2>1. \A f \in Event : w1[f] = w[f] BY <1>1 DEF Worth
  <2> HIDE DEF w, w1
  <2>2. OfEvents(w1) = OfEvents(w) BY <2>1, EventsSame
  <2> QED BY <2>2 DEF w, w1
<1>3. \A k \in Kiosk : OfPayouts(Committed(payout', k)) = OfPayouts(Committed(payout, k))
  <2>1. CASE payout' = payout BY <2>1
  <2>2. CASE ReconcileReversedPending(e)
    <3> DEFINE p == event[e].payout
               reduced == payout[p].total - event[e].share
    <3>1. p \in Payout /\ payout[p].status = "PENDING"
      BY <2>2 DEF ReconcileReversedPending, TypeOK, EventRow
    <3>2. \/ payout' = [payout EXCEPT ![p].total = reduced]
          \/ payout' = ClosedEmpty(p)
      BY <2>2 DEF ReconcileReversedPending
    <3> HIDE DEF reduced, p
    <3>3. \A q \in Payout \ {p} : payout'[q] = payout[q]
      BY <3>2 DEF ClosedEmpty, TypeOK
    <3>4. payout'[p].status = "PENDING" \/ payout'[p].total = 0
      BY <3>1, <3>2 DEF ClosedEmpty, TypeOK, PayoutRow
    <3> QED BY <3>1, <3>3, <3>4, CommittedSame DEF Claimed
  <2> QED BY <2>1, <2>2 DEF CreateCommissionEvent, ReconcileConfirmed, ReconcileReversed,
             ReconcileReversedUnswept, ReconcileReversedClaimed
<1> QED BY <1>2, <1>3 DEF Same

\* A claim commits more to one kiosk, and not more than it has earned: the payouts of the
\* kiosk carry what was earned, less unswept earnings, which are not negative, and the claim
\* has absorbed every open deduction.
LEMMA PaidStep ==
  ASSUME MoneyInv, MoneyInv', NEW p \in Payout, ClaimPayout(p)
  PROVE  /\ payout[p].kiosk \in Kiosk
         /\ \A k \in Kiosk \ {payout[p].kiosk} : Same(k)
         /\ \A k \in Kiosk : OfEvents(Worth(event', k)) = OfEvents(Worth(event, k))
         /\ OfPayouts(Committed(payout', payout[p].kiosk))
               > OfPayouts(Committed(payout, payout[p].kiosk))
         /\ OfPayouts(Committed(payout', payout[p].kiosk))
               <= OfEvents(Worth(event, payout[p].kiosk))
<1> DEFINE k0 == payout[p].kiosk
           total == ClaimTotal(p)
<1>0. TypeOK /\ RowsInv /\ TypeOK' /\ RowsInv'
  BY DEF MoneyInv, RowsInv, LedgerInv
<1>1. /\ payout[p].status = "PENDING" /\ k0 \in Kiosk /\ event' = event
      /\ total > 0
      /\ payout'[p].total = total
      /\ payout'[p].status = "PROCESSING"
      /\ payout'[p].kiosk = k0
      /\ \A q \in Payout \ {p} : payout'[q] = payout[q]
  BY <1>0, ClaimFacts
<1>2. \A e \in Event : adjustment'[e].payout = IF e \in OpenAdjustments(k0) THEN p
                                               ELSE adjustment[e].payout
  BY <1>0, ClaimFacts
<1>3. \A e \in Event : adjustment'[e].exists = adjustment[e].exists
  BY <1>0, ClaimFacts
<1> HIDE DEF k0, total
<1>4. total \in Int
  <2>1. payout'[p].total \in Int BY <1>0, LedgerAssumption DEF TypeOK, PayoutRow, Amount
  <2> QED BY <2>1, <1>1
<1>5. \A k \in Kiosk : OfEvents(Worth(event', k)) = OfEvents(Worth(event, k)) BY <1>1
<1>6. ASSUME NEW k \in Kiosk \ {k0}
      PROVE  OfPayouts(Committed(payout', k)) = OfPayouts(Committed(payout, k))
  <2> DEFINE c == Committed(payout, k) c1 == Committed(payout', k)
  <2>1. \A q \in Payout : c1[q] = c[q] BY <1>1 DEF Committed, k0
  <2> HIDE DEF c, c1
  <2>2. OfPayouts(c1) = OfPayouts(c) BY <2>1, PayoutsSame
  <2> QED BY <2>2 DEF c, c1
<1> DEFINE c == Committed(payout, k0) c1 == Committed(payout', k0)
           b1 == Carried(payout', k0)
           u1 == Unswept(event', k0)
           d1 == Debt(adjustment', k0)
<1>7. /\ \A q \in Payout \ {p} : c[q] = c1[q]
      /\ c[p] = 0 /\ c1[p] = total
      /\ \A q \in Payout : c[q] \in Int /\ c1[q] \in Int
  <2>1. \A q \in Payout \ {p} : c[q] = c1[q] BY <1>1 DEF Committed
  <2>2. c[p] = 0 /\ c1[p] = total BY <1>1 DEF Committed, Claimed, k0
  <2>3. \A q \in Payout : c[q] \in Int /\ c1[q] \in Int BY <1>0, <1>1, PartsInt, PartsInt1
  <2> QED BY <2>1, <2>2, <2>3
<1>8. OfPayouts(c1) > OfPayouts(c)
  <2> HIDE DEF c, c1
  <2>1. OfPayouts(c1) = OfPayouts(c) + (c1[p] - c[p]) BY <1>7, PayoutsPoint
  <2>2. OfPayouts(c) \in Int BY <1>7, PayoutsInt
  <2> QED BY <2>1, <2>2, <1>7, <1>1, <1>4
<1>9. OfPayouts(c1) <= OfPayouts(b1)
  <2>1. \A q \in Payout : payout'[q].total \in Int
    BY <1>0, LedgerAssumption DEF TypeOK, PayoutRow, Amount
  <2>2. \A q \in Payout : payout'[q].status \notin Claimed => payout'[q].total >= 0
    <3> TAKE q \in Payout
    <3>1. payout'[q].status \in PayoutStatus BY <1>0 DEF TypeOK, PayoutRow
    <3>2. payout'[q].status = "absent" => payout'[q].total = 0 BY <1>0 DEF RowsInv, AbsentEmpty
    <3>3. payout'[q].status = "PENDING" => payout'[q].total > 0 BY DEF MoneyInv, UnpaidPositive
    <3> QED BY <3>1, <3>2, <3>3, <2>1 DEF PayoutStatus, Claimed
  <2>3. \A q \in Payout : c1[q] \in Int /\ b1[q] \in Int /\ c1[q] <= b1[q]
    BY <2>1, <2>2 DEF Committed, Carried
  <2> HIDE DEF c1, b1
  <2> QED BY <2>3, FiniteAssumption, SumMonotone DEF OfPayouts
<1>10. OfEvents(Worth(event', k0)) = OfPayouts(b1) + OfEvents(u1) + OfEvents(d1)
  BY <1>1, PrimedParts DEF MoneyInv
<1>11. OfEvents(d1) = 0
  <2>1. \A e \in Event : d1[e] = 0
    BY <1>2, <1>3, LedgerAssumption DEF Debt, OpenAdjustments
  <2> HIDE DEF d1
  <2> QED BY <2>1, EventsZero
<1>12. OfEvents(u1) \in Int /\ OfEvents(u1) >= 0
  <2> DEFINE z == [e \in Event |-> 0]
  <2>1. \A e \in Event : event'[e].share \in Int /\ event'[e].share >= 0
    BY <1>0, LedgerAssumption DEF TypeOK, EventRow, Amount, RowsInv, SharesNatural
  <2>2. \A e \in Event : z[e] \in Int /\ u1[e] \in Int /\ z[e] <= u1[e]
    BY <2>1 DEF Unswept
  <2>3. \A e \in Event : z[e] = 0 OBVIOUS
  <2> HIDE DEF z, u1
  <2>4. OfEvents(z) <= OfEvents(u1) BY <2>2, FiniteAssumption, SumMonotone DEF OfEvents
  <2>5. OfEvents(z) = 0 BY <2>3, EventsZero
  <2>6. OfEvents(u1) \in Int BY <2>2, EventsInt
  <2> QED BY <2>4, <2>5, <2>6
<1>13. OfPayouts(c1) \in Int /\ OfPayouts(b1) \in Int
  <2>1. \A q \in Payout : b1[q] \in Int BY <1>0, <1>1, PartsInt1
  <2> HIDE DEF c1, b1
  <2> QED BY <1>7, <2>1, PayoutsInt
<1>14. OfPayouts(c1) <= OfEvents(Worth(event', k0))
  <2> HIDE DEF c1, b1, u1, d1
  <2> QED BY <1>9, <1>10, <1>11, <1>12, <1>13
<1> QED BY <1>1, <1>5, <1>6, <1>8, <1>14 DEF Same, k0

\* What a step may do to the earnings and payments of the kiosks.
LEMMA AccountSteps ==
  ASSUME MoneyInv, MoneyInv', [LedgerNext]_ledgerVars
  PROVE  \/ \A k \in Kiosk : Same(k)
         \/ \E j \in Kiosk :
              /\ \A k \in Kiosk \ {j} : Same(k)
              /\ \/ OfPayouts(Committed(payout', j)) = OfPayouts(Committed(payout, j))
                 \/ /\ OfEvents(Worth(event', j)) = OfEvents(Worth(event, j))
                    /\ OfPayouts(Committed(payout', j)) > OfPayouts(Committed(payout, j))
                    /\ OfPayouts(Committed(payout', j)) <= OfEvents(Worth(event, j))
<1>0. TypeOK /\ AbsentEmpty BY DEF MoneyInv, RowsInv, LedgerInv
<1>1. ASSUME NEW e \in Event,
             \/ \E s \in {"PENDING", "CONFIRMED", "REVERSED"} : CreateCommissionEvent(e, s)
             \/ ReconcileConfirmed(e)
             \/ ReconcileReversed(e)
      PROVE  \E j \in Kiosk :
              /\ \A k \in Kiosk \ {j} : Same(k)
              /\ OfPayouts(Committed(payout', j)) = OfPayouts(Committed(payout, j))
  <2>1. EventKiosk[e] \in Kiosk BY LedgerAssumption
  <2> QED BY <1>0, <1>1, <2>1, RevaluedStep
<1>2. ASSUME NEW p \in Payout, ClaimPayout(p)
      PROVE  \E j \in Kiosk :
              /\ \A k \in Kiosk \ {j} : Same(k)
              /\ OfEvents(Worth(event', j)) = OfEvents(Worth(event, j))
              /\ OfPayouts(Committed(payout', j)) > OfPayouts(Committed(payout, j))
              /\ OfPayouts(Committed(payout', j)) <= OfEvents(Worth(event, j))
  BY <1>2, PaidStep
<1>3. ASSUME NEW g \in Kiosk, NEW p \in Payout, GeneratePayout(g, p)
      PROVE  \A k \in Kiosk : Same(k)
  <2>1. \A e \in Event : event'[e].status = event[e].status /\ event'[e].share = event[e].share
    BY <1>0, <1>3 DEF GeneratePayout, TypeOK, EventRow
  <2>2. \A q \in Payout \ {p} : payout'[q] = payout[q] BY <1>3 DEF GeneratePayout
  <2>3. payout[p].status = "absent" /\ payout'[p].status = "PENDING"
    BY <1>0, <1>3 DEF GeneratePayout, TypeOK
  <2> QED BY <2>1, <2>2, <2>3, WorthSame, CommittedSame DEF Same, Claimed
<1>4. ASSUME NEW p \in Payout, CarryForwardPayout(p)
      PROVE  \A k \in Kiosk : Same(k)
  <2>1. \A e \in Event : event'[e].status = event[e].status /\ event'[e].share = event[e].share
    BY <1>0, <1>4 DEF CarryForwardPayout, ReleasedEvents, TypeOK, EventRow
  <2>2. \A q \in Payout \ {p} : payout'[q] = payout[q]
    BY <1>0, <1>4 DEF CarryForwardPayout, ClosedEmpty, TypeOK
  <2>3. payout[p].status = "PENDING" /\ payout'[p].total = 0
    BY <1>0, <1>4 DEF CarryForwardPayout, Claimable, ClosedEmpty, TypeOK, PayoutRow
  <2> QED BY <2>1, <2>2, <2>3, WorthSame, CommittedSame DEF Same, Claimed
<1>5. ASSUME NEW p \in Payout, NEW reversed \in BOOLEAN, SettlePayout(p, reversed)
      PROVE  \A k \in Kiosk : Same(k)
  <2>1. event' = event BY <1>5 DEF SettlePayout
  <2>2. \A q \in Payout \ {p} : payout'[q] = payout[q]
    BY <1>5 DEF SettlePayout
  <2>3. /\ payout[p].status \in Claimed /\ payout'[p].status \in Claimed
        /\ payout'[p].total = payout[p].total /\ payout'[p].kiosk = payout[p].kiosk
    BY <1>0, <1>5 DEF SettlePayout, TypeOK, PayoutRow, Claimed
  <2> QED BY <2>1, <2>2, <2>3, CommittedSame DEF Same
<1>6. ASSUME \/ \E k \in Kiosk, pct \in SharePct : UpdateSharePct(k, pct)
             \/ \E k \in Kiosk, a \in Account : ConnectStripe(k, a)
             \/ UNCHANGED ledgerVars
      PROVE  \A k \in Kiosk : Same(k)
  BY <1>6 DEF UpdateSharePct, ConnectStripe, ledgerVars, Same
<1> QED BY <1>1, <1>2, <1>3, <1>4, <1>5, <1>6 DEF LedgerNext, Bookkeeping

\* Every step of the ledger is a step of the account or leaves it alone.
LEMMA AccountNext ==
  ASSUME MoneyInv, MoneyInv', [LedgerNext]_ledgerVars
  PROVE  [Account_!Next]_<<[k \in Kiosk |-> Earned(k)], [k \in Kiosk |-> PaidOut(k)]>>
<1>1. /\ \A k \in Kiosk : /\ Earned(k) = OfEvents(Worth(event, k))
                          /\ PaidOut(k) = OfPayouts(Committed(payout, k))
      /\ \A k \in Kiosk : /\ Earned(k)' = OfEvents(Worth(event', k))
                          /\ PaidOut(k)' = OfPayouts(Committed(payout', k))
  BY AccountSums, AccountSums1, AccountPrimed DEF MoneyInv, RowsInv, LedgerInv, AccountIsSum
<1>2. CASE \A k \in Kiosk : Same(k)
  <2>1. \A k \in Kiosk : Earned(k)' = Earned(k) /\ PaidOut(k)' = PaidOut(k)
    BY <1>1, <1>2 DEF Same
  <2> QED BY <2>1
<1>3. ASSUME NEW j \in Kiosk,
              \A k \in Kiosk \ {j} : Same(k),
              \/ OfPayouts(Committed(payout', j)) = OfPayouts(Committed(payout, j))
              \/ /\ OfEvents(Worth(event', j)) = OfEvents(Worth(event, j))
                 /\ OfPayouts(Committed(payout', j)) > OfPayouts(Committed(payout, j))
                 /\ OfPayouts(Committed(payout', j)) <= OfEvents(Worth(event, j))
      PROVE  Account_!Next
  <2>1. \A k \in Kiosk \ {j} : Earned(k)' = Earned(k) /\ PaidOut(k)' = PaidOut(k)
    BY <1>1, <1>3 DEF Same
  <2>2. \/ PaidOut(j)' = PaidOut(j)
        \/ PaidOut(j)' > PaidOut(j) /\ PaidOut(j)' <= Earned(j) /\ Earned(j)' = Earned(j)
    BY <1>1, <1>3
  <2> QED BY <2>1, <2>2 DEF Account_!Next, Account_!Others, Account_!Revalue, Account_!Pay, PaidOut
<1> QED BY <1>2, <1>3, AccountSteps

\* The ledger implements KioskAccount: a claim (processPayout) never commits more than the
\* kiosk has earned, over all its payouts.
THEOREM PaymentsAreCovered == LedgerSpec => NeverOverpays
<1>1. LedgerInit => Account_!Init
  <2> SUFFICES ASSUME LedgerInit, NEW k \in Kiosk PROVE Earned(k) = 0 /\ PaidOut(k) = 0
    BY DEF Account_!Init, PaidOut
  <2> DEFINE w == Worth(event, k) c == Committed(payout, k)
  <2>1. /\ \A e \in Event : w[e] = 0
        /\ \A p \in Payout : c[p] = 0
    BY DEF LedgerInit, Worth, Committed, Claimed
  <2> HIDE DEF w, c
  <2>2. OfEvents(w) = 0 BY <2>1, EventsZero
  <2>3. OfPayouts(c) = 0 BY <2>1, FiniteAssumption, SumZero DEF OfPayouts
  <2> QED BY <2>2, <2>3, InitTypeOK, AccountSums DEF w, c, AccountIsSum
<1>2. MoneyInv /\ MoneyInv' /\ [LedgerNext]_ledgerVars
        => [Account_!Next]_<<[k \in Kiosk |-> Earned(k)], [k \in Kiosk |-> PaidOut(k)]>>
  BY AccountNext
<1> QED BY <1>1, <1>2, MoneyInvariant, PTL DEF LedgerSpec, NeverOverpays, Account_!Spec, PaidOut
=============================================================================
