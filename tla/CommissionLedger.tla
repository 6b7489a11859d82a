-------------------------- MODULE CommissionLedger --------------------------
(***************************************************************************)
(* The money ledger of the Saverlly backend: the CommissionEvent,          *)
(* CommissionAdjustment and Payout tables and the transactions of          *)
(* CommissionsService and PayoutsService that write them.                  *)
(*                                                                         *)
(* Every transaction below runs at Serializable isolation and is retried   *)
(* on conflict (common/prisma/serializable.util.ts), or is one conditional *)
(* statement, so each is one atomic action; what interleaves is the order  *)
(* in which the cron jobs, the admin and the affiliate network trigger     *)
(* them.  The network's answers are read outside the transactions by       *)
(* overlapping runs, so any status may be applied to any event in any      *)
(* order.  Amounts are whole cents, the unit a Decimal(10,2) column holds. *)
(***************************************************************************)
EXTENDS Integers, FiniteSets, Functions

CONSTANTS
  Kiosk,          \* kiosk businesses
  Event,          \* network orders: a (merchant, networkReference) pair each
  Payout,         \* ids the payout table may hand out
  Account,        \* Stripe Connect account ids
  None,           \* SQL NULL
  EventKiosk,     \* event -> the kiosk its device's location belongs to
  Commission,     \* event -> commission the network pays, in cents
  TestEvent,      \* events of a mock adapter (isTest or a MOCKCONV- reference)
  SharePct,       \* revenue share percentages an admin may configure
  MaxAmount       \* largest number of cents a Decimal(10,2) column stores

ASSUME LedgerAssumption ==
  /\ None \notin Payout \cup Account
  /\ EventKiosk \in [Event -> Kiosk]
  /\ MaxAmount \in Nat
  /\ Commission \in [Event -> Nat]
  /\ TestEvent \subseteq Event
  /\ SharePct \subseteq 0..100

\* A database holds finitely many rows, so that their sums exist.
ASSUME FiniteAssumption == IsFiniteSet(Event) /\ IsFiniteSet(Payout)

VARIABLES
  kiosk,       \* Kiosk rows: revenue share and connected Stripe account
  event,       \* CommissionEvent rows
  adjustment,  \* CommissionAdjustment rows, unique per event
  payout       \* Payout rows

ledgerVars == <<kiosk, event, adjustment, payout>>

-----------------------------------------------------------------------------
(* Rows *)

Amount == -MaxAmount..MaxAmount

EventStatus  == {"absent", "PENDING", "CONFIRMED", "REVERSED"}
PayoutStatus == {"absent", "PENDING", "PROCESSING", "PAID", "FAILED"}
Claimed      == {"PROCESSING", "PAID", "FAILED"}

EventRow  == [status : EventStatus, share : Amount, payout : Payout \cup {None}]
PayoutRow == [status : PayoutStatus, kiosk : Kiosk \cup {None}, total : Amount,
              destination : Account \cup {None}]
AdjustmentRow == [exists : BOOLEAN, amount : Amount, payout : Payout \cup {None}]

TypeOK ==
  /\ kiosk \in [Kiosk -> [pct : SharePct, stripe : Account \cup {None}]]
  /\ event \in [Event -> EventRow]
  /\ adjustment \in [Event -> AdjustmentRow]
  /\ payout \in [Payout -> PayoutRow]

LedgerInit ==
  /\ kiosk \in [Kiosk -> [pct : SharePct, stripe : {None}]]
  /\ event = [e \in Event |-> [status |-> "absent", share |-> 0, payout |-> None]]
  /\ adjustment =
       [e \in Event |-> [exists |-> FALSE, amount |-> 0, payout |-> None]]
  /\ payout = [p \in Payout |-> [status |-> "absent", kiosk |-> None, total |-> 0,
                                 destination |-> None]]

-----------------------------------------------------------------------------
(* Sums and selections of the queries *)

SumShares(S)      == SumFunctionOnSet([e \in S |-> event[e].share], S)
SumAdjustments(S) == SumFunctionOnSet([e \in S |-> adjustment[e].amount], S)

\* Seeded fault of Sweepable: the status condition is lost.
Sweepable_AnyStatus(k) == {e \in Event \ TestEvent : /\ event[e].status # "absent"
                                                     /\ event[e].payout = None
                                                     /\ EventKiosk[e] = k}

\* CONFIRMED, not yet swept, not test data.
Sweepable(k) == {e \in Event \ TestEvent : /\ event[e].status = "CONFIRMED"
                                           /\ event[e].payout = None
                                           /\ EventKiosk[e] = k}

\* Seeded fault of OpenAdjustments: deductions already absorbed count again.
OpenAdjustments_Absorbed(k) == {e \in Event : /\ adjustment[e].exists
                                              /\ EventKiosk[e] = k}

\* Deductions of the kiosk that no payout has absorbed yet.
OpenAdjustments(k) == {e \in Event : /\ adjustment[e].exists
                                     /\ adjustment[e].payout = None
                                     /\ EventKiosk[e] = k}

EventsOf(p)      == {e \in Event : event[e].payout = p}
AdjustmentsOf(p) == {e \in Event : adjustment[e].exists /\ adjustment[e].payout = p}

\* commissionAmount * revenueSharePct / 100, rounded half up to the column's cent.
KioskShare(e) == (Commission[e] * kiosk[EventKiosk[e]].pct + 50) \div 100

\* The rows p holds go back to being unswept: payoutId = null on all of them.
ReleasedEvents(p) ==
  [e \in Event |-> IF event[e].payout = p
                   THEN [event[e] EXCEPT !.payout = None] ELSE event[e]]
\* Seeded fault of ReleasedAdjustments: only the events are given back.
ReleasedAdjustments_Kept(p) == adjustment
ReleasedAdjustments(p) ==
  [e \in Event |-> IF adjustment[e].payout = p
                   THEN [adjustment[e] EXCEPT !.payout = None] ELSE adjustment[e]]
ClosedEmpty(p) == [payout EXCEPT ![p].status = "FAILED", ![p].total = 0]

-----------------------------------------------------------------------------
(* Kiosk administration *)

\* KiosksService.update: the share applies to what is confirmed from now on.
UpdateSharePct(k, pct) ==
  /\ pct # kiosk[k].pct
  /\ kiosk' = [kiosk EXCEPT ![k].pct = pct]
  /\ UNCHANGED <<event, adjustment, payout>>

\* createStripeOnboardingLink's write of the account it created.  Two calls that
\* both read a null account each write their own, so a set account may change.
ConnectStripe(k, a) ==
  /\ kiosk[k].stripe # a
  /\ kiosk' = [kiosk EXCEPT ![k].stripe = a]
  /\ UNCHANGED <<event, adjustment, payout>>

-----------------------------------------------------------------------------
(* CommissionsService *)

\* createCommissionEvent: createMany with skipDuplicates, so an order already
\* recorded is left alone whatever status this report carries.
CreateCommissionEvent(e, status) ==
  /\ event[e].status = "absent"
  /\ LET share == IF status = "CONFIRMED" THEN KioskShare(e) ELSE 0
     IN  /\ share \in Amount
         /\ event' = [event EXCEPT ![e] = [status |-> status, share |-> share,
                                           payout |-> None]]
  /\ UNCHANGED <<kiosk, adjustment, payout>>

\* reconcileEvent, status 'confirmed': the share is fixed at today's percentage.
ReconcileConfirmed(e) ==
  /\ event[e].status = "PENDING"
  /\ KioskShare(e) \in Amount
  /\ event' = [event EXCEPT ![e].status = "CONFIRMED", ![e].share = KioskShare(e)]
  /\ UNCHANGED <<kiosk, adjustment, payout>>

\* reconcileEvent, status 'reversed', event outside any payout.
ReconcileReversedUnswept(e) ==
  /\ event[e].status \in {"PENDING", "CONFIRMED"}
  /\ event[e].payout = None
  /\ event' = [event EXCEPT ![e].status = "REVERSED", ![e].share = 0]
  /\ UNCHANGED <<kiosk, adjustment, payout>>

\* reconcileEvent, status 'reversed', payout not claimed yet: its total shrinks,
\* and a payout left with nothing to pay gives all its rows back.
ReconcileReversedPending(e) ==
  /\ event[e].status \in {"PENDING", "CONFIRMED"}
  /\ event[e].payout # None
  /\ payout[event[e].payout].status = "PENDING"
  /\ LET p       == event[e].payout
         reduced == payout[p].total - event[e].share
     IN  /\ reduced \in Amount
         /\ \/ /\ reduced > 0
               /\ payout' = [payout EXCEPT ![p].total = reduced]
               /\ event' = [event EXCEPT ![e] = [status |-> "REVERSED",
                                                 share |-> 0, payout |-> None]]
               /\ UNCHANGED adjustment
            \/ /\ reduced <= 0
               /\ payout' = ClosedEmpty(p)
               /\ adjustment' = ReleasedAdjustments(p)
               /\ event' = [ReleasedEvents(p) EXCEPT
                              ![e] = [status |-> "REVERSED", share |-> 0,
                                      payout |-> None]]
  /\ UNCHANGED kiosk

\* Seeded fault of ReconcileReversedClaimed: no deduction while the transfer is in flight.
ReconcileReversedClaimed_PaidOnly(e) ==
  /\ event[e].status \in {"PENDING", "CONFIRMED"}
  /\ event[e].payout # None
  /\ payout[event[e].payout].status \in Claimed
  /\ adjustment' = IF payout[event[e].payout].status = "PAID"
                   THEN [adjustment EXCEPT ![e] = [exists |-> TRUE, payout |-> None,
                                                   amount |-> -event[e].share]]
                   ELSE adjustment
  /\ event' = [event EXCEPT ![e].status = "REVERSED", ![e].share = 0]
  /\ UNCHANGED <<kiosk, payout>>

\* reconcileEvent, status 'reversed', payout already claimed: the payout keeps its
\* amount and the share becomes a deduction (upsert with an empty update).
ReconcileReversedClaimed(e) ==
  /\ event[e].status \in {"PENDING", "CONFIRMED"}
  /\ event[e].payout # None
  /\ payout[event[e].payout].status \in Claimed
  /\ \/ /\ event[e].share > 0
        /\ ~adjustment[e].exists
        /\ adjustment' = [adjustment EXCEPT ![e] =
                            [exists |-> TRUE, amount |-> -event[e].share,
                             payout |-> None]]
     \/ /\ event[e].share = 0 \/ adjustment[e].exists
        /\ UNCHANGED adjustment
  /\ event' = [event EXCEPT ![e].status = "REVERSED", ![e].share = 0]
  /\ UNCHANGED <<kiosk, payout>>

ReconcileReversed(e) ==
  \/ ReconcileReversedUnswept(e)
  \/ ReconcileReversedPending(e)
  \/ ReconcileReversedClaimed(e)

-----------------------------------------------------------------------------
(* PayoutsService *)

\* generatePayouts, one kiosk's transaction.
GeneratePayout(k, p) ==
  /\ payout[p].status = "absent"
  /\ LET total == SumShares(Sweepable(k)) + SumAdjustments(OpenAdjustments(k))
     IN  /\ total > 0
         /\ total \in Amount
         /\ payout' = [payout EXCEPT ![p] = [status |-> "PENDING", kiosk |-> k,
                                             total |-> total, destination |-> None]]
  /\ event' = [e \in Event |-> IF e \in Sweepable(k)
                               THEN [event[e] EXCEPT !.payout = p] ELSE event[e]]
  /\ adjustment' =
       [e \in Event |-> IF e \in OpenAdjustments(k)
                        THEN [adjustment[e] EXCEPT !.payout = p] ELSE adjustment[e]]
  /\ UNCHANGED kiosk

\* What processPayout's transaction requires before it decides.
Claimable(p) ==
  /\ payout[p].status = "PENDING"
  /\ kiosk[payout[p].kiosk].stripe # None
  /\ payout[p].total > 0
  /\ EventsOf(p) \cap TestEvent = {}

\* Seeded fault of ClaimTotal: deductions recorded since generatePayouts are missed.
ClaimTotal_Stale(p) == payout[p].total

ClaimTotal(p) == payout[p].total + SumAdjustments(OpenAdjustments(payout[p].kiosk))

\* processPayout's transaction: deductions recorded since the payout was generated
\* are folded in, and the amount and the destination are frozen.
ClaimPayout(p) ==
  /\ Claimable(p)
  /\ ClaimTotal(p) > 0
  /\ ClaimTotal(p) \in Amount
  /\ adjustment' =
       [e \in Event |-> IF e \in OpenAdjustments(payout[p].kiosk)
                        THEN [adjustment[e] EXCEPT !.payout = p] ELSE adjustment[e]]
  /\ payout' = [payout EXCEPT ![p].status = "PROCESSING",
                              ![p].total = ClaimTotal(p),
                              ![p].destination = kiosk[payout[p].kiosk].stripe]
  /\ UNCHANGED <<kiosk, event>>

\* processPayout's transaction when the deductions swallow the earnings.
CarryForwardPayout(p) ==
  /\ Claimable(p)
  /\ ClaimTotal(p) <= 0
  /\ event' = ReleasedEvents(p)
  /\ adjustment' = ReleasedAdjustments(p)
  /\ payout' = ClosedEmpty(p)
  /\ UNCHANGED kiosk

\* Seeded fault of SettlePayout: the update is not conditional on the status.
SettlePayout_Unconditional(p, reversed) ==
  /\ payout[p].status \in Claimed
  /\ payout' = [payout EXCEPT ![p].status = IF reversed THEN "FAILED" ELSE "PAID"]
  /\ UNCHANGED <<kiosk, event, adjustment>>

\* Seeded fault of SettlePayout: a reversal is only taken from a payout in flight.
SettlePayout_ProcessingOnly(p, reversed) ==
  /\ payout[p].status = "PROCESSING"
  /\ payout' = [payout EXCEPT ![p].status = IF reversed THEN "FAILED" ELSE "PAID"]
  /\ UNCHANGED <<kiosk, event, adjustment>>

\* acceptTransfer's conditional update: the outcome Stripe reports for the transfer.
SettlePayout(p, reversed) ==
  /\ payout[p].status \in (IF reversed THEN {"PROCESSING", "PAID"} ELSE {"PROCESSING"})
  /\ payout' = [payout EXCEPT ![p].status = IF reversed THEN "FAILED" ELSE "PAID"]
  /\ UNCHANGED <<kiosk, event, adjustment>>

-----------------------------------------------------------------------------

\* Everything but the settlement of a claimed payout, which Stripe drives.
Bookkeeping ==
  \/ \E k \in Kiosk, pct \in SharePct : UpdateSharePct(k, pct)
  \/ \E k \in Kiosk, a \in Account : ConnectStripe(k, a)
  \/ \E e \in Event :
       \/ \E s \in {"PENDING", "CONFIRMED", "REVERSED"} : CreateCommissionEvent(e, s)
       \/ ReconcileConfirmed(e)
       \/ ReconcileReversed(e)
  \/ \E k \in Kiosk, p \in Payout : GeneratePayout(k, p)
  \/ \E p \in Payout : CarryForwardPayout(p)

LedgerNext ==
  \/ Bookkeeping
  \/ \E p \in Payout : ClaimPayout(p)
  \/ \E p \in Payout, reversed \in BOOLEAN : SettlePayout(p, reversed)

LedgerSpec == LedgerInit /\ [][LedgerNext]_ledgerVars

-----------------------------------------------------------------------------
(* Properties *)

\* What an event contributed to the payout it is attached to.  A reversal after the
\* claim zeroes the share but records it, negated, in the event's deduction.
Contribution(e) == IF event[e].status = "REVERSED" /\ adjustment[e].exists
                   THEN -adjustment[e].amount ELSE event[e].share

\* The total of every payout, at any moment of its life, is exactly what the events
\* and deductions attached to it add up to, and an unclaimed payout is worth
\* something: generatePayouts, the claim and the reversal's decrement agree.
TotalsExplained ==
  \A p \in Payout :
    /\ payout[p].total = SumFunctionOnSet([e \in EventsOf(p) |-> Contribution(e)],
                                          EventsOf(p))
                         + SumAdjustments(AdjustmentsOf(p))
    /\ payout[p].status \in {"PENDING", "PROCESSING", "PAID"} => payout[p].total > 0

\* Only confirmed, real earnings of the payout's own kiosk wait in an unclaimed
\* payout: "never includes PENDING or REVERSED events under any code path".
PayableIsConfirmed ==
  \A e \in Event : LET p == event[e].payout IN
    p # None =>
      /\ e \notin TestEvent
      /\ payout[p].kiosk = EventKiosk[e]
      /\ \/ event[e].status = "CONFIRMED"
         \/ event[e].status = "REVERSED" /\ payout[p].status \in Claimed

KioskEvents(k)  == {e \in Event \ TestEvent : EventKiosk[e] = k}
KioskPayouts(k) == {p \in Payout : payout[p].kiosk = k}
Earned(k) == SumShares({e \in KioskEvents(k) : event[e].status = "CONFIRMED"})
TotalOf(S) == SumFunctionOnSet([p \in S |-> payout[p].total], S)

\* No cent is lost or counted twice: what the kiosk's confirmed orders are worth is
\* what its payouts carry, plus unswept earnings, minus deductions not yet absorbed.
BalanceConserved ==
  \A k \in Kiosk :
    Earned(k) = TotalOf(KioskPayouts(k)) + SumShares(Sweepable(k))
                + SumAdjustments(OpenAdjustments(k))

\* A claimed payout keeps its kiosk, amount and destination, because a retry must
\* send Stripe the same request, and its status only moves forward: FAILED is final.
ClaimFreezes ==
  [][\A p \in Payout : payout[p].status \in Claimed =>
       /\ payout'[p].kiosk = payout[p].kiosk
       /\ payout'[p].total = payout[p].total
       /\ payout'[p].destination = payout[p].destination
       /\ payout'[p].status # payout[p].status =>
            <<payout[p].status, payout'[p].status>> \in
              {<<"PROCESSING", "PAID">>, <<"PROCESSING", "FAILED">>,
               <<"PAID", "FAILED">>}]_ledgerVars

\* An order swept into a claimed payout stays in it, whatever happens to the order
\* later, and a deduction a claimed payout absorbed is never deducted again.
ClaimedRowsStay ==
  [][\A e \in Event :
       /\ (event[e].payout # None /\ payout[event[e].payout].status \in Claimed)
            => event'[e].payout = event[e].payout
       /\ (adjustment[e].exists /\ adjustment[e].payout # None
             /\ payout[adjustment[e].payout].status \in Claimed)
            => adjustment'[e] = adjustment[e]]_ledgerVars

\* Refinement: a claim never commits more than the kiosk has earned and not been
\* paid at that moment, over all its payouts, reversals and carried debt.
Account_ == INSTANCE KioskAccount WITH
              earned <- [k \in Kiosk |-> Earned(k)],
              paid   <- [k \in Kiosk |->
                           TotalOf({p \in KioskPayouts(k) : payout[p].status \in Claimed})]
NeverOverpays == Account_!Spec
=============================================================================
