------------------------ MODULE PayoutTransferProofs ------------------------
(***************************************************************************)
(* Proofs about PayoutTransfer for every number of payouts, concurrent     *)
(* calls and transfers and every window, key life and request delay with   *)
(* RetryWindow + CallDelay <= KeyLife.  The protocol implements the ledger *)
(* (every step of it is a step of CommissionLedger or leaves the tables    *)
(* alone), so what is proved of the ledger is used here as it stands.      *)
(***************************************************************************)
EXTENDS PayoutTransfer, CommissionLedgerProofs

\* A payout that Stripe or a running call knows of has been claimed, and its claim
\* has a time.
StartedIsClaimed(p) == payout[p].status \in Claimed /\ startedAt[p] \in Time

ClaimTimes ==
  \A p \in Payout :
    /\ payout[p].status \in {"PROCESSING", "PAID"} => startedAt[p] # None
    /\ startedAt[p] # None => payout[p].status \in Claimed /\ startedAt[p] <= now

\* A transfer carries what its payout's row says, was created after the claim, and
\* stays behind its idempotency key while Stripe is sure to remember the key.
TransferInv ==
  \A t \in Transfer : Exists(t) =>
    LET p == stripe[t].payout IN
      /\ StartedIsClaimed(p)
      /\ stripe[t].amount = payout[p].total
      /\ stripe[t].destination = payout[p].destination
      /\ startedAt[p] <= stripe[t].createdAt /\ stripe[t].createdAt <= now
      /\ now - stripe[t].createdAt < KeyLife => key[p] = t

StripeInv ==
  /\ \A p \in Payout : key[p] # None => stripe[key[p]].payout = p
  /\ \A w \in webhooks : Exists(w[2])

\* What a running call holds still agrees with the row it read it from; a call about
\* to create a transfer decided to inside the retry window.
CallOK(c) ==
  LET r == call[c] IN
    /\ r.pc # "idle" => r.payout \in Payout /\ StartedIsClaimed(r.payout)
    /\ r.pc \in {"list", "create"} =>
         /\ r.amount = payout[r.payout].total
         /\ r.destination = payout[r.payout].destination
         /\ ~r.reversed
    /\ r.pc = "create" =>
         /\ startedAt[r.payout] <= r.at /\ r.at - startedAt[r.payout] < RetryWindow
         /\ r.at <= now /\ now <= r.at + CallDelay
    /\ r.pc \in {"accept", "settle", "notify"} =>
         /\ r.transfer \in Transfer
         /\ stripe[r.transfer].payout = r.payout
         /\ r.reversed => stripe[r.transfer].reversed
CallInv == \A c \in Call : CallOK(c)

TransferIInv ==
  /\ TransferTypeOK /\ LedgerInv /\ ClaimTimes /\ TransferInv /\ StripeInv /\ CallInv
  /\ AtMostOneTransfer

-----------------------------------------------------------------------------
(* The protocol and the ledger *)

\* The only transactions of the protocol are the ledger's.
LEMMA LedgerSteps == TransferIInv /\ [Next]_vars => [LedgerNext]_ledgerVars
<1> SUFFICES ASSUME TransferIInv, [Next]_vars PROVE [LedgerNext]_ledgerVars
  OBVIOUS
<1>1. CASE LedgerStep
  BY <1>1 DEF LedgerStep, LedgerNext
<1>2. ASSUME NEW c \in Call, NEW p \in Payout, ProcessPayout(c, p)
      PROVE LedgerNext
  BY <1>2 DEF ProcessPayout, LedgerNext
<1>3. ASSUME NEW c \in Call, Settle(c)
      PROVE LedgerNext
  <2>1. call[c].payout \in Payout /\ call[c].reversed \in BOOLEAN
    BY <1>3 DEF TransferIInv, CallInv, CallOK, Settle, TransferTypeOK, CallRow
  <2> QED
    BY <1>3, <2>1 DEF Settle, LedgerNext
<1> QED
  BY <1>1, <1>2, <1>3
     DEF Next, vars, RecoverPayout, HandleTransferWebhook, ListFinds, CreateTransfer,
         ListMisses, ReplayTransfer, AcceptTransfer, SettledElsewhere, Notify, CallFails,
         ReverseTransfer, PruneKey, LoseWebhook, Tick

\* Once claimed, a payout keeps its amount, its destination and the time of its claim.
LEMMA ClaimPersists ==
  ASSUME TransferIInv, [Next]_vars, NEW p \in Payout, StartedIsClaimed(p)
  PROVE  /\ payout'[p].status \in Claimed
         /\ payout'[p].total = payout[p].total
         /\ payout'[p].destination = payout[p].destination
         /\ startedAt'[p] = startedAt[p]
<1>1. FrozenStep(p)
  BY LedgerSteps, FrozenSteps DEF TransferIInv, LedgerInv
<1>2. ASSUME NEW c \in Call, NEW q \in Payout, ProcessPayout(c, q)
      PROVE startedAt'[p] = startedAt[p]
  <2>1. p # q
    BY <1>2 DEF ProcessPayout, ClaimPayout, Claimable, StartedIsClaimed, Claimed
  <2> QED
    BY <1>2, <2>1 DEF ProcessPayout, TransferIInv, TransferTypeOK
<1>3. startedAt'[p] = startedAt[p]
  BY <1>2 DEF Next, vars, transferVars, LedgerStep, RecoverPayout, HandleTransferWebhook,
     ListFinds, CreateTransfer, ListMisses, ReplayTransfer, AcceptTransfer, Settle,
     SettledElsewhere, Notify, CallFails, ReverseTransfer, PruneKey, LoseWebhook, Tick
<1> QED
  BY <1>1, <1>3 DEF FrozenStep, StartedIsClaimed, Claimed

\* A transfer keeps its payout, amount, destination and creation time, and a reversal
\* is never undone.
LEMMA TransferPersists ==
  ASSUME TransferIInv, [Next]_vars, NEW t \in Transfer, Exists(t)
  PROVE  /\ stripe'[t].payout = stripe[t].payout
         /\ stripe'[t].amount = stripe[t].amount
         /\ stripe'[t].destination = stripe[t].destination
         /\ stripe'[t].createdAt = stripe[t].createdAt
         /\ stripe[t].reversed => stripe'[t].reversed
<1>1. stripe \in [Transfer -> TransferRow]
  BY DEF TransferIInv, TransferTypeOK
<1>2. ASSUME NEW c \in Call, NEW u \in Transfer, CreateTransfer(c, u)
      PROVE stripe'[t] = stripe[t]
  BY <1>1, <1>2 DEF CreateTransfer
<1>3. ASSUME NEW u \in Transfer, ReverseTransfer(u)
      PROVE stripe'[t] = [stripe[t] EXCEPT !.reversed = TRUE] \/ stripe'[t] = stripe[t]
  BY <1>1, <1>3 DEF ReverseTransfer
<1>4. stripe'[t] = [stripe[t] EXCEPT !.reversed = TRUE] \/ stripe'[t] = stripe[t]
  BY <1>2, <1>3 DEF Next, vars, transferVars, stripeVars, LedgerStep, ProcessPayout,
     RecoverPayout, HandleTransferWebhook, ListFinds, ListMisses, ReplayTransfer,
     AcceptTransfer, Settle, SettledElsewhere, Notify, CallFails, PruneKey,
     LoseWebhook, Tick
<1> QED
  BY <1>1, <1>4 DEF TransferRow

\* The clock does not go back.
LEMMA TimeSteps ==
  ASSUME TransferIInv, [Next]_vars
  PROVE  /\ now \in Nat /\ now' \in Nat /\ now <= now'
         /\ now' # now => Tick
<1>1. now \in Nat
  BY TransferAssumption DEF TransferIInv, TransferTypeOK, Time
<1>2. now' = now \/ Tick
  BY DEF Next, vars, transferVars, LedgerStep, ProcessPayout,
     RecoverPayout, HandleTransferWebhook, ListFinds, CreateTransfer, ListMisses,
     ReplayTransfer, AcceptTransfer, Settle, SettledElsewhere, Notify, CallFails,
     ReverseTransfer, PruneKey, LoseWebhook
<1>3. Tick => now' = now + 1
  BY DEF Tick
<1> QED
  BY <1>1, <1>2, <1>3

\* Everything but a claim or a settlement leaves claimed payouts alone and claims none.
LEMMA BookkeepingSteps ==
  ASSUME TypeOK, Bookkeeping, NEW p \in Payout
  PROVE  \/ payout'[p] = payout[p]
         \/ /\ payout[p].status \in {"absent", "PENDING"}
            /\ payout'[p].status \in {"PENDING", "FAILED"}
<1> USE DEF TypeOK
<1>1. ASSUME NEW k \in Kiosk, NEW q \in Payout, GeneratePayout(k, q)
      PROVE \/ payout'[p] = payout[p]
            \/ payout[p].status = "absent" /\ payout'[p].status = "PENDING"
  BY <1>1 DEF GeneratePayout
<1>2. ASSUME NEW f \in Event, ReconcileReversedPending(f)
      PROVE \/ payout'[p] = payout[p]
            \/ payout[p].status = "PENDING" /\ payout'[p].status \in {"PENDING", "FAILED"}
  <2> DEFINE q == event[f].payout
             reduced == payout[q].total - event[f].share
  <2>1. payout[q].status = "PENDING"
    BY <1>2 DEF ReconcileReversedPending
  <2>2. \/ payout' = [payout EXCEPT ![q].total = reduced]
        \/ payout' = ClosedEmpty(q)
    BY <1>2 DEF ReconcileReversedPending
  <2> HIDE DEF reduced
  <2> QED
    BY <2>1, <2>2 DEF ClosedEmpty, PayoutRow
<1>3. ASSUME NEW q \in Payout, CarryForwardPayout(q)
      PROVE \/ payout'[p] = payout[p]
            \/ payout[p].status = "PENDING" /\ payout'[p].status = "FAILED"
  BY <1>3 DEF CarryForwardPayout, Claimable, ClosedEmpty, PayoutRow
<1> QED
  BY <1>1, <1>2, <1>3
     DEF Bookkeeping, ReconcileReversed, UpdateSharePct, ConnectStripe,
         CreateCommissionEvent, ReconcileConfirmed, ReconcileReversedUnswept,
         ReconcileReversedClaimed

\* The life of a payout's row: it is left alone, prepared, claimed, or settled by a
\* call that holds it.
LEMMA PayoutLife ==
  ASSUME TransferIInv, [Next]_vars, NEW p \in Payout
  PROVE  \/ UNCHANGED <<payout[p], startedAt[p], saved[p]>>
         \/ /\ payout[p].status \in {"absent", "PENDING"}
            /\ payout'[p].status \in {"PENDING", "FAILED"}
            /\ UNCHANGED <<startedAt[p], saved[p], call>>
         \/ /\ \E c \in Call : ProcessPayout(c, p)
            /\ payout[p].status = "PENDING" /\ payout'[p].status = "PROCESSING"
            /\ startedAt'[p] = now /\ UNCHANGED saved[p]
         \/ \E c \in Call :
              /\ Settle(c) /\ call[c].payout = p
              /\ payout[p].status \in {"PROCESSING", "PAID"}
              /\ ~call[c].reversed => payout[p].status = "PROCESSING"
              /\ payout'[p].status = IF call[c].reversed THEN "FAILED" ELSE "PAID"
              /\ UNCHANGED startedAt[p] /\ saved'[p] = call[c].transfer
<1> USE DEF TransferIInv, TransferTypeOK, TypeOK
<1>1. CASE LedgerStep
  BY <1>1, BookkeepingSteps DEF LedgerStep, transferVars
<1>2. ASSUME NEW c \in Call, NEW q \in Payout, ProcessPayout(c, q)
      PROVE \/ UNCHANGED <<payout[p], startedAt[p], saved[p]>>
            \/ /\ p = q
               /\ payout[p].status = "PENDING" /\ payout'[p].status = "PROCESSING"
               /\ startedAt'[p] = now /\ UNCHANGED saved[p]
  <2>1. payout[q] \in PayoutRow
    OBVIOUS
  <2>2. payout[q].status = "PENDING"
    BY <1>2 DEF ProcessPayout, ClaimPayout, Claimable
  <2>3. payout'[q].status = "PROCESSING" /\ (p # q => payout'[p] = payout[p])
    BY <1>2, <2>1 DEF ProcessPayout, ClaimPayout, PayoutRow
  <2>4. /\ startedAt' = [startedAt EXCEPT ![q] = now]
        /\ saved' = saved
    BY <1>2 DEF ProcessPayout
  <2> QED
    BY <2>2, <2>3, <2>4
<1>3. ASSUME NEW c \in Call, Settle(c)
      PROVE \/ UNCHANGED <<payout[p], startedAt[p], saved[p]>>
            \/ /\ call[c].payout = p
               /\ payout[p].status \in {"PROCESSING", "PAID"}
               /\ ~call[c].reversed => payout[p].status = "PROCESSING"
               /\ payout'[p].status = IF call[c].reversed THEN "FAILED" ELSE "PAID"
               /\ UNCHANGED startedAt[p] /\ saved'[p] = call[c].transfer
  <2> DEFINE q == call[c].payout
  <2>1. payout[q].status \in
          (IF call[c].reversed THEN {"PROCESSING", "PAID"} ELSE {"PROCESSING"})
    BY <1>3 DEF Settle, SettlePayout
  <2>2. payout' = [payout EXCEPT ![q].status = IF call[c].reversed THEN "FAILED" ELSE "PAID"]
    BY <1>3 DEF Settle, SettlePayout
  <2>3. /\ saved' = [saved EXCEPT ![q] = call[c].transfer]
        /\ startedAt' = startedAt
    BY <1>3 DEF Settle
  <2>4. payout[p] \in PayoutRow
    OBVIOUS
  <2> QED
    BY <2>1, <2>2, <2>3, <2>4 DEF PayoutRow
<1>4. ASSUME \/ UNCHANGED vars
             \/ Tick
             \/ \E c \in Call, q \in Payout : RecoverPayout(c, q)
             \/ \E c \in Call, w \in Webhook : HandleTransferWebhook(c, w)
             \/ \E c \in Call, t \in Transfer : ListFinds(c, t) \/ CreateTransfer(c, t)
             \/ \E c \in Call : \/ ListMisses(c) \/ ReplayTransfer(c) \/ AcceptTransfer(c)
                                \/ SettledElsewhere(c) \/ Notify(c) \/ CallFails(c)
             \/ \E t \in Transfer : ReverseTransfer(t)
             \/ \E q \in Payout : PruneKey(q)
             \/ \E w \in Webhook : LoseWebhook(w)
      PROVE UNCHANGED <<payout, startedAt, saved>>
  BY <1>4 DEF vars, ledgerVars, transferVars, Tick, RecoverPayout, HandleTransferWebhook,
     ListFinds, CreateTransfer, ListMisses, ReplayTransfer, AcceptTransfer,
     SettledElsewhere, Notify, CallFails, ReverseTransfer, PruneKey, LoseWebhook
<1> HIDE DEF TransferIInv, TransferTypeOK, TypeOK
<1> QED
  BY <1>1, <1>2, <1>3, <1>4 DEF Next

-----------------------------------------------------------------------------
(* The invariant is inductive *)

LEMMA NextTransferTypeOK == TransferIInv /\ [Next]_vars => TransferTypeOK'
<1> SUFFICES ASSUME TransferIInv, [Next]_vars PROVE TransferTypeOK'
  OBVIOUS
<1> USE DEF TransferIInv, TransferTypeOK
<1>1. TypeOK'
  BY LedgerSteps, NextTypeOK DEF LedgerInv
<1>2. now' \in Time
  <2>1. CASE Tick
    BY <2>1, TransferAssumption DEF Tick, Time
  <2> QED
    BY <2>1, TimeSteps
<1>3. startedAt' \in [Payout -> Time \cup {None}]
  <2>1. ASSUME NEW c \in Call, NEW p \in Payout, ProcessPayout(c, p)
        PROVE startedAt' \in [Payout -> Time \cup {None}]
    BY <2>1 DEF ProcessPayout
  <2> QED
    BY <2>1 DEF Next, vars, transferVars, LedgerStep, RecoverPayout,
       HandleTransferWebhook, ListFinds, CreateTransfer, ListMisses, ReplayTransfer,
       AcceptTransfer, Settle, SettledElsewhere, Notify, CallFails, ReverseTransfer,
       PruneKey, LoseWebhook, Tick
<1>4. call' \in [Call -> CallRow] /\ saved' \in [Payout -> Transfer \cup {None}]
  <2> USE DEF CallRow
  <2>0. Idle \in CallRow
    BY LedgerAssumption, TransferAssumption DEF Idle, Amount, Time
  <2>1. ASSUME NEW c \in Call, NEW p \in Payout, ProcessPayout(c, p)
        PROVE call' \in [Call -> CallRow]
    <3>1. payout'[p].total \in Amount /\ payout'[p].destination \in Account \cup {None}
      BY <1>1 DEF TypeOK, PayoutRow
    <3>2. [Idle EXCEPT !.pc = "create", !.payout = p, !.amount = payout'[p].total,
                       !.destination = payout'[p].destination, !.at = now] \in CallRow
      BY <2>0, <3>1 DEF Idle
    <3> QED
      BY <2>1, <3>2 DEF ProcessPayout
  <2>2. ASSUME NEW c \in Call, NEW p \in Payout, RecoverPayout(c, p)
        PROVE call' \in [Call -> CallRow]
    <3>1. payout[p].total \in Amount /\ payout[p].destination \in Account \cup {None}
      BY DEF TypeOK, PayoutRow
    <3>2. [Idle EXCEPT !.pc = "list", !.payout = p, !.amount = payout[p].total,
                       !.destination = payout[p].destination] \in CallRow
      BY <2>0, <3>1 DEF Idle
    <3> QED
      BY <2>2, <3>2 DEF RecoverPayout
  <2>3. ASSUME NEW c \in Call, NEW w \in Webhook, HandleTransferWebhook(c, w)
        PROVE call' \in [Call -> CallRow]
    <3>1. w[2] \in Transfer
      BY DEF Webhook
    <3>2. stripe[w[2]].payout \in Payout \cup {None} /\ stripe[w[2]].reversed \in BOOLEAN
      BY <3>1 DEF TransferRow
    <3>3. [Idle EXCEPT !.pc = "accept", !.payout = stripe[w[2]].payout,
                       !.transfer = w[2], !.reversed = stripe[w[2]].reversed,
                       !.webhook = w] \in CallRow
      BY <2>0, <3>1, <3>2 DEF Idle
    <3> QED
      BY <2>3, <3>3 DEF HandleTransferWebhook
  <2>4. ASSUME NEW c \in Call, NEW t \in Transfer, ListFinds(c, t)
        PROVE call' \in [Call -> CallRow]
    <3>0. call \in [Call -> CallRow]
      OBVIOUS
    <3>1. stripe[t].reversed \in BOOLEAN
      BY DEF TransferRow
    <3> HIDE DEF TransferIInv, TransferTypeOK
    <3> DEFINE row == [call[c] EXCEPT !.pc = "accept", !.transfer = t,
                                      !.reversed = stripe[t].reversed]
    <3>2. row \in CallRow
      BY <3>0, <3>1
    <3>3. call' = [call EXCEPT ![c] = row]
      BY <2>4 DEF ListFinds
    <3> HIDE DEF row, CallRow
    <3> QED
      BY <3>0, <3>2, <3>3
  <2>5. ASSUME NEW c \in Call,
               \/ ListMisses(c) \/ AcceptTransfer(c) \/ SettledElsewhere(c)
               \/ Notify(c) \/ CallFails(c)
        PROVE call' \in [Call -> CallRow]
    <3>0. call \in [Call -> CallRow] /\ now \in Time
      OBVIOUS
    <3> HIDE DEF TransferIInv, TransferTypeOK
    <3>1. CASE call' = [call EXCEPT ![c] = Idle]
      BY <2>0, <3>0, <3>1
    <3>2. CASE ListMisses(c)
      <4> DEFINE row == [call[c] EXCEPT !.pc = "create", !.at = now]
      <4>1. row \in CallRow
        BY <3>0
      <4>2. call' = [call EXCEPT ![c] = row]
        BY <3>2 DEF ListMisses
      <4> HIDE DEF row, CallRow
      <4> QED
        BY <3>0, <4>1, <4>2
    <3>3. CASE AcceptTransfer(c)
      <4> DEFINE row == [call[c] EXCEPT !.pc = "settle"]
      <4>1. row \in CallRow
        BY <3>0
      <4>2. call' = [call EXCEPT ![c] = row]
        BY <3>3 DEF AcceptTransfer
      <4> HIDE DEF row, CallRow
      <4> QED
        BY <3>0, <4>1, <4>2
    <3> QED
      BY <2>5, <3>1, <3>2, <3>3 DEF SettledElsewhere, Notify, CallFails
  <2>6. ASSUME NEW c \in Call, NEW t \in Transfer, CreateTransfer(c, t)
        PROVE call' \in [Call -> CallRow]
    <3>0. call \in [Call -> CallRow]
      OBVIOUS
    <3> HIDE DEF TransferIInv, TransferTypeOK
    <3> DEFINE row == [call[c] EXCEPT !.pc = "accept", !.transfer = t]
    <3>1. row \in CallRow
      BY <3>0
    <3>2. call' = [call EXCEPT ![c] = row]
      BY <2>6 DEF CreateTransfer
    <3> HIDE DEF row, CallRow
    <3> QED
      BY <3>0, <3>1, <3>2
  <2>7. ASSUME NEW c \in Call, ReplayTransfer(c)
        PROVE call' \in [Call -> CallRow]
    <3>1. call[c].payout \in Payout
      BY <2>7 DEF ReplayTransfer, CallInv, CallOK
    <3>2. key[call[c].payout] \in Transfer \cup {None} /\ call \in [Call -> CallRow]
      BY <3>1
    <3> HIDE DEF TransferIInv, TransferTypeOK
    <3> DEFINE t == key[call[c].payout]
               row == [call[c] EXCEPT !.pc = "accept", !.transfer = t]
    <3>3. row \in CallRow
      BY <3>2
    <3>4. call' = [call EXCEPT ![c] = row]
      BY <2>7 DEF ReplayTransfer
    <3> HIDE DEF row, CallRow
    <3> QED
      BY <3>2, <3>3, <3>4
  <2>8. ASSUME NEW c \in Call, Settle(c)
        PROVE call' \in [Call -> CallRow] /\ saved' \in [Payout -> Transfer \cup {None}]
    <3>0. call \in [Call -> CallRow] /\ saved \in [Payout -> Transfer \cup {None}]
      OBVIOUS
    <3> HIDE DEF TransferIInv, TransferTypeOK
    <3> DEFINE row == [call[c] EXCEPT !.pc = "notify"]
    <3>1. row \in CallRow /\ call[c].transfer \in Transfer \cup {None}
      BY <3>0
    <3>2. /\ call' = [call EXCEPT ![c] = Idle] \/ call' = [call EXCEPT ![c] = row]
          /\ saved' = [saved EXCEPT ![call[c].payout] = call[c].transfer]
      BY <2>8 DEF Settle
    <3> HIDE DEF row, CallRow
    <3>3. call' \in [Call -> CallRow]
      BY <2>0, <3>0, <3>1, <3>2
    <3>4. saved' \in [Payout -> Transfer \cup {None}]
      BY <3>0, <3>1, <3>2
    <3> QED
      BY <3>3, <3>4
  <2>9. ASSUME NEW c \in Call, NEW p \in Payout, ProcessPayout(c, p) \/ RecoverPayout(c, p)
        PROVE saved' = saved
    BY <2>9 DEF ProcessPayout, RecoverPayout
  <2>10. ASSUME NEW c \in Call,
                \/ \E t \in Transfer : ListFinds(c, t) \/ CreateTransfer(c, t)
                \/ \E w \in Webhook : HandleTransferWebhook(c, w)
                \/ ListMisses(c) \/ ReplayTransfer(c) \/ AcceptTransfer(c)
                \/ SettledElsewhere(c) \/ Notify(c) \/ CallFails(c)
         PROVE saved' = saved
    BY <2>10 DEF ListFinds, CreateTransfer, HandleTransferWebhook, ListMisses,
       ReplayTransfer, AcceptTransfer, SettledElsewhere, Notify, CallFails
  <2>11. ASSUME \/ LedgerStep \/ Tick \/ UNCHANGED vars
                \/ \E t \in Transfer : ReverseTransfer(t)
                \/ \E p \in Payout : PruneKey(p)
                \/ \E w \in Webhook : LoseWebhook(w)
         PROVE saved' = saved /\ call' = call
    BY <2>11 DEF LedgerStep, transferVars, vars, Tick, ReverseTransfer, PruneKey,
       LoseWebhook
  <2> HIDE DEF CallRow, TransferIInv, TransferTypeOK
  <2>12. call \in [Call -> CallRow] /\ saved \in [Payout -> Transfer \cup {None}]
    BY DEF TransferIInv, TransferTypeOK
  <2> QED
    BY <2>1, <2>2, <2>3, <2>4, <2>5, <2>6, <2>7, <2>8, <2>9, <2>10, <2>11, <2>12 DEF Next
<1>5. /\ stripe' \in [Transfer -> TransferRow]
      /\ key' \in [Payout -> Transfer \cup {None}]
      /\ webhooks' \subseteq Webhook
  <2>1. ASSUME NEW c \in Call, NEW t \in Transfer, CreateTransfer(c, t)
        PROVE /\ stripe' \in [Transfer -> TransferRow]
              /\ key' \in [Payout -> Transfer \cup {None}]
              /\ webhooks' \subseteq Webhook
    <3> DEFINE row == [payout |-> call[c].payout, amount |-> call[c].amount,
                       destination |-> call[c].destination, createdAt |-> now,
                       reversed |-> FALSE]
    <3>1. row \in TransferRow
      BY DEF CallRow, TransferRow
    <3>2. stripe' = [stripe EXCEPT ![t] = row]
      BY <2>1 DEF CreateTransfer
    <3> HIDE DEF row
    <3>3. stripe' \in [Transfer -> TransferRow]
      BY <3>1, <3>2
    <3>4. key' \in [Payout -> Transfer \cup {None}]
      BY <2>1 DEF CreateTransfer
    <3>5. webhooks' \subseteq Webhook
      BY <2>1 DEF CreateTransfer, Webhook
    <3> QED
      BY <3>3, <3>4, <3>5
  <2>2. ASSUME NEW t \in Transfer, ReverseTransfer(t)
        PROVE /\ stripe' \in [Transfer -> TransferRow]
              /\ key' = key
              /\ webhooks' \subseteq Webhook
    <3>1. stripe' \in [Transfer -> TransferRow]
      BY <2>2 DEF ReverseTransfer, TransferRow
    <3>2. webhooks' \subseteq Webhook
      BY <2>2 DEF ReverseTransfer, Webhook
    <3> QED
      BY <2>2, <3>1, <3>2 DEF ReverseTransfer
  <2>3. ASSUME NEW p \in Payout, PruneKey(p)
        PROVE /\ stripe' = stripe /\ webhooks' = webhooks
              /\ key' \in [Payout -> Transfer \cup {None}]
    BY <2>3 DEF PruneKey
  <2>4. ASSUME \/ \E c \in Call : Settle(c) \/ SettledElsewhere(c) \/ Notify(c)
               \/ \E w \in Webhook : LoseWebhook(w)
        PROVE /\ stripe' = stripe /\ key' = key
              /\ webhooks' \subseteq Webhook
    BY <2>4 DEF Settle, SettledElsewhere, Notify, LoseWebhook, Acknowledge
  <2>5. ASSUME \/ LedgerStep \/ Tick \/ UNCHANGED vars
               \/ \E c \in Call, p \in Payout : ProcessPayout(c, p) \/ RecoverPayout(c, p)
               \/ \E c \in Call, w \in Webhook : HandleTransferWebhook(c, w)
               \/ \E c \in Call, t \in Transfer : ListFinds(c, t)
               \/ \E c \in Call : \/ ListMisses(c) \/ ReplayTransfer(c)
                                  \/ AcceptTransfer(c) \/ CallFails(c)
        PROVE UNCHANGED stripeVars
    BY <2>5 DEF LedgerStep, transferVars, vars, Tick, ProcessPayout, RecoverPayout,
       HandleTransferWebhook, ListFinds, ListMisses, ReplayTransfer, AcceptTransfer,
       CallFails, stripeVars
  <2> QED
    BY <2>1, <2>2, <2>3, <2>4, <2>5 DEF Next, stripeVars
<1>6. notified' \in [Payout -> Nat]
  <2>0. notified \in [Payout -> Nat]
    OBVIOUS
  <2>1. ASSUME NEW c \in Call, Notify(c)
        PROVE notified' \in [Payout -> Nat]
    <3>1. call[c].payout \in Payout
      BY <2>1 DEF Notify, CallInv, CallOK
    <3> HIDE DEF TransferIInv, TransferTypeOK
    <3>2. PICK sent \in {0, 1} :
            notified' = [notified EXCEPT ![call[c].payout] = notified[call[c].payout] + sent]
      BY <2>1 DEF Notify
    <3> QED
      BY <2>0, <3>1, <3>2
  <2>2. ASSUME ~ \E c \in Call : Notify(c)
        PROVE notified' = notified
    BY <2>2 DEF Next, vars, transferVars, LedgerStep, ProcessPayout, RecoverPayout,
       HandleTransferWebhook, ListFinds, CreateTransfer, ListMisses, ReplayTransfer,
       AcceptTransfer, Settle, SettledElsewhere, CallFails, ReverseTransfer,
       PruneKey, LoseWebhook, Tick
  <2> QED
    BY <2>0, <2>1, <2>2
<1> HIDE DEF TransferIInv, TransferTypeOK
<1> QED
  BY <1>1, <1>2, <1>3, <1>4, <1>5, <1>6 DEF TransferTypeOK

LEMMA NextClaimTimes == TransferIInv /\ [Next]_vars => ClaimTimes'
<1> SUFFICES ASSUME TransferIInv, [Next]_vars, NEW p \in Payout
             PROVE  /\ payout'[p].status \in {"PROCESSING", "PAID"} => startedAt'[p] # None
                    /\ startedAt'[p] # None => payout'[p].status \in Claimed
                                               /\ startedAt'[p] <= now'
  BY DEF ClaimTimes
<1>1. ClaimTimes
  BY DEF TransferIInv
<1>2. now # None
  BY TransferAssumption, TimeSteps
<1>3. startedAt[p] # None => startedAt[p] \in Nat
  BY DEF TransferIInv, TransferTypeOK, Time
<1>4. startedAt[p] # None => startedAt[p] <= now'
  BY <1>1, <1>3, TimeSteps DEF ClaimTimes
<1>5. CASE UNCHANGED <<payout[p], startedAt[p], saved[p]>>
  BY <1>1, <1>4, <1>5 DEF ClaimTimes
<1> QED
  BY <1>1, <1>2, <1>4, <1>5, PayoutLife, TimeSteps DEF ClaimTimes, Claimed

LEMMA NextTransferInv == TransferIInv /\ [Next]_vars => TransferInv'
<1> SUFFICES ASSUME TransferIInv, [Next]_vars, NEW t \in Transfer, Exists(t)'
             PROVE  LET p == stripe'[t].payout IN
                      /\ payout'[p].status \in Claimed /\ startedAt'[p] \in Time
                      /\ stripe'[t].amount = payout'[p].total
                      /\ stripe'[t].destination = payout'[p].destination
                      /\ startedAt'[p] <= stripe'[t].createdAt
                      /\ stripe'[t].createdAt <= now'
                      /\ now' - stripe'[t].createdAt < KeyLife => key'[p] = t
  BY DEF TransferInv, StartedIsClaimed
<1>1. /\ stripe \in [Transfer -> TransferRow] /\ call \in [Call -> CallRow]
      /\ key \in [Payout -> Transfer \cup {None}]
      /\ startedAt \in [Payout -> Time \cup {None}]
  BY DEF TransferIInv, TransferTypeOK
<1>2. CASE Exists(t)
  <2> DEFINE p == stripe[t].payout
  <2>0. p \in Payout /\ stripe[t].createdAt \in Nat
    BY <1>1, <1>2 DEF TransferRow, Exists, Time
  <2>1. /\ StartedIsClaimed(p)
        /\ stripe[t].amount = payout[p].total
        /\ stripe[t].destination = payout[p].destination
        /\ startedAt[p] <= stripe[t].createdAt /\ stripe[t].createdAt <= now
        /\ now - stripe[t].createdAt < KeyLife => key[p] = t
    BY <1>2 DEF TransferIInv, TransferInv
  <2>2. now - stripe[t].createdAt < KeyLife => key'[p] = key[p]
    <3>1. ASSUME NEW c \in Call, NEW u \in Transfer, CreateTransfer(c, u), key[p] = t
          PROVE key'[p] = key[p]
      <4>1. call[c].payout # p
        BY <2>0, <3>1, TransferAssumption DEF CreateTransfer
      <4> QED
        BY <1>1, <2>0, <3>1, <4>1 DEF CreateTransfer
    <3>2. ASSUME NEW q \in Payout, PruneKey(q), key[p] = t,
                 now - stripe[t].createdAt < KeyLife
          PROVE key'[p] = key[p]
      <4>1. q # p
        BY <2>0, <3>2, TransferAssumption, TimeSteps DEF PruneKey
      <4> QED
        BY <1>1, <2>0, <3>2, <4>1 DEF PruneKey
    <3>3. \/ key' = key
          \/ \E c \in Call, u \in Transfer : CreateTransfer(c, u)
          \/ \E q \in Payout : PruneKey(q)
      BY DEF Next, vars, transferVars, stripeVars, LedgerStep, ProcessPayout,
         RecoverPayout, HandleTransferWebhook, ListFinds, ListMisses, ReplayTransfer,
         AcceptTransfer, Settle, SettledElsewhere, Notify, CallFails, ReverseTransfer,
         LoseWebhook, Tick
    <3> QED
      BY <2>1, <3>1, <3>2, <3>3
  <2>3. now' - stripe[t].createdAt < KeyLife => now - stripe[t].createdAt < KeyLife
    BY <2>0, TimeSteps, TransferAssumption
  <2>4. stripe[t].createdAt <= now'
    BY <2>0, <2>1, TimeSteps
  <2>5. /\ payout'[p].status \in Claimed
        /\ payout'[p].total = payout[p].total
        /\ payout'[p].destination = payout[p].destination
        /\ startedAt'[p] = startedAt[p]
    BY <2>0, <2>1, ClaimPersists
  <2> HIDE DEF p
  <2> QED
    BY <1>2, <2>1, <2>2, <2>3, <2>4, <2>5, TransferPersists DEF p, StartedIsClaimed
<1>3. CASE ~Exists(t)
  <2>1. PICK c \in Call : CreateTransfer(c, t)
    <3>1. ASSUME NEW u \in Transfer, ReverseTransfer(u)
          PROVE FALSE
      <4>1. stripe'[t].payout = stripe[t].payout
        BY <1>1, <3>1 DEF ReverseTransfer, TransferRow
      <4> QED
        BY <1>3, <4>1 DEF Exists
    <3>2. ASSUME NEW c \in Call, NEW u \in Transfer, CreateTransfer(c, u)
          PROVE t = u
      BY <1>1, <1>3, <3>2 DEF CreateTransfer, Exists
    <3>3. ASSUME stripe' = stripe PROVE FALSE
      BY <1>3, <3>3 DEF Exists
    <3> QED
      BY <3>1, <3>2, <3>3 DEF Next, vars, transferVars, stripeVars, LedgerStep,
         ProcessPayout, RecoverPayout, HandleTransferWebhook, ListFinds, ListMisses,
         ReplayTransfer, AcceptTransfer, Settle, SettledElsewhere, Notify, CallFails,
         PruneKey, LoseWebhook, Tick
  <2> DEFINE p == call[c].payout
  <2>2. /\ p \in Payout /\ StartedIsClaimed(p)
        /\ call[c].amount = payout[p].total
        /\ call[c].destination = payout[p].destination
        /\ startedAt[p] <= call[c].at /\ call[c].at <= now
    BY <2>1 DEF TransferIInv, CallInv, CallOK, CreateTransfer
  <2>3. startedAt[p] <= now
    BY <1>1, <2>2, TimeSteps DEF StartedIsClaimed, Time, CallRow
  <2>4. UNCHANGED <<payout, startedAt, now>>
    BY <2>1 DEF CreateTransfer, ledgerVars
  <2>5. /\ stripe'[t] = [payout |-> p, amount |-> call[c].amount,
                         destination |-> call[c].destination, createdAt |-> now,
                         reversed |-> FALSE]
        /\ key'[p] = t
    BY <1>1, <2>1, <2>2 DEF CreateTransfer
  <2> HIDE DEF p
  <2> QED
    BY <2>2, <2>3, <2>4, <2>5, TimeSteps DEF StartedIsClaimed
<1> QED
  BY <1>2, <1>3

LEMMA NextStripeInv == TransferIInv /\ [Next]_vars => StripeInv'
<1> SUFFICES ASSUME TransferIInv, [Next]_vars PROVE StripeInv'
  OBVIOUS
<1>1. /\ stripe \in [Transfer -> TransferRow] /\ webhooks \subseteq Webhook
      /\ key \in [Payout -> Transfer \cup {None}]
      /\ StripeInv
  BY DEF TransferIInv, TransferTypeOK
<1>2. ASSUME NEW t \in Transfer, Exists(t)
      PROVE Exists(t)' /\ stripe'[t].payout = stripe[t].payout
  BY <1>2, TransferPersists DEF Exists
<1>3. ASSUME NEW p \in Payout, key'[p] # None
      PROVE stripe'[key'[p]].payout = p
  <2>1. CASE key'[p] = key[p]
    <3>1. key[p] \in Transfer /\ stripe[key[p]].payout = p
      BY <1>1, <1>3, <2>1 DEF StripeInv
    <3>2. Exists(key[p])
      BY <3>1, LedgerAssumption DEF Exists
    <3> QED
      BY <1>2, <2>1, <3>1, <3>2
  <2>2. ASSUME NEW c \in Call, NEW t \in Transfer, CreateTransfer(c, t),
               key'[p] # key[p]
        PROVE stripe'[key'[p]].payout = p
    <3>1. p = call[c].payout /\ key'[p] = t
      BY <1>1, <2>2 DEF CreateTransfer
    <3> QED
      BY <1>1, <2>2, <3>1 DEF CreateTransfer
  <2>3. ASSUME NEW q \in Payout, PruneKey(q), key'[p] # key[p]
        PROVE FALSE
    BY <1>1, <1>3, <2>3 DEF PruneKey
  <2>4. \/ key' = key
        \/ \E c \in Call, u \in Transfer : CreateTransfer(c, u)
        \/ \E q \in Payout : PruneKey(q)
    BY DEF Next, vars, transferVars, stripeVars, LedgerStep, ProcessPayout,
       RecoverPayout, HandleTransferWebhook, ListFinds, ListMisses, ReplayTransfer,
       AcceptTransfer, Settle, SettledElsewhere, Notify, CallFails, ReverseTransfer,
       LoseWebhook, Tick
  <2> QED
    BY <2>1, <2>2, <2>3, <2>4
<1>4. ASSUME NEW w \in webhooks'
      PROVE Exists(w[2])'
  <2>1. CASE w \in webhooks
    <3>1. w[2] \in Transfer /\ Exists(w[2])
      BY <1>1, <2>1 DEF StripeInv, Webhook
    <3>2. stripe'[w[2]].payout = stripe[w[2]].payout
      BY <1>2, <3>1
    <3> QED
      BY <3>1, <3>2 DEF Exists
  <2>2. ASSUME NEW c \in Call, NEW t \in Transfer, CreateTransfer(c, t), w \notin webhooks
        PROVE Exists(w[2])'
    <3>1. w[2] = t
      BY <1>4, <2>2 DEF CreateTransfer
    <3>2. call[c].payout \in Payout
      BY <2>2 DEF TransferIInv, CallInv, CallOK, CreateTransfer
    <3>3. stripe'[t].payout = call[c].payout
      BY <1>1, <2>2 DEF CreateTransfer
    <3> QED
      BY <3>1, <3>2, <3>3, LedgerAssumption DEF Exists
  <2>3. ASSUME NEW t \in Transfer, ReverseTransfer(t), w \notin webhooks
        PROVE Exists(w[2])'
    <3>1. w[2] = t /\ Exists(t)
      BY <1>4, <2>3 DEF ReverseTransfer
    <3>2. stripe'[t].payout = stripe[t].payout
      BY <1>2, <3>1
    <3> QED
      BY <3>1, <3>2 DEF Exists
  <2>4. \/ webhooks' \subseteq webhooks
        \/ \E c \in Call, u \in Transfer : CreateTransfer(c, u)
        \/ \E u \in Transfer : ReverseTransfer(u)
    BY DEF Next, vars, transferVars, stripeVars, LedgerStep, ProcessPayout,
       RecoverPayout, HandleTransferWebhook, ListFinds, ListMisses, ReplayTransfer,
       AcceptTransfer, Settle, SettledElsewhere, Notify, CallFails, PruneKey,
       LoseWebhook, Tick, Acknowledge
  <2> QED
    BY <1>4, <2>1, <2>2, <2>3, <2>4
<1> QED
  BY <1>3, <1>4 DEF StripeInv

\* What a call holds stays right while other calls, the ledger and Stripe move.
LEMMA CallPersists ==
  ASSUME TransferIInv, [Next]_vars, NEW c \in Call, call'[c] = call[c]
  PROVE  CallOK(c)'
<1> DEFINE r == call[c]
<1>1. CallOK(c) /\ r \in CallRow
  BY DEF TransferIInv, CallInv, TransferTypeOK
<1>2. r.pc # "idle" =>
        /\ r.payout \in Payout /\ StartedIsClaimed(r.payout)
        /\ payout'[r.payout].status \in Claimed
        /\ payout'[r.payout].total = payout[r.payout].total
        /\ payout'[r.payout].destination = payout[r.payout].destination
        /\ startedAt'[r.payout] = startedAt[r.payout]
  BY <1>1, ClaimPersists DEF CallOK
<1>3. r.pc = "create" => r.at <= now' /\ now' <= r.at + CallDelay
  <2>1. CASE Tick
    <3>1. r.pc = "create" => now - r.at < CallDelay /\ now' = now + 1
      BY <2>1 DEF Tick
    <3> QED
      BY <1>1, <3>1, TimeSteps, TransferAssumption DEF CallOK, CallRow, Time
  <2>2. CASE now' = now
    BY <1>1, <2>2 DEF CallOK
  <2> QED
    BY <2>1, <2>2, TimeSteps
<1>4. r.pc \in {"accept", "settle", "notify"} =>
        /\ stripe'[r.transfer].payout = r.payout
        /\ r.reversed => stripe'[r.transfer].reversed
  <2>1. r.pc \in {"accept", "settle", "notify"} =>
          /\ r.transfer \in Transfer /\ Exists(r.transfer)
          /\ stripe[r.transfer].payout = r.payout
          /\ r.reversed => stripe[r.transfer].reversed
    BY <1>1, <1>2, LedgerAssumption DEF CallOK, Exists
  <2> QED
    BY <2>1, TransferPersists
<1>5. call'[c] = r
  OBVIOUS
<1>6. /\ r.pc # "idle" => r.payout \in Payout /\ payout'[r.payout].status \in Claimed
                            /\ startedAt'[r.payout] \in Time
      /\ r.pc \in {"list", "create"} =>
           /\ r.amount = payout'[r.payout].total
           /\ r.destination = payout'[r.payout].destination
           /\ ~r.reversed
      /\ r.pc = "create" =>
           /\ startedAt'[r.payout] <= r.at /\ r.at - startedAt'[r.payout] < RetryWindow
      /\ r.pc \in {"accept", "settle", "notify"} => r.transfer \in Transfer
  <2> HIDE DEF r
  <2> QED
    BY <1>1, <1>2 DEF CallOK, StartedIsClaimed, r
<1> HIDE DEF r
<1> QED
  BY <1>3, <1>4, <1>5, <1>6 DEF CallOK, StartedIsClaimed

\* The step a call takes itself leaves it holding what the row or Stripe just said.
LEMMA CallAdvances ==
  ASSUME TransferIInv, [Next]_vars, NEW c \in Call, call'[c] # call[c]
  PROVE  CallOK(c)'
<1> DEFINE r == call[c]
<1>1. /\ CallOK(c) /\ r \in CallRow /\ call \in [Call -> CallRow]
      /\ stripe \in [Transfer -> TransferRow]
      /\ startedAt \in [Payout -> Time \cup {None}]
      /\ key \in [Payout -> Transfer \cup {None}]
      /\ TypeOK
  BY DEF TransferIInv, CallInv, TransferTypeOK
<1>2. ASSUME NEW p \in Payout, ProcessPayout(c, p)
      PROVE CallOK(c)'
  <2>1. call'[c] = [Idle EXCEPT !.pc = "create", !.payout = p, !.amount = payout'[p].total,
                      !.destination = payout'[p].destination, !.at = now]
    BY <1>1, <1>2 DEF ProcessPayout
  <2>2. payout[p] \in PayoutRow
    BY <1>1 DEF TypeOK
  <2>3. payout'[p].status \in Claimed
    BY <1>1, <1>2, <2>2 DEF ProcessPayout, ClaimPayout, PayoutRow, TypeOK, Claimed
  <2>4. startedAt'[p] = now /\ now' = now /\ now \in Time
    BY <1>1, <1>2 DEF ProcessPayout, TransferIInv, TransferTypeOK
  <2>5. startedAt'[p] <= now /\ now - startedAt'[p] < RetryWindow
        /\ now <= now' /\ now' <= now + CallDelay
    BY <2>4, TimeSteps, TransferAssumption
  <2> QED
    BY <2>1, <2>3, <2>4, <2>5 DEF CallOK, Idle, StartedIsClaimed
<1>3. ASSUME NEW p \in Payout, RecoverPayout(c, p)
      PROVE CallOK(c)'
  <2>1. call'[c] = [Idle EXCEPT !.pc = "list", !.payout = p, !.amount = payout[p].total,
                      !.destination = payout[p].destination]
    BY <1>1, <1>3 DEF RecoverPayout
  <2>2. UNCHANGED <<payout, startedAt>> /\ StartedIsClaimed(p)
    BY <1>1, <1>3 DEF RecoverPayout, ledgerVars, StartedIsClaimed, Claimed
  <2> QED
    BY <2>1, <2>2 DEF CallOK, Idle, StartedIsClaimed
<1>4. ASSUME NEW w \in Webhook, HandleTransferWebhook(c, w)
      PROVE CallOK(c)'
  <2> DEFINE t == w[2]
  <2>1. call'[c] = [Idle EXCEPT !.pc = "accept", !.payout = stripe[t].payout,
                      !.transfer = t, !.reversed = stripe[t].reversed, !.webhook = w]
    BY <1>1, <1>4 DEF HandleTransferWebhook
  <2>2. t \in Transfer /\ Exists(t)
    BY <1>4 DEF HandleTransferWebhook, TransferIInv, StripeInv, Webhook
  <2>3. stripe[t].payout \in Payout /\ StartedIsClaimed(stripe[t].payout)
    BY <1>1, <2>2 DEF TransferIInv, TransferInv, TransferRow, Exists
  <2>4. UNCHANGED <<payout, startedAt, stripe>>
    BY <1>4 DEF HandleTransferWebhook, ledgerVars, stripeVars
  <2> HIDE DEF t
  <2> QED
    BY <2>1, <2>2, <2>3, <2>4 DEF CallOK, Idle, StartedIsClaimed
<1>5. ASSUME NEW t \in Transfer, ListFinds(c, t)
      PROVE CallOK(c)'
  <2>1. call'[c] = [r EXCEPT !.pc = "accept", !.transfer = t, !.reversed = stripe[t].reversed]
    BY <1>1, <1>5 DEF ListFinds
  <2>2. /\ r.payout \in Payout /\ StartedIsClaimed(r.payout)
        /\ stripe[t].payout = r.payout
    BY <1>1, <1>5 DEF CallOK, ListFinds
  <2>3. UNCHANGED <<payout, startedAt, stripe>>
    BY <1>5 DEF ListFinds, ledgerVars, stripeVars
  <2> HIDE DEF r
  <2> QED
    BY <1>1, <2>1, <2>2, <2>3 DEF CallOK, CallRow, StartedIsClaimed
<1>6. CASE ListMisses(c)
  <2>1. call'[c] = [r EXCEPT !.pc = "create", !.at = now]
    BY <1>1, <1>6 DEF ListMisses
  <2>2. /\ r.payout \in Payout /\ StartedIsClaimed(r.payout) /\ ~r.reversed
        /\ r.amount = payout[r.payout].total
        /\ r.destination = payout[r.payout].destination
        /\ now - startedAt[r.payout] < RetryWindow
    BY <1>1, <1>6 DEF CallOK, ListMisses
  <2>3. startedAt[r.payout] <= now
    BY <2>2, TransferAssumption DEF TransferIInv, ClaimTimes, StartedIsClaimed, Time
  <2>4. UNCHANGED <<payout, startedAt, now>>
    BY <1>6 DEF ListMisses, ledgerVars
  <2>5. now' <= now + CallDelay /\ now <= now'
    BY <2>4, TimeSteps, TransferAssumption
  <2> HIDE DEF r
  <2> QED
    BY <1>1, <2>1, <2>2, <2>3, <2>4, <2>5 DEF CallOK, CallRow, StartedIsClaimed
<1>7. ASSUME NEW t \in Transfer, CreateTransfer(c, t)
      PROVE CallOK(c)'
  <2>1. call'[c] = [r EXCEPT !.pc = "accept", !.transfer = t]
    BY <1>1, <1>7 DEF CreateTransfer
  <2>2. /\ r.payout \in Payout /\ StartedIsClaimed(r.payout) /\ ~r.reversed
        /\ stripe'[t].payout = r.payout
    BY <1>1, <1>7 DEF CallOK, CreateTransfer
  <2>3. UNCHANGED <<payout, startedAt>>
    BY <1>7 DEF CreateTransfer, ledgerVars
  <2> HIDE DEF r
  <2> QED
    BY <1>1, <2>1, <2>2, <2>3 DEF CallOK, CallRow, StartedIsClaimed
<1>8. CASE ReplayTransfer(c)
  <2> DEFINE t == key[r.payout]
  <2>1. call'[c] = [r EXCEPT !.pc = "accept", !.transfer = t]
    BY <1>1, <1>8 DEF ReplayTransfer
  <2>2. r.payout \in Payout /\ StartedIsClaimed(r.payout) /\ ~r.reversed
    BY <1>1, <1>8 DEF CallOK, ReplayTransfer
  <2>3. t \in Transfer /\ stripe[t].payout = r.payout
    BY <1>1, <1>8, <2>2 DEF ReplayTransfer, TransferIInv, StripeInv
  <2>4. UNCHANGED <<payout, startedAt, stripe>>
    BY <1>8 DEF ReplayTransfer, ledgerVars, stripeVars
  <2> HIDE DEF r, t
  <2> QED
    BY <1>1, <2>1, <2>2, <2>3, <2>4 DEF CallOK, CallRow, StartedIsClaimed
<1>9. ASSUME AcceptTransfer(c) \/ (Settle(c) /\ ~r.reversed)
      PROVE CallOK(c)'
  <2>1. \/ call'[c] = [r EXCEPT !.pc = "settle"]
        \/ call'[c] = [r EXCEPT !.pc = "notify"]
    BY <1>1, <1>9 DEF AcceptTransfer, Settle
  <2>2. /\ r.payout \in Payout /\ StartedIsClaimed(r.payout)
        /\ r.transfer \in Transfer /\ stripe[r.transfer].payout = r.payout
        /\ r.reversed => stripe[r.transfer].reversed
    BY <1>1, <1>9 DEF CallOK, AcceptTransfer, Settle
  <2>3. payout'[r.payout].status \in Claimed /\ startedAt'[r.payout] = startedAt[r.payout]
    BY <2>2, ClaimPersists
  <2>4. stripe' = stripe
    BY <1>9 DEF AcceptTransfer, Settle, stripeVars
  <2> HIDE DEF r
  <2> QED
    BY <1>1, <2>1, <2>2, <2>3, <2>4 DEF CallOK, CallRow, StartedIsClaimed
<1>10. CASE call'[c] = Idle
  BY <1>10 DEF CallOK, Idle
<1>11. ASSUME NEW d \in Call, d # c,
              \/ \E p \in Payout : ProcessPayout(d, p) \/ RecoverPayout(d, p)
              \/ \E w \in Webhook : HandleTransferWebhook(d, w)
              \/ \E t \in Transfer : ListFinds(d, t) \/ CreateTransfer(d, t)
              \/ ListMisses(d) \/ ReplayTransfer(d) \/ AcceptTransfer(d)
              \/ Settle(d) \/ SettledElsewhere(d) \/ Notify(d) \/ CallFails(d)
       PROVE FALSE
  BY <1>1, <1>11 DEF ProcessPayout, RecoverPayout, HandleTransferWebhook, ListFinds,
     CreateTransfer, ListMisses, ReplayTransfer, AcceptTransfer, Settle,
     SettledElsewhere, Notify, CallFails
<1>12. ASSUME \/ SettledElsewhere(c) \/ Notify(c) \/ CallFails(c)
              \/ Settle(c) /\ r.reversed
       PROVE call'[c] = Idle
  BY <1>1, <1>12 DEF SettledElsewhere, Notify, CallFails, Settle
<1>13. ASSUME \/ LedgerStep \/ Tick \/ UNCHANGED vars
              \/ \E t \in Transfer : ReverseTransfer(t)
              \/ \E p \in Payout : PruneKey(p)
              \/ \E w \in Webhook : LoseWebhook(w)
       PROVE FALSE
  BY <1>13 DEF LedgerStep, transferVars, vars, Tick, ReverseTransfer, PruneKey, LoseWebhook
<1> QED
  BY <1>2, <1>3, <1>4, <1>5, <1>6, <1>7, <1>8, <1>9, <1>10, <1>11, <1>12, <1>13 DEF Next

LEMMA NextAtMostOneTransfer == TransferIInv /\ [Next]_vars => AtMostOneTransfer'
<1> SUFFICES ASSUME TransferIInv, [Next]_vars, NEW t1 \in Transfer, NEW t2 \in Transfer,
                    Exists(t1)', stripe'[t1].payout = stripe'[t2].payout
             PROVE  t1 = t2
  BY DEF AtMostOneTransfer
<1>1. /\ stripe \in [Transfer -> TransferRow] /\ call \in [Call -> CallRow]
      /\ startedAt \in [Payout -> Time \cup {None}]
  BY DEF TransferIInv, TransferTypeOK
<1>2. CASE \A t \in Transfer : stripe'[t].payout = stripe[t].payout
  BY <1>2 DEF TransferIInv, AtMostOneTransfer, Exists
<1>3. ASSUME NEW c \in Call, NEW t \in Transfer, CreateTransfer(c, t)
      PROVE t1 = t2
  <2> DEFINE p == call[c].payout
  \* A request that creates a transfer arrives while Stripe still remembers the key of
  \* any transfer the payout had, so it had none.
  <2>1. ASSUME NEW u \in Transfer, stripe[u].payout = p
        PROVE FALSE
    <3>1. /\ p \in Payout
          /\ startedAt[p] \in Time /\ call[c].at \in Time /\ now \in Time
          /\ startedAt[p] <= call[c].at /\ call[c].at - startedAt[p] < RetryWindow
          /\ call[c].at <= now /\ now <= call[c].at + CallDelay
          /\ key[p] = None
      BY <1>3, <1>1 DEF TransferIInv, TransferTypeOK, CallInv, CallOK, CreateTransfer,
         StartedIsClaimed, CallRow
    <3>2. /\ stripe[u].createdAt \in Time
          /\ startedAt[p] <= stripe[u].createdAt
          /\ now - stripe[u].createdAt < KeyLife => key[p] = u
      BY <1>1, <2>1, <3>1, LedgerAssumption DEF TransferIInv, TransferInv, Exists, TransferRow
    <3>3. now - stripe[u].createdAt < KeyLife
      BY <3>1, <3>2, TransferAssumption DEF Time
    <3> QED
      BY <3>1, <3>2, <3>3, TransferAssumption
  <2>2. stripe'[t].payout = p /\ \A u \in Transfer : u # t => stripe'[u] = stripe[u]
    BY <1>1, <1>3 DEF CreateTransfer
  <2> HIDE DEF p
  <2>3. CASE t1 # t /\ t2 # t
    BY <2>2, <2>3 DEF TransferIInv, AtMostOneTransfer, Exists
  <2> QED
    BY <2>1, <2>2, <2>3
<1>4. ASSUME NEW u \in Transfer, ReverseTransfer(u)
      PROVE \A t \in Transfer : stripe'[t].payout = stripe[t].payout
  BY <1>1, <1>4 DEF ReverseTransfer, TransferRow
<1>5. \/ stripe' = stripe
      \/ \E c \in Call, t \in Transfer : CreateTransfer(c, t)
      \/ \E u \in Transfer : ReverseTransfer(u)
  BY DEF Next, vars, transferVars, stripeVars, LedgerStep, ProcessPayout, RecoverPayout,
     HandleTransferWebhook, ListFinds, ListMisses, ReplayTransfer, AcceptTransfer, Settle,
     SettledElsewhere, Notify, CallFails, PruneKey, LoseWebhook, Tick
<1> QED
  BY <1>2, <1>3, <1>4, <1>5

LEMMA NextTransferIInv == TransferIInv /\ [Next]_vars => TransferIInv'
<1> SUFFICES ASSUME TransferIInv, [Next]_vars PROVE TransferIInv'
  OBVIOUS
<1>1. LedgerInv'
  BY LedgerSteps, NextTypeOK, NextPayoutHasKiosk, NextAttachedToPayout, NextPayable
     DEF TransferIInv, LedgerInv
<1>2. CallInv'
  BY CallPersists, CallAdvances DEF CallInv
<1> QED
  BY <1>1, <1>2, NextTransferTypeOK, NextClaimTimes, NextTransferInv, NextStripeInv,
     NextAtMostOneTransfer DEF TransferIInv

LEMMA TransferInvariant == Spec => []TransferIInv
<1>1. Init => TransferIInv
  <2> SUFFICES ASSUME Init PROVE TransferIInv
    OBVIOUS
  <2>1. LedgerInv
    BY InitTypeOK DEF Init, LedgerInit, LedgerInv, PayoutHasKiosk, AttachedToPayout,
       PayableIsConfirmed
  <2>2. 0 \in Time /\ 0 \in Amount
    BY LedgerAssumption, TransferAssumption DEF Time, Amount
  <2>3. TransferTypeOK
    BY <2>1, <2>2 DEF Init, TransferTypeOK, LedgerInv, TransferRow, CallRow, Idle
  <2>4. ClaimTimes /\ StripeInv /\ TransferInv /\ CallInv /\ AtMostOneTransfer
    BY DEF Init, LedgerInit, ClaimTimes, StripeInv, TransferInv, CallInv, CallOK, Idle,
       AtMostOneTransfer, Exists
  <2> QED
    BY <2>1, <2>3, <2>4 DEF TransferIInv
<1> QED
  BY <1>1, NextTransferIInv, PTL DEF Spec

-----------------------------------------------------------------------------
(* Theorems *)

\* Every value the protocol stores or passes on is well typed; amounts fit their column.
THEOREM TransferTypeCorrect == Spec => []TransferTypeOK
BY TransferInvariant, PTL DEF TransferIInv

\* However calls are retried, raced and killed, Stripe never holds two transfers for
\* one payout: the retry window and the idempotency key together suffice.
THEOREM NeverPaidTwice == Spec => []AtMostOneTransfer
BY TransferInvariant, PTL DEF TransferIInv

\* The money that moved is the money that was claimed, to the account it was claimed for.
THEOREM TransferAsClaimed == Spec => []TransferMatchesPayout
<1>1. TransferIInv => TransferMatchesPayout
  BY DEF TransferIInv, TransferInv, TransferMatchesPayout, StartedIsClaimed
<1> QED
  BY <1>1, TransferInvariant, PTL

\* The protocol with its concurrent calls implements the ledger of atomic transactions,
\* so every theorem about the ledger holds of it.
THEOREM ImplementsLedger == Spec => LedgerSpec
<1>1. Init => LedgerInit
  BY DEF Init
<1> QED
  BY <1>1, LedgerSteps, TransferInvariant, PTL DEF Spec, LedgerSpec

\* What is proved of the ledger's money holds through crashes, lost answers, concurrent calls
\* of processPayout and late webhooks: totals are explained by rows, no cent is lost or counted
\* twice, and no claim commits more than the kiosk has earned.
THEOREM MoneyStaysRight == Spec => []TotalsExplained /\ []BalanceConserved /\ NeverOverpays
BY ImplementsLedger, TotalsAreExplained, MoneyIsConserved, PaymentsAreCovered, PTL

-----------------------------------------------------------------------------
(* Settlement and notification *)

\* A PAID or FAILED payout names the transfer that settled it.
THEOREM SettledByItsTransfer == Spec => []SavedIsSettled
<1>1. Init => SavedIsSettled
  BY DEF Init, LedgerInit, SavedIsSettled
<1>2. TransferIInv /\ SavedIsSettled /\ [Next]_vars => SavedIsSettled'
  <2> SUFFICES ASSUME TransferIInv, SavedIsSettled, [Next]_vars, NEW p \in Payout
               PROVE  /\ payout'[p].status = "PAID" => saved'[p] # None
                      /\ payout'[p].status = "FAILED" /\ startedAt'[p] # None
                           => saved'[p] # None
                      /\ saved'[p] # None =>
                           /\ payout'[p].status \in {"PAID", "FAILED"}
                           /\ stripe'[saved'[p]].payout = p
                           /\ payout'[p].status = "FAILED" => stripe'[saved'[p]].reversed
    BY DEF SavedIsSettled
  <2>0. /\ saved \in [Payout -> Transfer \cup {None}] /\ ClaimTimes
        /\ None \notin Transfer /\ None \notin Payout
    BY LedgerAssumption, TransferAssumption DEF TransferIInv, TransferTypeOK
  <2>1. ASSUME saved[p] # None
        PROVE  /\ saved[p] \in Transfer
               /\ stripe'[saved[p]].payout = p
               /\ payout[p].status = "FAILED" => stripe'[saved[p]].reversed
    <3>1. saved[p] \in Transfer /\ stripe[saved[p]].payout = p /\ Exists(saved[p])
      BY <2>0, <2>1 DEF SavedIsSettled, Exists
    <3> QED
      BY <2>1, <3>1, TransferPersists DEF SavedIsSettled
  <2>2. CASE UNCHANGED <<payout[p], startedAt[p], saved[p]>>
    BY <2>1, <2>2 DEF SavedIsSettled
  <2>3. CASE /\ payout[p].status \in {"absent", "PENDING"}
             /\ payout'[p].status \in {"PENDING", "FAILED", "PROCESSING"}
             /\ UNCHANGED saved[p]
             /\ UNCHANGED startedAt[p] \/ payout'[p].status = "PROCESSING"
    BY <2>0, <2>3 DEF SavedIsSettled, ClaimTimes, Claimed
  <2>4. ASSUME NEW c \in Call, Settle(c), call[c].payout = p,
               payout'[p].status = IF call[c].reversed THEN "FAILED" ELSE "PAID",
               saved'[p] = call[c].transfer
        PROVE  /\ saved'[p] # None
               /\ payout'[p].status \in {"PAID", "FAILED"}
               /\ stripe'[saved'[p]].payout = p
               /\ payout'[p].status = "FAILED" => stripe'[saved'[p]].reversed
    <3>1. /\ call[c].transfer \in Transfer /\ stripe[call[c].transfer].payout = p
          /\ call[c].reversed => stripe[call[c].transfer].reversed
      BY <2>4 DEF TransferIInv, CallInv, CallOK, Settle
    <3>2. stripe' = stripe
      BY <2>4 DEF Settle
    <3> QED
      BY <2>0, <2>4, <3>1, <3>2
  <2> QED
    BY <2>2, <2>3, <2>4, PayoutLife
<1> QED
  BY <1>1, <1>2, TransferInvariant, PTL DEF Spec

\* Only the one call whose update settled a payout can still notify its owner.
NotifyInv ==
  /\ \A p \in Payout : notified[p] > 0 => payout[p].status \in {"PAID", "FAILED"}
  /\ \A c \in Call : call[c].pc = "notify" =>
       /\ payout[call[c].payout].status \in {"PAID", "FAILED"}
       /\ notified[call[c].payout] = 0
       /\ \A d \in Call : call[d].pc = "notify" /\ call[d].payout = call[c].payout => d = c


\* The owner of a payout is told once, by whichever call settled it.
THEOREM ToldOnce == Spec => []NotifiedOnce
<1>1. Init => NotifyInv /\ NotifiedOnce
  BY DEF Init, NotifyInv, NotifiedOnce, Idle
<1>2. TransferIInv /\ NotifyInv /\ NotifiedOnce /\ [Next]_vars => NotifyInv' /\ NotifiedOnce'
  <2> SUFFICES ASSUME TransferIInv, NotifyInv, NotifiedOnce, [Next]_vars
               PROVE  NotifyInv' /\ NotifiedOnce'
    OBVIOUS
  <2>0. /\ notified \in [Payout -> Nat] /\ call \in [Call -> CallRow]
        /\ \A c \in Call : call[c].pc = "notify" => call[c].payout \in Payout
    BY DEF TransferIInv, TransferTypeOK, CallInv, CallOK
  \* Settled payouts stay settled.
  <2>1. ASSUME NEW p \in Payout, payout[p].status \in {"PAID", "FAILED"}
        PROVE  payout'[p].status \in {"PAID", "FAILED"}
    BY <2>1, PayoutLife
  <2>2. ASSUME NEW c \in Call, Notify(c)
        PROVE  NotifyInv' /\ NotifiedOnce'
    <3> DEFINE p == call[c].payout
    <3>1. /\ p \in Payout /\ payout[p].status \in {"PAID", "FAILED"} /\ notified[p] = 0
          /\ \A d \in Call : call[d].pc = "notify" /\ call[d].payout = p => d = c
      BY <2>0, <2>2 DEF NotifyInv, Notify
    <3>2. PICK sent \in {0, 1} :
          /\ notified' = [notified EXCEPT ![p] = notified[p] + sent]
          /\ call' = [call EXCEPT ![c] = Idle]
          /\ payout' = payout
      BY <2>2 DEF Notify, ledgerVars
    <3> HIDE DEF p
    <3>3. NotifiedOnce'
      BY <2>0, <3>1, <3>2 DEF NotifiedOnce
    <3>4. \A q \in Payout : notified'[q] > 0 => payout'[q].status \in {"PAID", "FAILED"}
      BY <2>0, <3>1, <3>2 DEF NotifyInv
    <3>5. ASSUME NEW d \in Call, call'[d].pc = "notify"
          PROVE d # c /\ call'[d] = call[d] /\ call[d].payout # p
      BY <2>0, <3>1, <3>2, <3>5 DEF Idle
    <3> QED
      BY <2>0, <3>1, <3>2, <3>3, <3>4, <3>5 DEF NotifyInv
  <2>3. ASSUME NEW c \in Call, Settle(c)
        PROVE  NotifyInv' /\ NotifiedOnce'
    <3> DEFINE p == call[c].payout
    <3>1. p \in Payout /\ notified' = notified
      BY <2>3 DEF TransferIInv, CallInv, CallOK, Settle
    <3>2. /\ payout[p].status \in
               (IF call[c].reversed THEN {"PROCESSING", "PAID"} ELSE {"PROCESSING"})
          /\ payout' = [payout EXCEPT ![p].status =
                          IF call[c].reversed THEN "FAILED" ELSE "PAID"]
      BY <2>3 DEF Settle, SettlePayout
    <3>3. payout'[p].status \in {"PAID", "FAILED"}
      BY <3>1, <3>2 DEF TransferIInv, TransferTypeOK, TypeOK, PayoutRow
    <3>4. \A d \in Call : d # c => call'[d] = call[d]
      BY <2>0, <2>3 DEF Settle
    <3>5. call'[c].pc = "notify" => ~call[c].reversed /\ call'[c].payout = p
      BY <2>0, <2>3 DEF Settle, Idle, CallRow
    \* No other call can be about to notify for p: it would have settled p before.
    <3>6. call'[c].pc = "notify" =>
            /\ notified[p] = 0
            /\ \A d \in Call : d # c /\ call[d].pc = "notify" => call[d].payout # p
      BY <2>0, <3>1, <3>2, <3>5 DEF NotifyInv
    <3> HIDE DEF p
    <3>7. \A q \in Payout : notified'[q] > 0 => payout'[q].status \in {"PAID", "FAILED"}
      BY <2>1, <3>1 DEF NotifyInv
    <3>8. ASSUME NEW d \in Call, call'[d].pc = "notify"
          PROVE  /\ payout'[call'[d].payout].status \in {"PAID", "FAILED"}
                 /\ notified'[call'[d].payout] = 0
                 /\ \A x \in Call : call'[x].pc = "notify" /\ call'[x].payout = call'[d].payout
                                      => x = d
      <4>1. CASE d = c
        BY <3>1, <3>3, <3>4, <3>5, <3>6, <3>8, <4>1
      <4>2. CASE d # c
        <5>1. /\ call[d].pc = "notify" /\ call'[d] = call[d] /\ call[d].payout \in Payout
              /\ payout[call[d].payout].status \in {"PAID", "FAILED"}
          BY <2>0, <3>4, <3>8, <4>2 DEF NotifyInv
        <5>2. payout'[call[d].payout].status \in {"PAID", "FAILED"}
          BY <2>1, <5>1
        <5> QED
          BY <3>1, <3>4, <3>5, <3>6, <4>2, <5>1, <5>2 DEF NotifyInv
      <4> QED
        BY <4>1, <4>2
    <3> QED
      BY <3>1, <3>7, <3>8 DEF NotifyInv, NotifiedOnce
  <2>4. ASSUME ~ \E c \in Call : Notify(c) \/ Settle(c)
        PROVE  NotifyInv' /\ NotifiedOnce'
    <3>1. notified' = notified
      BY <2>4 DEF Next, vars, transferVars, LedgerStep, ProcessPayout, RecoverPayout,
         HandleTransferWebhook, ListFinds, CreateTransfer, ListMisses, ReplayTransfer,
         AcceptTransfer, SettledElsewhere, CallFails, ReverseTransfer, PruneKey,
         LoseWebhook, Tick
    <3>2. ASSUME NEW d \in Call, call'[d].pc = "notify"
          PROVE call'[d] = call[d]
      <4>1. ASSUME NEW c \in Call, NEW p \in Payout, ProcessPayout(c, p) \/ RecoverPayout(c, p)
            PROVE call'[d] = call[d]
        BY <2>0, <3>2, <4>1 DEF ProcessPayout, RecoverPayout, Idle
      <4>2. ASSUME NEW c \in Call, NEW w \in Webhook, HandleTransferWebhook(c, w)
            PROVE call'[d] = call[d]
        BY <2>0, <3>2, <4>2 DEF HandleTransferWebhook, Idle
      <4>3. ASSUME NEW c \in Call, NEW t \in Transfer, ListFinds(c, t) \/ CreateTransfer(c, t)
            PROVE call'[d] = call[d]
        <5>1. CASE ListFinds(c, t)
          BY <2>0, <3>2, <5>1 DEF ListFinds, CallRow
        <5>2. CASE CreateTransfer(c, t)
          BY <2>0, <3>2, <5>2 DEF CreateTransfer, CallRow
        <5> QED
          BY <4>3, <5>1, <5>2
      <4>4. ASSUME NEW c \in Call, ListMisses(c) \/ ReplayTransfer(c) \/ AcceptTransfer(c)
            PROVE call'[d] = call[d]
        BY <2>0, <3>2, <4>4 DEF ListMisses, ReplayTransfer, AcceptTransfer, CallRow
      <4>5. ASSUME NEW c \in Call, SettledElsewhere(c) \/ CallFails(c)
            PROVE call'[d] = call[d]
        BY <2>0, <3>2, <4>5 DEF SettledElsewhere, CallFails, Idle
      <4>6. ASSUME \/ LedgerStep \/ Tick \/ UNCHANGED vars
                   \/ \E t \in Transfer : ReverseTransfer(t)
                   \/ \E p \in Payout : PruneKey(p)
                   \/ \E w \in Webhook : LoseWebhook(w)
            PROVE call' = call
        BY <4>6 DEF LedgerStep, transferVars, vars, Tick, ReverseTransfer, PruneKey, LoseWebhook
      <4> QED
        BY <2>4, <4>1, <4>2, <4>3, <4>4, <4>5, <4>6 DEF Next
    <3>3. \A q \in Payout : notified'[q] > 0 => payout'[q].status \in {"PAID", "FAILED"}
      BY <2>1, <3>1 DEF NotifyInv
    <3>4. \A d \in Call : call'[d].pc = "notify" =>
            payout'[call'[d].payout].status \in {"PAID", "FAILED"}
      BY <2>0, <2>1, <3>2 DEF NotifyInv
    <3> QED
      BY <3>1, <3>2, <3>3, <3>4 DEF NotifyInv, NotifiedOnce
  <2> QED
    BY <2>2, <2>3, <2>4
<1> QED
  BY <1>1, <1>2, TransferInvariant, PTL DEF Spec
=============================================================================
