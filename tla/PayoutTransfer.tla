--------------------------- MODULE PayoutTransfer ---------------------------
(***************************************************************************)
(* How a claimed payout becomes at most one Stripe transfer.  Calls (admin *)
(* requests, the five-minute recovery job, webhook deliveries) run         *)
(* concurrently over the ledger; each is broken at every await on Stripe   *)
(* or on the database, and may die at each of them, which also stands for  *)
(* a lost response, a Stripe refusal and a process crash.                  *)
(*                                                                         *)
(* Stripe is external: transfers, idempotency keys that it may prune once  *)
(* they are KeyLife old, and webhooks that are reordered, redelivered and, *)
(* unless StripeReliable, lost.                                            *)
(***************************************************************************)
EXTENDS CommissionLedger

CONSTANTS
  Call,            \* concurrent executions of a handler
  Transfer,        \* ids Stripe may give to transfers
  RetryWindow,     \* 23h: how long after the claim a transfer may be (re)created
  KeyLife,         \* 24h: how long Stripe is sure to remember an idempotency key
  CallDelay,       \* longest time between deciding to create and Stripe's execution
  MaxTime,         \* bound of the clock
  StripeReliable   \* listings are complete and webhooks are retried until taken

ASSUME TransferAssumption ==
  /\ None \notin Transfer \cup Nat
  /\ RetryWindow \in Nat \ {0}
  /\ KeyLife \in Nat
  /\ CallDelay \in Nat
  /\ RetryWindow + CallDelay <= KeyLife
  /\ MaxTime \in Nat
  /\ StripeReliable \in BOOLEAN

VARIABLES
  now,        \* hours
  startedAt,  \* Payout.transferStartedAt
  saved,      \* Payout.stripeTransferId
  stripe,     \* Stripe's transfers
  key,        \* the transfer Stripe remembers for an idempotency key (a payout id)
  webhooks,   \* transfer.created / transfer.reversed deliveries not acknowledged
  call,       \* what each running call holds between its awaits
  notified    \* payoutProcessed notifications sent

stripeVars == <<stripe, key, webhooks>>
transferVars == <<now, startedAt, saved, stripe, key, webhooks, call, notified>>
vars == <<ledgerVars, transferVars>>

-----------------------------------------------------------------------------

Time == 0..MaxTime
Webhook == {"created", "reversed"} \X Transfer

TransferRow == [payout : Payout \cup {None}, amount : Amount,
                destination : Account \cup {None}, createdAt : Time,
                reversed : BOOLEAN]
CallRow == [pc : {"idle", "list", "create", "accept", "settle", "notify"},
            payout : Payout \cup {None}, amount : Amount,
            destination : Account \cup {None}, at : Time,
            transfer : Transfer \cup {None}, reversed : BOOLEAN,
            webhook : Webhook \cup {None}]

Idle == [pc |-> "idle", payout |-> None, amount |-> 0, destination |-> None,
         at |-> 0, transfer |-> None, reversed |-> FALSE, webhook |-> None]

TransferTypeOK ==
  /\ TypeOK
  /\ now \in Time
  /\ startedAt \in [Payout -> Time \cup {None}]
  /\ saved \in [Payout -> Transfer \cup {None}]
  /\ stripe \in [Transfer -> TransferRow]
  /\ key \in [Payout -> Transfer \cup {None}]
  /\ webhooks \subseteq Webhook
  /\ call \in [Call -> CallRow]
  /\ notified \in [Payout -> Nat]

Init ==
  /\ LedgerInit
  /\ now = 0
  /\ startedAt = [p \in Payout |-> None]
  /\ saved = [p \in Payout |-> None]
  /\ stripe = [t \in Transfer |-> [payout |-> None, amount |-> 0,
                                   destination |-> None, createdAt |-> 0,
                                   reversed |-> FALSE]]
  /\ key = [p \in Payout |-> None]
  /\ webhooks = {}
  /\ call = [c \in Call |-> Idle]
  /\ notified = [p \in Payout |-> 0]

Exists(t) == stripe[t].payout # None

-----------------------------------------------------------------------------
(* Entry points *)

\* The ledger moves on: everything CommissionsService, generatePayouts and the
\* kiosk administration do, and the claim that ends in a carry-forward.
LedgerStep == Bookkeeping /\ UNCHANGED transferVars

\* processPayout: the claiming transaction; the request then goes on to Stripe.
ProcessPayout(c, p) ==
  /\ call[c].pc = "idle"
  /\ ClaimPayout(p)
  /\ startedAt' = [startedAt EXCEPT ![p] = now]
  /\ call' = [call EXCEPT ![c] = [Idle EXCEPT
                !.pc = "create", !.payout = p, !.amount = payout'[p].total,
                !.destination = payout'[p].destination, !.at = now]]
  /\ UNCHANGED <<now, saved, stripeVars, notified>>

\* Seeded fault of RecoverPayout: the retry goes to the account connected today.
RecoverPayout_CurrentAccount(c, p) ==
  /\ call[c].pc = "idle"
  /\ payout[p].status = "PROCESSING"
  /\ startedAt[p] # None
  /\ call' = [call EXCEPT ![c] = [Idle EXCEPT
                !.pc = "list", !.payout = p, !.amount = payout[p].total,
                !.destination = kiosk[payout[p].kiosk].stripe]]
  /\ UNCHANGED <<ledgerVars, now, startedAt, saved, stripeVars, notified>>

\* recoverPayout reads the row.  (Its branch for a PROCESSING row that already has
\* a transfer id serves rows older than the claim protocol; SavedIsSettled shows
\* that this protocol leaves none.)
RecoverPayout(c, p) ==
  /\ call[c].pc = "idle"
  /\ payout[p].status = "PROCESSING"
  /\ startedAt[p] # None
  /\ call' = [call EXCEPT ![c] = [Idle EXCEPT
                !.pc = "list", !.payout = p, !.amount = payout[p].total,
                !.destination = payout[p].destination]]
  /\ UNCHANGED <<ledgerVars, now, startedAt, saved, stripeVars, notified>>

\* handleStripeWebhookEvent retrieves the transfer as it is now, whatever the event
\* said.  The delivery stays queued until it is acknowledged, so it may be repeated.
HandleTransferWebhook(c, w) ==
  /\ call[c].pc = "idle"
  /\ w \in webhooks
  /\ call' = [call EXCEPT ![c] = [Idle EXCEPT
                !.pc = "accept", !.payout = stripe[w[2]].payout, !.transfer = w[2],
                !.reversed = stripe[w[2]].reversed, !.webhook = w]]
  /\ UNCHANGED <<ledgerVars, now, startedAt, saved, stripeVars, notified>>

-----------------------------------------------------------------------------
(* Steps of a running call *)

\* findTransferForPayout finds the transfer by its metadata.
ListFinds(c, t) ==
  /\ call[c].pc = "list"
  /\ stripe[t].payout = call[c].payout
  /\ stripe[t].destination = call[c].destination
  /\ call' = [call EXCEPT ![c].pc = "accept", ![c].transfer = t,
                          ![c].reversed = stripe[t].reversed]
  /\ UNCHANGED <<ledgerVars, now, startedAt, saved, stripeVars, notified>>

\* Seeded fault of ListMisses: the retry window is not checked.
ListMisses_AnyAge(c) ==
  /\ call[c].pc = "list"
  /\ StripeReliable => \A t \in Transfer : stripe[t].payout # call[c].payout
  /\ call' = [call EXCEPT ![c].pc = "create", ![c].at = now]
  /\ UNCHANGED <<ledgerVars, now, startedAt, saved, stripeVars, notified>>

\* It finds none, or misses one (the listing lags, or the clocks differ by more than
\* the 60s of slack in its created filter): retry, but only inside the window.
ListMisses(c) ==
  /\ call[c].pc = "list"
  /\ StripeReliable => \A t \in Transfer : stripe[t].payout # call[c].payout
  /\ EventsOf(call[c].payout) \cap TestEvent = {}
  /\ now - startedAt[call[c].payout] < RetryWindow
  /\ call' = [call EXCEPT ![c].pc = "create", ![c].at = now]
  /\ UNCHANGED <<ledgerVars, now, startedAt, saved, stripeVars, notified>>

\* transfers.create under a key Stripe does not know: a new transfer.
CreateTransfer(c, t) ==
  /\ call[c].pc = "create"
  /\ key[call[c].payout] = None
  /\ ~Exists(t)
  /\ stripe' = [stripe EXCEPT ![t] =
                  [payout |-> call[c].payout, amount |-> call[c].amount,
                   destination |-> call[c].destination, createdAt |-> now,
                   reversed |-> FALSE]]
  /\ key' = [key EXCEPT ![call[c].payout] = t]
  /\ webhooks' = webhooks \cup {<<"created", t>>}
  /\ call' = [call EXCEPT ![c].pc = "accept", ![c].transfer = t]
  /\ UNCHANGED <<ledgerVars, now, startedAt, saved, notified>>

\* transfers.create under a known key replays the first response, which does not
\* know of a reversal since.  Other parameters under the same key are an error.
ReplayTransfer(c) ==
  LET t == key[call[c].payout] IN
  /\ call[c].pc = "create"
  /\ t # None
  /\ stripe[t].amount = call[c].amount
  /\ stripe[t].destination = call[c].destination
  /\ call' = [call EXCEPT ![c].pc = "accept", ![c].transfer = t]
  /\ UNCHANGED <<ledgerVars, now, startedAt, saved, stripeVars, notified>>

\* Seeded fault of AcceptTransfer: only a transfer id already saved is matched.
AcceptTransfer_BySavedId(c) ==
  /\ call[c].pc = "accept"
  /\ saved[call[c].payout] = call[c].transfer
  /\ call' = [call EXCEPT ![c].pc = "settle"]
  /\ UNCHANGED <<ledgerVars, now, startedAt, saved, stripeVars, notified>>

\* acceptTransfer up to its conditional update: it finds the payout by transfer id
\* or metadata and checks id, amount and destination against the row.
AcceptTransfer(c) ==
  LET p == call[c].payout
      t == call[c].transfer
  IN
  /\ call[c].pc = "accept"
  /\ saved[p] \in {None, t}
  /\ stripe[t].amount = payout[p].total
  /\ stripe[t].destination = payout[p].destination
  /\ call' = [call EXCEPT ![c].pc = "settle"]
  /\ UNCHANGED <<ledgerVars, now, startedAt, saved, stripeVars, notified>>

Acknowledge(c) == webhooks' = webhooks \ {call[c].webhook}

\* Seeded fault of Settle: the transfer id is not stored with the status.
Settle_NoTransferId(c) ==
  /\ call[c].pc = "settle"
  /\ SettlePayout(call[c].payout, call[c].reversed)
  /\ call' = [call EXCEPT ![c] = Idle]
  /\ Acknowledge(c)
  /\ UNCHANGED <<now, startedAt, saved, stripe, key, notified>>

\* The conditional update of acceptTransfer wins: the payout is settled.
Settle(c) ==
  LET p == call[c].payout IN
  /\ call[c].pc = "settle"
  /\ SettlePayout(p, call[c].reversed)
  /\ saved' = [saved EXCEPT ![p] = call[c].transfer]
  /\ \/ /\ call[c].reversed
        /\ call' = [call EXCEPT ![c] = Idle]
        /\ Acknowledge(c)
     \/ /\ ~call[c].reversed
        /\ call' = [call EXCEPT ![c].pc = "notify"]
        /\ UNCHANGED webhooks
  /\ UNCHANGED <<now, startedAt, stripe, key, notified>>

\* It matches no row: another call settled the payout first.
SettledElsewhere(c) ==
  /\ call[c].pc = "settle"
  /\ payout[call[c].payout].status \notin
       (IF call[c].reversed THEN {"PROCESSING", "PAID"} ELSE {"PROCESSING"})
  /\ call' = [call EXCEPT ![c] = Idle]
  /\ Acknowledge(c)
  /\ UNCHANGED <<ledgerVars, now, startedAt, saved, stripe, key, notified>>

\* The owner hears of the payout from the call that settled it, if there is an owner
\* and the notification does not fail: that error is swallowed.
Notify(c) ==
  /\ call[c].pc = "notify"
  /\ \E sent \in {0, 1} :
       notified' = [notified EXCEPT ![call[c].payout] = @ + sent]
  /\ call' = [call EXCEPT ![c] = Idle]
  /\ Acknowledge(c)
  /\ UNCHANGED <<ledgerVars, now, startedAt, saved, stripe, key>>

\* A call ends early: an error, a lost response, a crash.  No retry is kept in memory.
CallFails(c) ==
  /\ call[c].pc # "idle"
  /\ call' = [call EXCEPT ![c] = Idle]
  /\ UNCHANGED <<ledgerVars, now, startedAt, saved, stripeVars, notified>>

-----------------------------------------------------------------------------
(* Stripe and the clock *)

\* Stripe (or an operator in its dashboard) reverses a transfer, fully or in part:
\* acceptTransfer treats both alike.
ReverseTransfer(t) ==
  /\ Exists(t) /\ ~stripe[t].reversed
  /\ stripe' = [stripe EXCEPT ![t].reversed = TRUE]
  /\ webhooks' = webhooks \cup {<<"reversed", t>>}
  /\ UNCHANGED <<ledgerVars, now, startedAt, saved, key, call, notified>>

PruneKey(p) ==
  /\ key[p] # None
  /\ now - stripe[key[p]].createdAt >= KeyLife
  /\ key' = [key EXCEPT ![p] = None]
  /\ UNCHANGED <<ledgerVars, now, startedAt, saved, stripe, webhooks, call, notified>>

LoseWebhook(w) ==
  /\ ~StripeReliable
  /\ w \in webhooks
  /\ webhooks' = webhooks \ {w}
  /\ UNCHANGED <<ledgerVars, now, startedAt, saved, stripe, key, call, notified>>

\* Time passes, but a request to create a transfer reaches Stripe within CallDelay.
Tick ==
  /\ now < MaxTime
  /\ \A c \in Call : call[c].pc = "create" => now - call[c].at < CallDelay
  /\ now' = now + 1
  /\ UNCHANGED <<ledgerVars, startedAt, saved, stripeVars, call, notified>>

-----------------------------------------------------------------------------

Next ==
  \/ LedgerStep
  \/ \E c \in Call, p \in Payout : ProcessPayout(c, p) \/ RecoverPayout(c, p)
  \/ \E c \in Call, w \in Webhook : HandleTransferWebhook(c, w)
  \/ \E c \in Call, t \in Transfer : ListFinds(c, t) \/ CreateTransfer(c, t)
  \/ \E c \in Call :
       \/ ListMisses(c) \/ ReplayTransfer(c) \/ AcceptTransfer(c)
       \/ Settle(c) \/ SettledElsewhere(c) \/ Notify(c) \/ CallFails(c)
  \/ \E t \in Transfer : ReverseTransfer(t)
  \/ \E p \in Payout : PruneKey(p)
  \/ \E w \in Webhook : LoseWebhook(w)
  \/ Tick

Spec == Init /\ [][Next]_vars

\* The recovery job runs every five minutes and Stripe redelivers an event until it
\* is acknowledged, so a step that keeps becoming possible is eventually not the one
\* that fails.
Fairness ==
  /\ \A p \in Payout : SF_vars(\E c \in Call : RecoverPayout(c, p))
  /\ \A w \in Webhook : SF_vars(\E c \in Call : HandleTransferWebhook(c, w))
  /\ \A c \in Call :
       /\ SF_vars(\E t \in Transfer : ListFinds(c, t))
       /\ SF_vars(AcceptTransfer(c))
       /\ SF_vars(Settle(c) \/ SettledElsewhere(c))
       /\ WF_vars(CallFails(c))

FairSpec == Spec /\ Fairness

-----------------------------------------------------------------------------
(* Properties *)

\* However often a call is repeated, dies, or races another one, Stripe holds at
\* most one transfer for a payout.
AtMostOneTransfer ==
  \A t1, t2 \in Transfer :
    Exists(t1) /\ stripe[t1].payout = stripe[t2].payout => t1 = t2

\* The money that moved is the money that was claimed: amount and destination of a
\* transfer are those of its payout's row, now and at every later time.
TransferMatchesPayout ==
  \A t \in Transfer : Exists(t) =>
    LET p == stripe[t].payout IN
      /\ payout[p].status \in Claimed
      /\ stripe[t].amount = payout[p].total
      /\ stripe[t].destination = payout[p].destination

\* A PAID payout names the transfer that paid it; one FAILED after its claim names a
\* transfer that really was reversed; a PROCESSING one names none.
SavedIsSettled ==
  \A p \in Payout :
    /\ payout[p].status = "PAID" => saved[p] # None
    /\ payout[p].status = "FAILED" /\ startedAt[p] # None => saved[p] # None
    /\ saved[p] # None =>
         /\ payout[p].status \in {"PAID", "FAILED"}
         /\ stripe[saved[p]].payout = p
         /\ payout[p].status = "FAILED" => stripe[saved[p]].reversed

\* Concurrent and repeated observations of one transfer send one notification.
NotifiedOnce == \A p \in Payout : notified[p] <= 1

\* A transfer that exists is eventually recorded, though the call that made it died.
TransferRecorded ==
  \A p \in Payout :
    (\E t \in Transfer : stripe[t].payout = p) ~> payout[p].status \in {"PAID", "FAILED"}

\* A reversed transfer eventually fails its payout, even if it had been paid.
ReversalRecorded ==
  \A p \in Payout :
    (\E t \in Transfer : stripe[t].payout = p /\ stripe[t].reversed)
      ~> payout[p].status = "FAILED"
=============================================================================
