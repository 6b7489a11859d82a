# TLA+ models of Saverlly

Saverlly puts a coupon extension on kiosk machines, earns affiliate commission on the
orders made there and pays the kiosk owners their share through Stripe. This directory
holds TLA+ specifications of the parts of the system that are hard to test, the TLC
configurations that check them on small instances, and theorems about them checked with
TLAPS. Paths below are relative to `src/`.

Contents: 1 Inventory, 2 Modules, 3 What the runs check, 4 What is proved, 5 Known
divergences, 6 Not modelled, 7 Plan, 8 Running.

## 1. Inventory

| Component | State | Operations | What makes it hard | Modelled |
|---|---|---|---|---|
| Commission ledger (`apps/backend/src/commissions`, `payouts`) | CommissionEvent, CommissionAdjustment, Payout, Kiosk rows | ingest, reconcile, generatePayouts, claim, carry forward, settle | overlapping cron jobs and network answers in any order; reversals before, during and after payment | yes |
| Payout transfer (`payouts`, `stripe`) | Payout row, Stripe's transfers and idempotency keys, running calls | processPayout, recoverPayout, webhooks, acceptTransfer | lost responses, crashes, pruned keys, reordered and repeated webhooks | yes |
| Store setup sessions (`apps/backend/src/store-setup`) | StoreSetupSession rows, Merchant.checkoutRecipe | issueCode, cancel, redeem, submit, apply, end | guard-then-write, review-then-save, two installs and one code | yes |
| Extension store setup (`apps/extension/src/lib/store-setup.ts`) | `storeSetupSession`, `storeSetupActivation` in chrome.storage.local | redeem, calls under the session, end | lost and late answers, worker recycled at any await | yes |
| Setup panel (`lib/setup-flow.ts`, `setup-test.ts`, `setup-template.ts`) | SetupProgress in the panel and in the worker | the guided steps, saves, page loads | the page, and the panel in it, is gone at any moment; Back, choose again, template | the steps; not which tab is in setup mode |
| Extension checkout (`background/service-worker.ts`) | tab state, navigation versions, pending apply, popup list | detect, activate, apply, resume, open the popup | navigations overtaking detection, worker recycled, several runs | the worker's side |
| Coupon run (`content-scripts/coupon-applier.ts`, `lib/checkout-actions.ts`) | the comparison's variables, the cart | try, put back, restore, report | prices that move, answers that do not come, cancellation at any await | the control; not the DOM |
| Coupon event queue (`lib/event-queue.ts`, `public-api.service.ts:169-259`) | queued events, coupon counters | queue, flush, record | at-least-once delivery, idempotent counting | yes |
| Extension activation (`lib/native-messaging.ts`, `status-check.ts`, `reviewer-access.ts`; `apps/backend/src/reviewers`) | device token, reviewer access, dormant flag, reviewer sessions | take the token, check status, redeem, apply | several writers of one identity, stale answers, lost grants | yes, but for the admin pages |
| Windows agent (`apps/agent/src`) | announcement state, status flag, receipt, lock and script files | sync, show, record, native messages | another process in another session; files shared by all attempts; logoff and crashes | cycle, announcements, flag |
| Stripe onboarding (`payouts.service.ts:110-134, 405-442`) | Kiosk.stripeAccountId, onboarding flags | create link, account.updated | concurrent creation, stale payloads | the write the ledger depends on |
| Attribution and stand-down (`lib/attribution.ts`, `step-down-check.ts`) | stand-down records, subIds | landing, override, rewrite | newer landing against an older override | no |
| Devices, locations, kiosk administration | registration codes, device status, share | create, disable, update | the share changes while orders are pending | the share |
| Coupons and scraping (`scrape-coupons.processor.ts`) | scraped coupons, `freshUntil` | scrape, replace | overlapping runs, partial failure | no |
| Affiliate adapters, feeds; jobs; notifications; accounts; merchants | little of their own | report, schedule, mail, log in, save | answers may regress | as the environment of other modules |
| Recipe health, promotions, announcement editing, dashboard, shared types | CRUD rows, pages | | little protocol | no |

How they interact: the affiliate network's reports become ledger rows; a job turns ledger rows into
payouts; an admin or a job claims a payout and calls Stripe; Stripe answers directly, by
listing and by webhook. An admin issues a setup code on the dashboard; an extension
redeems it, its panel learns a recipe in the store's page and submits drafts; the admin saves one, and
from then on every extension uses it at that store's checkout. The worker starts the coupon run in the
page, takes its progress and result, and queues events for the backend. The agent registers the device, hands
its token to the extension through the native host while the device is enabled, and shows announcements.
Processes share only the database, chrome.storage, the kiosk's files and the messages between them.

What makes each modelled component correct is stated with its properties in section 3;
the hazards behind them are listed, at their lines, in `PROJECT.json`.

## 2. Modules

| Module | Models | Checked by |
|---|---|---|
| `KioskAccount` | abstract: a kiosk's account, earned and committed cents | `ledger` (refinement) |
| `CommissionLedger` | the four tables and the transactions that write them | `ledger` |
| `CommissionLedgerProofs` | theorems about the ledger | TLAPS |
| `PayoutTransfer` | the ledger composed with calls, Stripe and a clock | `transfer`, `transfer_live` |
| `PayoutTransferProofs` | theorems about the transfer protocol; it implements the ledger | TLAPS |
| `StoreSetup` | the backend of store setup | `store_setup` |
| `StoreSetupExtension` | one extension install composed with that backend | `setup_extension` |
| `StoreSetupExtensionProofs` | theorems about `StoreSetup` and about the composition; the composition implements `StoreSetup` | TLAPS |
| `SetupFlow` | the guided steps of the setup panel | `setup_flow` |
| `SetupFlowProofs` | theorems about the steps | TLAPS |
| `EventTally` | abstract: each event counted once | `coupon_events` (refinement) |
| `CouponEventQueue` | the extension's queue and flush with the backend's recording | `coupon_events` |
| `CouponEventQueueProofs` | theorems about them; they implement `EventTally` | TLAPS |
| `TabCheckout` | one tab's checkout in the service worker | `tab_checkout` |
| `CouponRun` | the comparison of codes in the page | `coupon_run` |
| `AutoPopup` | the popup that opens by itself, for several tabs | `auto_popup` |
| `CheckoutProofs` | theorems about `CouponRun`, `TabCheckout` and `AutoPopup` | TLAPS |
| `DeviceAccess` | identity, status checks and Apply, with the backend's side | `device_access` |
| `DeviceAccessProofs` | theorems about them | TLAPS |
| `KioskAgent` | the Windows agent and the overlay processes it has started | `kiosk_agent` |
| `KioskAgentProofs` | theorems about them | TLAPS |
| `MC*` | instances and symmetry | |

Compositions: `PayoutTransfer` extends the ledger, `StoreSetupExtension` the setup backend;
`CouponEventQueue` and `DeviceAccess` hold both sides of their protocol in one module.
Abstract specifications: `KioskAccount` and `EventTally`, stated for the purpose, and `CommissionLedger` and
`StoreSetup`, which the modules that compose them are shown to implement.

### Correspondence

* **Ledger.** `event`, `adjustment`, `payout`, `kiosk` are the Prisma tables, restricted to
  the columns that carry money or decide about it. Each transaction runs at Serializable
  isolation with retry (`serializable.util.ts`), or is one conditional statement, so it is one action. The
  adapters' answers are read outside transactions by overlapping runs; hence any status may
  be applied to any order at any time. A device never changes location, so the kiosk of an
  order is a constant. Rows are not deleted: `cascade-delete.util.ts` refuses to delete
  anything with financial history. Amounts are cents; `Amount` is the width of
  `Decimal(10,2)`, and a statement that would overflow it fails, as in PostgreSQL.
  Payout periods are not modelled (the uniqueness of a period only stops a second run).
  `KioskAccount` says what all this may do to a kiosk: earn, take back, commit what was earned.
* **Transfer.** `call[c]` is what one running handler holds in its local variables; its `pc`
  names the await it is at. `startedAt` and `saved` are `transferStartedAt` and
  `stripeTransferId`. `stripe`, `key` and `webhooks` are Stripe's side. A handler can fail at
  every await (`CallFails`), which is also a crash of the process: nothing about a payout is
  kept in memory only. The branches of `recoverPayout` for a PROCESSING row that already has a
  transfer id, or has no start time, serve rows older than the claim protocol and are not
  modelled; `SavedIsSettled` shows the protocol leaves no row of the first kind, `ClaimTimes`
  (in the proofs) none of the second.
* **Store setup.** `request[r]` holds what a request has read and not yet written:
  the guard's session, or the reviewed draft and its `submittedAt`. A code is identified
  with its session (its hash is unique). `recipe` holds a draft or None, None being anything
  an admin wrote by hand. `lastSeenAt` and other displayed times are left out.
* **Extension store setup.** `stored` and `activation` are the two keys in chrome.storage.local;
  `redeem` is the running redemption (there is one at a time, `redeeming`), `fetch[r]` a
  call under the session, served through the backend's `request[r]`. `late` and `ends` are
  messages on their way that nobody waits for. Saving the activation and sending the
  request are one step: dying in between is the same as losing the request. A storage read
  and the removal decided on it are two steps, as they are two calls.
* **Setup panel.** `progress` is the panel's SetupProgress and `saved` the worker's copy.
  The flow awaits every save, but the page may go first, so a save arrives or is lost with the page
  (`Reload`). A part is an element: 0 none, 1 the first one chosen, 2 another. Choices the panel
  rejects or the admin cancels leave the screen as it was and are no steps. `Stop` ends setup
  and resets. `proven` is history: the control last seen to bring the total back.
* **Tab checkout.** `memory` and `interrupted` are the worker's Maps, `saved` and `pending` the keys in
  storage.session. `nav`, `confirm`, `apply` and `starting` are handlers between two awaits. Messages of a
  tab are handled in order (`messageQueues`), everything else overlaps; a recycled worker loses the Maps
  only, and only while no handler runs, as Chrome waits for events being handled. `applier` is what `CouponRun`
  looks like from outside: progress, then a result.
* **Coupon run.** `pc`, `phase` and `after` are the place in `main()`; one step is what the script does between
  two answers of the store. `cart`, `total` and `sent` are the store: it prices each submission anew, rejects, or stays silent
  until the deadline; a silence the page does not show (no busy sign) is taken for an answer, as the code takes it.
  `recipe.shows` says whether the store marks an accepted code; where it does not, only the price is known and
  the properties claim no more. `Stop` is dormancy or a route change, seen by `checkActive`.
* **Popup.** `autoPopupPending` is the one list for all tabs; reading it and writing it back are two steps of a
  handler, and handlers overlap. Two histories follow it: `waiting`, the tabs whose popup is owed to the shopper, and `met`, the
  handlers that found their checkout ready.
* **Coupon events.** `bound[e]` is the token stored with an event, read in a step before the event is stored. `flush` is
  the single-flight flush between awaits; `requests` are sent and not served, whether or not anyone
  still waits. Serving one is a single action: the transaction, or P2002's answer. `Switched` are the tokens whose
  devices are disabled and enabled.
* **Device access.** `check[c]` is a running `checkDeviceStatus`: it is sent with the token of the moment and its
  answer is judged by the identity found when it arrives. `native`, `redeem` and `apply` are the other handlers. The
  token and the reviewer record are read in one step. Secrets are numbered in the order they
  are generated. `redeem` holds the redemption that is waited for, with its code: the invite's own or another one, which the
  backend refuses. `late[i]` are redemptions that nobody waits for any more; each reaches the backend by itself, before or after
  a retry with the same secret, and is granted or refused by the state of the invite then. `givenUp` is a history: the secrets
  removed from storage while they had a session or a request underway. `live` is expiry and revocation of the invite; other
  installations of it, and a second invite, are not modelled. The agent's message may come whenever a port is open.
* **Agent.** `pc` is the place in the cycle. The overlay is an actor of its own: `process[s]`. One that is
  launching holds what the script file says, since it reads it later and every dispatch rewrites it. `result`
  and `lock` are the two shared files; writing a receipt or taking the lock may fail silently. The task
  scheduler may ignore a start while a process runs. A logoff kills the processes and neither the lock file nor the agent.
  A write of the state file may be cut short by the agent's end, and is then read as an empty file. Failures of
  WMI or of the launch are one outcome: the dispatch fails. Attempt ids are unique in the code and recycled in the model once nobody
  holds them.

In `PROJECT.json`, "map" gives for each definition the lines it stands for. Operators named
`X_Fault` before a definition `X` are seeded faults: plausible bugs that the
properties must be able to see. They are used by no specification.

## 3. What the runs check

| Run | Instance | Distinct states | Shows |
|---|---|---|---|
| `ledger` | two kiosks, two shares, three orders of one kiosk, three payouts | 162,168 | `TotalsExplained`: a payout's total is what its rows add up to, at every moment. `PayableIsConfirmed`: nothing pending, reversed or foreign waits in a payout. `BalanceConserved`: earned = in payouts + unswept + open deductions, so no cent is lost or doubled. `ClaimFreezes`, `ClaimedRowsStay`: claimed payouts and their rows do not change. `NeverOverpays`: the ledger implements `KioskAccount` |
| `transfer` | one payout, two concurrent calls, room for a second transfer, two accounts, an unreliable Stripe | 626,058 | `AtMostOneTransfer`, `TransferMatchesPayout` (amount and destination as claimed), `SavedIsSettled`, `NotifiedOnce` |
| `transfer_live` | two calls, fairness, a Stripe that lists completely and redelivers | 11,478 | `TransferRecorded`, `ReversalRecorded`: what Stripe did reaches the row, whoever died |
| `store_setup` | two stores, codes, installs, drafts and requests | 914,856 | `OneLivePerStore`, `LiveRecipeWasSaved`, `SavedWasReviewed`, `EndedIsFinal`, `OneInstallPerCode` |
| `setup_extension` | one store, two codes, one install with two secrets, a second install | 514,604 | `AnswerIsOwn`, `SecretStaysGood`: an answer lost or late never binds a secret to another code. `ReplacedIsEnded`: a session replaced is ended or on its way |
| `setup_flow` | two parts chosen anew, two page loads or stops | 2,769,590 | `RemovalProven`, `SentIsTested`, `ReloadRemembered` |
| `coupon_events` | two events about one coupon, two tokens, one of them switched | 129,240 | `NothingDropped`, `CountsOnce` (implements `EventTally`), `EventLeaves`: no event blocks those behind it for good |
| `tab_checkout` | a checkout and another page, two documents, two runs, and one route change, expiry, setup, dormancy change or recycling | 2,261,938 | `ResumesOnce`, `TestingEnds`, `ResultStays` |
| `coupon_run` | two codes, prices 1 to 4, an earlier code of the shopper or none, every kind of recipe | 268,392 | `ReportTrue`: what is reported is what the cart costs, and no better quote was passed over. `OriginalBack`, `StopsWriting`, `RunEnds` |
| `auto_popup` | two checkouts and another window, two handlers at a time | 208,123 | `PendingListSound`: a deferred or refused popup is pending once the handlers returned (`DeferralKept`), unless a write-back erased it, and what a write-back restores opens no popup over an ended checkout (`OpensForReady`) |
| `device_access` | one agent and one invite, two secrets, one late redemption, a check and an Apply, two worker ends or changes on the backend | 1,109,322 | `OneInstallation`: lost answers, late requests and restarts cost no second installation. `RunsWhileGranted`, `FollowsAccess`: the extension sleeps and wakes with its access |
| `kiosk_agent` | a ONCE and an EVERY_LOGIN announcement, one overlay at a time, three attempts | 394,862 | `RecordedWasSeen`, `NoShowingTooMany`, `CatchesUp`: announcements get their turn and a disabled device loses its token |

**Bounds.** The hazards are about two of something: two orders in one payout (one reversed,
one kept) with a third still to come, payouts of one kiosk one after another (debt carried
from one to the next), two calls observing one transfer, two requests on one session, two
codes, two tokens, two announcements of which one fails. One more adds no new conflict, as every transaction touches one
kiosk, payout or session at a time and every file or key has one value.

* The clock runs to the point where the retry window, and then the key's life, have passed
  (`transfer`), or codes and sessions have expired while others have not (`store_setup`).
* Commissions are chosen so that a reversal can leave a payout positive, empty or in debt. The instance has no mock
  order; that one is never payable is proved for every set of them (`OnlyConfirmedIsPayable`).
* In `setup_extension` one store is enough: the install compares session ids and never stores.
* `TabCheckout!MaxEvents` bounds the rare events together, navigations and runs have bounds of their own:
  each pair of an ordinary flow and one disturbance is covered. `MaxQueue` bounds messages the worker has not handled.
* `SetupFlow!MaxRedo` and `MaxLoads` count parts thrown away and pages loaded; two of each let an interruption
  happen while an earlier one is being repaired. The theorems do not need them.
* `CouponRun!Base` makes three different discounts possible: a better, an equal and a worse quote.
* `KioskAgent!Slots` is one because the scheduled task ignores a start while its process runs; the safety theorems hold for any
  number, the last with the condition that section 4 names.
* `DeviceAccess!MaxEvents` bounds worker ends and thrown switches together: off and on again, or one of each. One late request is enough to
  arrive after a refused retry, between two secrets or after the agent took over (`MaxLate`).
* `AutoPopup`: two handlers overlap for one tab or for two; a third could only undo what two can. The theorem is for any number.

No bound is part of a theorem except where it is a constant of the specification, which the theorems leave arbitrary.
`CHECK_DEADLOCK FALSE` is set where the system may simply have nothing left to do: all orders
reversed, all payouts settled, the clock at its bound, a run reported, a setup finished.

**Fairness.** Every `SF`/`WF` is an obligation the code gives itself:

* `PayoutTransfer`: `recoverProcessingPayouts` runs every five minutes and takes every PROCESSING payout, so
  recovering one that stays PROCESSING is strongly fair; Stripe redelivers a webhook until it is
  acknowledged; an attempt that can be made again and again is not the failing one for ever. A hung
  call ends by its timeout. Nothing is assumed about admins or the network's reports. The live
  instance sets `StripeReliable`: listings complete, webhooks not dropped. Without it the claim would be
  false, and the code does not make it.
* `CouponEventQueue`: a flush is started by the recovery alarm every minute and waits at most 15 s for an answer.
  That the worker does not end, nor the network fail, at the same await for ever is strong fairness of
  the steps. `EventLeaves` claims nothing for an event whose token was replaced.
* `CouponRun`: `main()` goes on; every wait in it has a deadline. Nothing is assumed of the store.
* `KioskAgent`: the timer runs the cycle, its waits end, the network is not down at each poll, half an
  hour passes for a lock. Nothing is assumed of the overlay, the user, or a dead agent.
* `DeviceAccess`: alarms fire, a started check is answered and taken, grace ends. Nothing is assumed of users,
  administrators, the agent, the network or a redemption underway.

## 4. What is proved

For every value of the constants, under the assumptions named in the modules (distinct model values,
positive limits, a payload for each event, finitely many orders and overlay processes). Type correctness is proved for every
module that models a component.

**Ledger** (`CommissionLedgerProofs`): `LedgerTypeCorrect`, `OnlyConfirmedIsPayable`, `ClaimIsFrozen`,
`ClaimedRowsAreKept`, `TotalsAreExplained`, `MoneyIsConserved`, `PaymentsAreCovered`. The inductive invariant `LedgerInv` joins `TypeOK` and
`PayableIsConfirmed` with two facts they need: a payout that exists has a kiosk
(`PayoutHasKiosk`), and orders are attached only to payouts that exist
(`AttachedToPayout`); without them a sweep could hand out a payout id that rows already
point to. The last three theorems are about sums over sets of rows. Induction over data is out of the prover's reach, so
the lemmas about sums take instead a smallest subset that would refute them (`MinimalSet`): the fold of the community module
is the last entry of a table of partial sums (`SumIsFold`), such a table exists (`SumsExist`) and there is one (`SumUnique`).
That the sums are over finite sets is `FiniteAssumption`. Every transaction is then shown to move an amount from one side of the balance to another, and
`PaymentsAreCovered` reads the abstract account off the rows: each step earns, takes back, commits or stutters.

**Transfer** (`PayoutTransferProofs`): `TransferTypeCorrect`, `NeverPaidTwice`, `TransferAsClaimed`,
`SettledByItsTransfer`, `ToldOnce` and `ImplementsLedger`. "At most one transfer" is not
inductive by itself: a call waiting to create one could hold an old decision. What makes it work is
that Stripe still knows the key of any transfer a call could be about to repeat:
`CallInv` says that a call in `create` decided inside the retry window, no longer than `CallDelay` ago,
and `TransferInv` that a transfer is never older than its claim and stays behind its key
until it is `KeyLife` old; with `RetryWindow + CallDelay <= KeyLife` (23 h, and an hour's margin under Stripe's 24 h)
a create always meets a known key. `ClaimFreezes` gives that the replayed request has the same parameters.
`ImplementsLedger` maps every transfer step to a ledger step or a stutter, so the ledger's theorems
carry over; `MoneyStaysRight` says so for its sums.

**Store setup** (`StoreSetupExtensionProofs`): `OneLiveSession`, `LiveIsSaved`, `LiveIsReviewed`, `EndedStays`, `OneInstall`. The
argument goes by rows: a few lemmas say what any step can do to one session (issued, redeemed,
submitted, applied, ended), and every theorem follows from that list. `SavedWasReviewed` needs what a request
remembers (`RequestOK`): a loaded draft is the reviewed one as long as `submittedAt` is the one that was reviewed.

**Extension store setup** (the same module): `ImplementsSetup` (whatever the extension does, the backend takes one of its
own steps or none), `AnswersAreOwn`, `SecretsStayGood`, `ReplacedGetsEnded`. The strengthening `AttemptsInv` ranges over all
attempts there are: on the way, stored for a retry, being waited for. Two with the same secret are for the same code,
and a session bound to a secret is the session of that code.

**Setup panel** (`SetupFlowProofs`): `StepsNeverSkipped`, `RemovalIsProven`, `SendsTheTested`, `ReloadsAreRemembered`. `FlowInv`
says what each screen knows (`ScreenInv`), when panel and worker agree (`SyncInv`: unless a save is on its
way), what the removal mode stands for (`ModeInv`) and what the test result is about (`ResultInv`). It was
checked with TLC on the instance of `setup_flow` before it was proved. `StepsNeverSkipped` has no run of its own: it makes the
defensive returns for a missing recipe (`setup-flow.ts:1201`) unreachable.

**Coupon events** (`CouponEventQueueProofs`): `NeverDropped`, `ImplementsTally`. The strengthening is that an event about to be removed is
settled (`RemovalSettled`), and `SettledStays`: what the backend decided about an event is never taken back.

**Checkout** (`CheckoutProofs`), three modules that share no variable, each with an invariant of its own.

* Coupon run: `ReportsAreTrue`, `OriginalComesBack`, `WritingStops`. `RunInv` says where `main()` is and what it has
  established there (`Stages`, `BaselineInv`), that a submission in flight is the one being waited for or one the run knows
  it has lost track of (`SentInv`), and that at a store which shows what it accepts the code taken to be on the
  cart is there (`CartInv`). `NothingAssumption` keeps null apart from codes, totals and records.
* Tab checkout: `ResumedOnce`, `TestingIsLeft`, `ResultsStay`. "Not left at testing" is about what is still to come: `TestingInv`
  says that while the present document's state shows unfinished progress, a result it will take comes (`Comes`): from the
  applier at work in the page, or lying in the queue. `QueueInv` says that progress told in the present document is followed by
  its run's result, `StatesInv` that the Map, when it has a state, agrees with storage, `ResumedInv` that a resumed run is
  not redirected again. `NoneAssumption` keeps null apart from outcomes, states and runs.
* Popup: `PendingListIsSound`, for any number of overlapping handlers. `DeferralInv` says that a waiting popup is in the list or
  owed by a handler (`Owes`: about to write it, to open it or to try again), that its checkout is ready, and that a handler on its way to opening
  has met its checkout ready.

**Device access** (`DeviceAccessProofs`): `OneInstallationEach`, `NoRunWithoutAccess`. A secret in use, by a session or by a request
that may get it one, is the stored one or was given up (`SecretInv`); Apply has a check of its own only while it
waits for it, and that check is about a reviewer (`ApplyInv`).

**Agent** (`KioskAgentProofs`): `RecordsAreTrue`, `RetriesAreBounded`, `WindowsAreKept`, `ShownNoMoreThanAllowed`. A new attempt has an id that neither the receipt
file nor a process holds (`FreshId`, a pigeonhole argument), so a receipt with the awaited id is the awaited one. Dispatches
that were not recorded are the failed ones and the one being waited for (`BudgetInv`). `RetriesAreBounded` and `WindowsAreKept` are about
`RetriesBounded` and `NothingStacked`, which have no run: with one overlay at a time TLC would show less.
`ShownNoMoreThanAllowed` proves `NoShowingTooMany` under `Counted`: one overlay process at a time, as Task Scheduler ignores a
start while one runs, or no policy that shows more than once. Without either it is false: two stacked processes
reading one script both paint for one record, and TLC finds an announcement allowed twice dispatched after two showings. Its strengthening
`ShowingInv` says that what was seen and not lost is recorded or about to be (`SeenInv`), that a painted attempt's receipt
stays in the file until it is read (`HeardInv`), and which attempt a process works for (`ScriptInv`). It was checked
with TLC on the instance of `kiosk_agent` first.

**Only model-checked.** Liveness under fairness (`TransferRecorded`, `ReversalRecorded`, `EventLeaves`, `RunEnds`, `CatchesUp`,
`FollowsAccess`) and ENABLED are out of the prover's reach. Every other property of the runs is a theorem.

## 5. Known divergences

What the code does differently from what its comments or documents say, or in a way a maintainer would
want to know, found while modelling. The models follow the code; the properties are stated for what the code does keep, and
none of these is claimed away.

Extension:

* `store-setup.ts:196` promises to clear "only the session this request was made with, never one started meanwhile".
  Comparing (a read) and removing are two storage calls; a redemption that stored its session between them loses it,
  and the backend row stays CONNECTED until it expires. The test (`store-setup.spec.ts:188`) stores the new session
  before the rejection is answered, which works.
* `service-worker.ts:586`: the pending list is read and written back in two steps; handlers of two tabs can undo each
  other. A deferral written between another handler's read and its write-back is erased, and no tab switch tries again, against the comment at
  696-699: `waiting` therefore ends with such a write-back, and `DeferralKept` says that nothing else costs a deferral. An
  entry called off may come back; `OpensForReady` says that it opens nothing. The check of
  the window in front and `openPopup` are two calls as well, so the popup may open over another tab.
* `event-queue.ts:18`: the token is read when the event is stored, not when it was tried; after a hand-over an event can be
  reported under another device. Events of a replaced token never leave the storage.
* `coupon-applier.ts`: a winner that is not confirmed when put back is dropped for the shopper's own
  code although its quote was real.
* `setup-flow.ts:857`: a pick rejected after "Yes, that's it" falls through to choosing by hand; "Sent" is still shown after parts were changed later.
* `storage.ts:83`: the merchant cache is read and written back; two updates at a time lose one.
* `reviewer-access.ts:81`: between the last look at the device token and the writes the agent may store its token;
  the reviewer record is then left beside it and the extension is locked until the next check.
* `docs/reviewer-access.md:27` says that the secret "makes retries safe after a lost response without consuming an additional
  installation". Any 4xx but 429 removes the secret (`reviewer-access.ts:49`), also one that says nothing about the earlier
  requests: a retry refused while the switch is off, or a mistyped or other code entered after a lost grant. If an
  earlier request with it was granted, or arrives later and is, the code entered again takes a second installation. So does a code
  entered again after the access was stored. `OneInstallation` counts exactly the secrets not given up in one of these ways.

Agent:

* `announcement-state.ts:10`: EVERY_LOGIN relies on "one run == one login session"; the agent runs as SYSTEM and survives a
  logoff, so an announcement may not come back at the next login.
* `agent-status.ts:33`: an unreadable status file is read as active.
* An uninstall may run while a cycle is underway and writes its files again.

Backend:

* A lost reversal webhook of a PAID payout is not found by recovery, which only looks at PROCESSING rows
  (`payouts.service.ts:283`). A partly reversed transfer is booked like a full one (345). A FAILED payout keeps its
  events, which are not paid again (`commissions.service.ts:305`).
* The digest recomputes shares of reversed orders with today's percentage (`commissions.service.ts:377`).
* Two onboarding requests may create two Stripe accounts (`payouts.service.ts:124`); a delayed `account.updated` is applied
  from its payload (405).
* Drafts are told apart by `submittedAt` (`store-setup.service.ts:163`): two within a millisecond would pass for one.
  An administrator disabled between guard and write (`setup-session.guard.ts:24`) is not noticed.

## 6. Not modelled

* Page and selector heuristics, cart totals, URL and cookie patterns, feed and page parsing, e-mail wording, JWT and
  password handling, the installer, registry and scheduler calls of the agent, the dashboard's pages. They are data or
  I/O without a protocol. They are most of the repository's lines, so the map covers a small share of them.
* In modelled components: payout periods, digest mails, recipe validation, rate limits, the backend address pinned
  to a setup session, time windows and media of announcements, pagination.
* Steps taken as one where the code awaits between them: the token and the reviewer record of a request (`api-client.ts:29`),
  `loadTabState` after a recycled worker (`service-worker.ts:131`), get and remove of the pending apply (`storage.ts:156`).
* Dormancy set by a 401 or 403 of other calls than the status check, the identity-change listener (`service-worker.ts:204`).
* Storage that refuses a write: a failed save of the setup panel (`content-scripts/store-setup.ts:11`), a failed write that truncates the agent's
  state file (`announcement-state.ts:56`; one cut short by the agent's end is modelled). The overlay's page (`overlay.ts:689`) is
  taken to be the one its script was written for.
* Which tab is in setup mode (`store-setup-tabs.ts`) beyond what `TabCheckout` sees of it, stand-down records, freshness of scraped coupons, recipe probes,
  `account.updated`: the protocols that are left, see the plan.

## 7. Plan

Done: ledger with its abstract account, transfer, store setup with both sides, the panel, coupon events with
their abstract tally, tab checkout, coupon run, popup, device access, agent; proofs for all of them.

Next, in this order:

1. `TabCheckout` composed with `CouponRun`, in place of its `applier`.
2. `StripeConnect`: onboarding links and `account.updated`, composed with `ConnectStripe`.
3. `CouponFreshness`, `StandDown`, `RecipeHealth`.
4. A lock per tab as the abstract specification of setup mode against shopper mode.

## 8. Running

    tlc -workers 2 -config MCCommissionLedger.cfg MCCommissionLedger.tla
    tlc -workers 2 -config MCPayoutTransferLive.cfg MCPayoutTransfer.tla
    tlapm CommissionLedgerProofs.tla

`PROJECT.json` lists each run's module and configuration. Runs take seconds to four minutes; the largest proof module
takes about four minutes.
