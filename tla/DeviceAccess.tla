---------------------------- MODULE DeviceAccess ----------------------------
(***************************************************************************)
(* Who the extension is to the backend, and whether it may act: the device *)
(* token pushed by the desktop agent, a reviewer's temporary access, the   *)
(* dormant flag and the status checks that set it                          *)
(* (apps/extension/src/lib/native-messaging.ts, status-check.ts,           *)
(* reviewer-access.ts, api-client.ts, storage.ts, service-worker.ts;       *)
(* apps/backend/src/reviewers, common/guards/device-auth.guard.ts).        *)
(*                                                                         *)
(* Every storage call and every request is an await: a check, a redemption,*)
(* the agent's message and a press of Apply overlap freely, and the worker *)
(* may be ended between any two of their steps.                            *)
(***************************************************************************)
EXTENDS Naturals, FiniteSets

CONSTANTS MaxSecrets,        \* bound: activation secrets the browser generates
          maxInstallations,  \* of the reviewer's invite
          Callers,           \* bound: status checks at one time, "apply" among them
          MaxLate,           \* bound: redemptions underway that nobody waits for
          MaxEvents          \* bound: switches thrown at the backend, and worker ends

ASSUME AccessAssumption ==
    /\ MaxSecrets \in Nat /\ maxInstallations \in Nat \ {0}
    /\ "apply" \in Callers
    /\ MaxLate \in Nat /\ MaxEvents \in Nat

\* Tokens: 0 for none, the secrets in the order they are generated, the agent's.
None == 0
Secrets == 1..MaxSecrets
Device == MaxSecrets + 1
Tokens == Secrets \cup {Device}

NoCheck == [pc |-> "idle", token |-> None]
NoRedeem == [pc |-> "idle", secret |-> None, code |-> "own"]

VARIABLES
    \* Backend.
    deviceOk,      \* device and kiosk active
    enabled,       \* the master switch of reviewer access
    live,          \* the invite is neither revoked nor expired
    sessions,      \* secrets with a ReviewerSession
    online,        \* the backend is reached
    \* chrome.storage.local.
    deviceToken, reviewerAccess, reviewerActivation, dormant,
    lastStatusOkAt,  \* "recent", or "none": absent or out of the grace period
    \* The worker.
    check,         \* the running status checks
    native,        \* setDeviceToken: "idle", or storing with the access it found: "set" "clear"
    redeem,        \* activateReviewer, with the secret and the code it was asked with
    apply,         \* startApply: "idle" "awake" "checking"
    \* Environment and history.
    late,          \* the secrets of redemptions underway that nobody waits for any more
    used,          \* secrets generated so far
    events,        \* counter of the bound
    granted,       \* a reviewer had access at some time since Apply was pressed
    givenUp        \* secrets given up while they had a session or a request underway

backend == <<deviceOk, enabled, live, sessions, online>>
identity == <<deviceToken, reviewerAccess, reviewerActivation>>
storage == <<identity, dormant, lastStatusOkAt>>
worker == <<check, native, redeem, apply>>
redemption == <<late, used, givenUp>>
vars == <<backend, storage, worker, redemption, events, granted>>

TypeOK ==
    /\ deviceOk \in BOOLEAN /\ enabled \in BOOLEAN /\ live \in BOOLEAN
    /\ sessions \subseteq 1..used /\ Cardinality(sessions) <= maxInstallations
    /\ online \in BOOLEAN
    /\ deviceToken \in {Device, None} /\ dormant \in BOOLEAN
    /\ reviewerAccess \in sessions \cup {None}
    /\ reviewerActivation \in 0..used
    /\ lastStatusOkAt \in {"none", "recent"}
    /\ check \in [Callers -> [pc : {"idle", "sent", "ok", "refused", "failed"},
                              token : Tokens \cup {None}]]
    /\ native \in {"idle", "set", "clear"}
    /\ redeem \in [pc : {"idle", "asked", "storing", "stored"}, secret : 0..used,
                   code : {"own", "other"}]
    /\ redeem.pc # "idle" => redeem.secret # None
    /\ apply \in {"idle", "awake", "checking"}
    /\ late \in [1..MaxLate -> 0..used] /\ used \in 0..MaxSecrets
    /\ events \in 0..MaxEvents /\ granted \in BOOLEAN /\ givenUp \subseteq Secrets

Init ==
    /\ deviceOk = TRUE /\ enabled = TRUE /\ live = TRUE
    /\ sessions = {} /\ online = TRUE
    /\ deviceToken = None /\ reviewerAccess = None /\ reviewerActivation = None
    /\ dormant = TRUE /\ lastStatusOkAt = "none"
    /\ check = [c \in Callers |-> NoCheck]
    /\ native = "idle" /\ redeem = NoRedeem /\ apply = "idle"
    /\ late = [i \in 1..MaxLate |-> None] /\ used = 0 /\ events = 0
    /\ granted = FALSE /\ givenUp = {}

-----------------------------------------------------------------------------
(* What the steps are decided by.                                          *)

getReviewerAccess == IF deviceToken # None THEN None ELSE reviewerAccess
getDeviceToken == IF deviceToken # None THEN deviceToken ELSE getReviewerAccess

\* ReviewersService.authenticate (switch, revocation and expiry, at every
\* request) and DeviceAuthGuard.
Accepted(t) == IF t = Device THEN deviceOk ELSE t \in sessions /\ enabled /\ live

\* The identity in storage has access now.
HasAccess == Accepted(getDeviceToken)

\* A secret may cost an installation: it has a session, or a request that may get it one.
Underway(s) == \/ \E i \in 1..MaxLate : late[i] = s
               \/ redeem = [pc |-> "asked", secret |-> s, code |-> "own"]
InUse(s) == s \in sessions \/ Underway(s)

\* The activation secret is removed from storage.
Drop ==
    /\ reviewerActivation' = None
    /\ givenUp' = givenUp \cup {s \in Secrets : s = reviewerActivation /\ InUse(s)'}

-----------------------------------------------------------------------------
(* checkDeviceStatus, for each of its callers.                             *)

\* apiFetch: with no token it fails like a refusal.
Begin(c) ==
    /\ check[c].pc = "idle"
    /\ check' = [check EXCEPT ![c] = [pc |-> IF getDeviceToken = None THEN "refused" ELSE "sent",
                                      token |-> getDeviceToken]]

Answer(c) ==
    /\ check[c].pc = "sent"
    /\ check' = [check EXCEPT ![c] = [NoCheck EXCEPT !.pc =
          IF ~online THEN "failed"
          ELSE IF Accepted(check[c].token) THEN "ok" ELSE "refused"]]
    /\ UNCHANGED <<backend, storage, native, redeem, apply, redemption, events>>

\* Seeded fault of DormantAfter: a failed check leaves the flag as it is.
DormantAfter_Lenient(answer) == answer = "refused" \/ (answer = "failed" /\ dormant)

\* No grace after a refusal nor for a reviewer; a managed device rides on a
\* recent confirmation.
DormantAfter(answer) ==
    \/ answer = "refused"
    \/ answer = "failed" /\ (getReviewerAccess # None \/ lastStatusOkAt # "recent" \/ dormant)

\* The answer is taken, by the identity there is now.
checkDeviceStatus(c) ==
    /\ check[c].pc \in {"ok", "refused", "failed"}
    /\ dormant' = DormantAfter(check[c].pc)
    /\ lastStatusOkAt' = IF check[c].pc = "ok" THEN "recent" ELSE lastStatusOkAt
    /\ check' = [check EXCEPT ![c] = NoCheck]

Finish(c) ==
    /\ checkDeviceStatus(c)
    /\ apply' = IF c = "apply" THEN "idle" ELSE apply
    /\ UNCHANGED <<backend, identity, native, redeem, redemption, events>>

\* The status alarm; initialize() at browser start and from the recovery alarm
\* while dormant; the recovery alarm and the popup for a reviewer.
Poll ==
    /\ \E c \in Callers \ {"apply"} : Begin(c)
    /\ UNCHANGED <<backend, storage, native, redeem, apply, redemption, events>>

\* STATUS_GRACE_PERIOD_MS passes.
GraceEnds ==
    /\ lastStatusOkAt = "recent" /\ lastStatusOkAt' = "none"
    /\ UNCHANGED <<backend, identity, dormant, worker, redemption, events>>

-----------------------------------------------------------------------------
(* The agent's message: setDeviceToken.                                    *)

\* It comes whenever a port is open; it reads the access there is,
NativeRead ==
    /\ native = "idle" /\ deviceToken = None
    /\ native' = IF reviewerAccess # None THEN "clear" ELSE "set"
    /\ UNCHANGED <<backend, storage, check, redeem, apply, redemption, events>>

\* stores the token,
NativeStore ==
    /\ native # "idle" /\ deviceToken = None
    /\ deviceToken' = Device
    /\ native' = IF native = "clear" THEN "clear" ELSE "idle"
    /\ UNCHANGED <<backend, reviewerAccess, reviewerActivation, dormant, lastStatusOkAt,
                   check, redeem, apply, redemption, events>>

\* and clears what it replaces.
NativeClear ==
    /\ native = "clear" /\ deviceToken # None /\ native' = "idle"
    /\ reviewerAccess' = None /\ lastStatusOkAt' = "none"
    /\ UNCHANGED <<backend, deviceToken, dormant, check, redeem, apply, late, used, events>>
    /\ Drop

-----------------------------------------------------------------------------
(* activateReviewer, offered by the popup of a dormant extension.          *)

\* Seeded fault of Secret: a new one at every attempt.
Secret_Fresh == used + 1

\* The stored secret, or a new one.
Secret == IF reviewerActivation # None THEN reviewerActivation ELSE used + 1

\* redeem() up to its request, with the code of the invite or with one the backend
\* does not take; refused at once when the agent is connected.
RedeemSend ==
    /\ redeem.pc = "idle" /\ dormant /\ deviceToken = None
    /\ Secret <= MaxSecrets
    /\ reviewerActivation' = Secret
    /\ \E code \in {"own", "other"} :
          redeem' = [pc |-> "asked", secret |-> Secret, code |-> code]
    /\ used' = IF Secret > used THEN Secret ELSE used
    /\ UNCHANGED <<backend, deviceToken, reviewerAccess, dormant, lastStatusOkAt,
                   check, native, apply, late, events, givenUp>>

\* ReviewersService.redeem, serializable.
Redeemable(s) ==
    enabled /\ live /\ (s \in sessions \/ Cardinality(sessions) < maxInstallations)
Grants(s, code) == code = "own" /\ Redeemable(s)
BackendRedeem(s, code) ==
    /\ sessions' = IF Grants(s, code) THEN sessions \cup {s} ELSE sessions
    /\ UNCHANGED <<deviceOk, enabled, live, online>>

\* Granted: unless the agent connected meanwhile, the access is stored next.
AnswerGranted ==
    /\ redeem.pc = "asked" /\ online /\ Grants(redeem.secret, redeem.code)
    /\ BackendRedeem(redeem.secret, redeem.code)
    /\ redeem' = IF deviceToken # None THEN NoRedeem ELSE [redeem EXCEPT !.pc = "storing"]
    /\ UNCHANGED <<storage, check, native, apply, redemption, events>>

\* A verdict against the request, for the code or for the state of the invite: the
\* secret is given up, whatever became of earlier requests with it.
AnswerRefused ==
    /\ redeem.pc = "asked" /\ online /\ ~Grants(redeem.secret, redeem.code)
    /\ BackendRedeem(redeem.secret, redeem.code)
    /\ redeem' = NoRedeem
    /\ UNCHANGED <<deviceToken, reviewerAccess, dormant, lastStatusOkAt,
                   check, native, apply, late, used, events>>
    /\ Drop

\* The caller stops waiting: the request is lost, or stays on its way.  (One with
\* another code changes nothing when it arrives.)
Abandon ==
    \/ late' = late
    \/ /\ redeem.pc = "asked" /\ redeem.code = "own"
       /\ \E i \in 1..MaxLate : late[i] = None /\ late' = [late EXCEPT ![i] = redeem.secret]

\* No answer, or no verdict (429, 5xx): the secret is kept.
RedeemFails ==
    /\ redeem.pc = "asked" /\ redeem' = NoRedeem /\ Abandon
    /\ UNCHANGED <<backend, storage, check, native, apply, used, events, givenUp>>

\* A request nobody waits for any more reaches the backend, before or after a retry.
\* (One whose answer is lost is this, after RedeemFails.)
LateRequest(i) ==
    /\ late[i] # None /\ late' = [late EXCEPT ![i] = None]
    /\ BackendRedeem(late[i], "own")
    /\ UNCHANGED <<storage, worker, used, events, givenUp>>

\* Once stored, a code entered again starts with a new secret.
RedeemStores ==
    /\ redeem.pc = "storing" /\ redeem' = [redeem EXCEPT !.pc = "stored"]
    /\ reviewerAccess' = redeem.secret /\ lastStatusOkAt' = "none"
    /\ UNCHANGED <<backend, deviceToken, dormant, check, native, apply, late, used, events>>
    /\ Drop

\* Locked until a check succeeds.
RedeemLocks ==
    /\ redeem.pc = "stored" /\ redeem' = NoRedeem /\ dormant' = TRUE
    /\ UNCHANGED <<backend, identity, lastStatusOkAt, check, native, apply, redemption, events>>

-----------------------------------------------------------------------------
(* startApply.                                                             *)

PressApply ==
    /\ apply = "idle" /\ ~dormant /\ apply' = "awake"
    /\ UNCHANGED <<backend, storage, check, native, redeem, redemption, events>>

\* Seeded fault of Recheck: the dormant flag is enough for everybody.
Recheck_Never == apply' = "idle" /\ check' = check

\* A reviewer is checked again before the run.
Recheck ==
    IF getReviewerAccess # None THEN apply' = "checking" /\ Begin("apply")
                                ELSE apply' = "idle" /\ check' = check

StartApply ==
    /\ apply = "awake" /\ Recheck
    /\ UNCHANGED <<backend, storage, native, redeem, redemption, events>>

\* The steps with which startApply goes on to the run.
RunStarts == /\ events' = events /\ apply' = "idle"
             /\ apply = "awake" \/ (apply = "checking" /\ ~dormant')

-----------------------------------------------------------------------------
(* The backend's administrators, the network, the browser.                 *)

Change ==
    /\ events < MaxEvents /\ events' = events + 1
    /\ \/ deviceOk' = ~deviceOk /\ UNCHANGED <<enabled, live>>
       \/ enabled' = ~enabled /\ UNCHANGED <<deviceOk, live>>
       \/ live /\ live' = FALSE /\ UNCHANGED <<deviceOk, enabled>>
    /\ UNCHANGED <<sessions, online, storage, worker, redemption>>

Network ==
    /\ online' = ~online
    /\ UNCHANGED <<deviceOk, enabled, live, sessions, storage, worker, redemption, events>>

\* The service worker is ended; storage and the requests underway remain.
WorkerEnds ==
    /\ events < MaxEvents /\ events' = events + 1
    /\ check' = [c \in Callers |-> NoCheck]
    /\ native' = "idle" /\ redeem' = NoRedeem /\ apply' = "idle" /\ Abandon
    /\ UNCHANGED <<backend, storage, used, givenUp>>

Checks == \E c \in Callers : Answer(c) \/ Finish(c)
Native == NativeStore \/ NativeClear
Redeem == AnswerGranted \/ AnswerRefused \/ RedeemFails \/ RedeemStores \/ RedeemLocks

\* History: a reviewer's session was accepted since Apply was pressed.
SomeReviewerAccepted == \E s \in Secrets : Accepted(s)
Watched(action) ==
    /\ action
    /\ granted' = (apply' # "idle" /\ (SomeReviewerAccepted' \/ (granted /\ apply # "idle")))

Next ==
    Watched(\/ Checks \/ Poll \/ GraceEnds \/ NativeRead \/ Native
            \/ RedeemSend \/ Redeem
            \/ \E i \in 1..MaxLate : LateRequest(i)
            \/ PressApply \/ StartApply \/ Change \/ Network \/ WorkerEnds)

Spec == Init /\ [][Next]_vars

\* The alarms fire, a check started is answered and taken, the grace period
\* passes.  Nothing is assumed of users, administrators, the agent, the network,
\* or of a redemption underway.
LiveSpec ==
    /\ Spec
    /\ \A c \in Callers : WF_vars(Watched(Answer(c) \/ Finish(c)))
    /\ WF_vars(Watched(Poll)) /\ WF_vars(Watched(GraceEnds))

-----------------------------------------------------------------------------
(* Properties.                                                             *)

\* A reviewer's run starts only if access was granted at some time after Apply
\* was pressed, whatever was switched off while the worker had not polled yet
\* (service-worker.ts:781).
RunsWhileGranted ==
    [][RunStarts /\ getReviewerAccess # None => granted]_vars

\* One activation uses one installation of the invite, through lost answers, requests
\* that arrive after a retry, other codes and worker restarts: of the secrets that were
\* not given up while in use, at most one has a session.  A secret is given up when the
\* access is stored, when the agent takes over, or on a verdict against a retry, though
\* an earlier request with it was granted or still is on its way (reviewer-access.ts:30).
OneInstallation == Cardinality(sessions \ givenUp) <= 1

\* Without access or without the network the extension goes dormant for good:
\* stale answers, grace and overlapping checks only delay it (status-check.ts:23).
\* With both it wakes up for good, also after a redemption locked it or the agent
\* took over from a reviewer (service-worker.ts:173).
FollowsAccess ==
    /\ <>[](~online \/ ~HasAccess) => <>[]dormant
    /\ <>[](online /\ HasAccess) => <>[]~dormant
=============================================================================
