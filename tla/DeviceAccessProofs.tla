------------------------- MODULE DeviceAccessProofs -------------------------
(***************************************************************************)
(* Proofs about DeviceAccess, for any number of secrets, installations,    *)
(* callers and worker restarts: one activation uses one installation, and  *)
(* a reviewer's run does not start on a permission that is gone.           *)
(***************************************************************************)
EXTENDS DeviceAccess, FiniteSetTheorems, TLAPS

\* A secret that has a session, or a request that may get it one, is the stored one or
\* was given up.
SecretInv == \A s \in Secrets : InUse(s) => s = reviewerActivation \/ s \in givenUp

\* Apply has a check of its own only while it waits for it; that check is about a
\* reviewer, and a good answer to it was given since Apply was pressed.
ApplyInv ==
  /\ apply # "checking" => check["apply"].pc = "idle"
  /\ apply = "checking" => /\ check["apply"].pc = "sent" => check["apply"].token \in Secrets
                           /\ check["apply"].pc = "ok" => granted

\* What is about to be stored was granted.
StoringInv == redeem.pc = "storing" => redeem.secret \in sessions

AccessInv == TypeOK /\ SecretInv /\ ApplyInv /\ StoringInv

\* The conjuncts of TypeOK in three parts.
Check == [pc : {"idle", "sent", "ok", "refused", "failed"}, token : Tokens \cup {None}]
SwitchType == /\ deviceOk \in BOOLEAN /\ enabled \in BOOLEAN /\ live \in BOOLEAN
              /\ online \in BOOLEAN /\ events \in 0..MaxEvents
Redemption(u) == [pc : {"idle", "asked", "storing", "stored"}, secret : 0..u,
                  code : {"own", "other"}]
ReviewerType ==
  /\ used \in 0..MaxSecrets
  /\ sessions \subseteq 1..used /\ late \in [1..MaxLate -> 0..used]
  /\ Cardinality(sessions) <= maxInstallations
  /\ deviceToken \in {Device, None}
  /\ reviewerAccess \in sessions \cup {None} /\ reviewerActivation \in 0..used
  /\ redeem \in Redemption(used) /\ (redeem.pc # "idle" => redeem.secret # None)
  /\ native \in {"idle", "set", "clear"} /\ givenUp \subseteq Secrets
WorkerType ==
  /\ check \in [Callers -> Check] /\ apply \in {"idle", "awake", "checking"}
  /\ granted \in BOOLEAN /\ dormant \in BOOLEAN /\ lastStatusOkAt \in {"none", "recent"}

LEMMA TypeParts == TypeOK <=> SwitchType /\ ReviewerType /\ WorkerType
BY DEF TypeOK, SwitchType, ReviewerType, WorkerType, Check, Redemption

LEMMA TokenTypes ==
  ASSUME ReviewerType
  PROVE  /\ getReviewerAccess \in Secrets \cup {None}
         /\ getDeviceToken \in Tokens \cup {None}
         /\ getReviewerAccess # None => getDeviceToken \in Secrets
BY AccessAssumption
   DEF ReviewerType, getReviewerAccess, getDeviceToken, Secrets, Tokens, Device, None

\* One kind of step after another, without the history that Watched keeps.
Step == \/ Checks \/ Poll \/ GraceEnds \/ NativeRead \/ Native \/ RedeemSend \/ Redeem
        \/ \E i \in 1..MaxLate : LateRequest(i)
        \/ PressApply \/ StartApply \/ Change \/ Network \/ WorkerEnds
History ==
  granted' = (apply' # "idle" /\ (SomeReviewerAccepted' \/ (granted /\ apply # "idle")))

LEMMA NextSteps == Next => Step /\ History
BY DEF Next, Watched, Step, History

-----------------------------------------------------------------------------
(* The reviewer's secrets and what becomes of them *)

reviewerVars == <<used, sessions, late, deviceToken, reviewerAccess, reviewerActivation,
                  redeem, native, givenUp>>
ReviewerInv == ReviewerType /\ SecretInv /\ StoringInv

LEMMA QuietSteps ==
  ASSUME NEW c \in Callers, Answer(c) \/ Finish(c)
  PROVE  UNCHANGED reviewerVars
BY DEF Answer, Finish, reviewerVars, backend, storage, identity, redemption

LEMMA OtherQuietSteps ==
  ASSUME \/ Poll \/ GraceEnds \/ PressApply \/ StartApply \/ Change \/ Network
  PROVE  UNCHANGED reviewerVars
BY DEF Poll, GraceEnds, PressApply, StartApply, Change, Network, reviewerVars, backend, storage,
       identity, redemption, worker

LEMMA NoRedeemTyped ==
  ASSUME ReviewerType
  PROVE  NoRedeem \in Redemption(used) /\ NoRedeem.pc = "idle"
BY AccessAssumption DEF NoRedeem, None, ReviewerType, Redemption

\* A redemption that is answered goes on, or is over.
LEMMA RedeemParts ==
  ASSUME ReviewerType, redeem.pc # "idle"
  PROVE  /\ redeem.secret \in Secrets /\ redeem.secret \in 1..used
         /\ \A pc : [redeem EXCEPT !.pc = pc]
                      = [pc |-> pc, secret |-> redeem.secret, code |-> redeem.code]
         /\ redeem = [pc |-> redeem.pc, secret |-> redeem.secret, code |-> redeem.code]
BY AccessAssumption DEF ReviewerType, Redemption, Secrets, None

\* What the backend makes of a request.
LEMMA BackendPart ==
  ASSUME ReviewerType, NEW s \in 1..used, NEW code, BackendRedeem(s, code)
  PROVE  /\ sessions' \subseteq 1..used /\ Cardinality(sessions') <= maxInstallations
         /\ sessions \subseteq sessions' /\ sessions' \subseteq sessions \cup {s}
         /\ code # "own" => sessions' = sessions
<1> USE AccessAssumption
<1>2. IsFiniteSet(sessions) /\ Cardinality(sessions) \in Nat
  <2>1. IsFiniteSet(1..used)
    BY FS_Interval DEF ReviewerType
  <2> QED
    BY <2>1, FS_Subset, FS_CardinalityType DEF ReviewerType
<1>3. CASE sessions' = sessions
  BY <1>3 DEF ReviewerType
<1>4. CASE sessions' = sessions \cup {s} /\ Grants(s, code) /\ s \notin sessions
  <2>1. Cardinality(sessions \cup {s}) = Cardinality(sessions) + 1
    BY <1>2, <1>4, FS_AddElement
  <2>2. Cardinality(sessions) < maxInstallations /\ code = "own"
    BY <1>4 DEF Grants, Redeemable
  <2> QED
    BY <1>2, <1>4, <2>1, <2>2 DEF ReviewerType
<1> QED
  BY <1>3, <1>4 DEF BackendRedeem

\* A secret removed from storage is given up if it is still in use.
LEMMA DropKeeps ==
  ASSUME SecretInv, Drop, \A s \in Secrets : InUse(s)' => InUse(s)
  PROVE  SecretInv'
BY DEF SecretInv, Drop

\* Steps that store no other secret and bring none into use.
LEMMA SecretFrame ==
  ASSUME SecretInv, UNCHANGED <<reviewerActivation, givenUp>>,
         \A s \in Secrets : InUse(s)' => InUse(s)
  PROVE  SecretInv'
BY DEF SecretInv

\* An abandoned request is lost or late, and stays in use.
LEMMA AbandonPart ==
  ASSUME ReviewerType, Abandon, UNCHANGED <<sessions, used>>, redeem' = NoRedeem
  PROVE  /\ late' \in [1..MaxLate -> 0..used]
         /\ \A s \in Secrets : InUse(s)' => InUse(s)
<1> USE AccessAssumption
<1>1. ~(\E s \in Secrets : redeem' = [pc |-> "asked", secret |-> s, code |-> "own"])
  BY DEF NoRedeem
<1>2. CASE late' = late
  BY <1>1, <1>2 DEF ReviewerType, InUse, Underway
<1>3. CASE redeem.pc = "asked" /\ redeem.code = "own" /\ late' # late
  <2>1. PICK i \in 1..MaxLate : late' = [late EXCEPT ![i] = redeem.secret]
    BY <1>3 DEF Abandon
  <2>2. redeem.secret \in 1..used
        /\ redeem = [pc |-> "asked", secret |-> redeem.secret, code |-> "own"]
    BY <1>3, RedeemParts
  <2>3. late' \in [1..MaxLate -> 0..used]
    BY <2>1, <2>2 DEF ReviewerType
  <2>4. \A j \in 1..MaxLate : late'[j] = late[j] \/ late'[j] = redeem.secret
    BY <2>1 DEF ReviewerType
  <2>5. ASSUME NEW s \in Secrets, InUse(s)' PROVE InUse(s)
    BY <1>1, <2>2, <2>4, <2>5 DEF InUse, Underway
  <2> QED
    BY <2>3, <2>5
<1> QED
  BY <1>2, <1>3 DEF Abandon

LEMMA ReviewerSteps ==
  ASSUME ReviewerInv, Step
  PROVE  ReviewerInv'
<1> USE AccessAssumption DEF ReviewerInv, backend, storage, identity, worker, redemption
<1>1. CASE UNCHANGED reviewerVars
  BY <1>1 DEF reviewerVars, ReviewerType, SecretInv, StoringInv, InUse, Underway
<1>2. CASE RedeemLocks
  <2>1. redeem' = NoRedeem /\ UNCHANGED <<used, sessions, late, deviceToken, reviewerAccess,
                                          reviewerActivation, native, givenUp>>
    BY <1>2 DEF RedeemLocks
  <2>2. \A s \in Secrets : InUse(s)' => InUse(s)
    BY <2>1 DEF InUse, Underway, NoRedeem
  <2> QED
    BY <2>1, <2>2, SecretFrame, NoRedeemTyped DEF ReviewerType, StoringInv
<1>3. CASE NativeRead
  BY <1>3 DEF NativeRead, ReviewerType, SecretInv, StoringInv, InUse, Underway
<1>4. CASE NativeStore
  BY <1>4 DEF NativeStore, ReviewerType, SecretInv, StoringInv, InUse, Underway
<1>5. CASE NativeClear
  <2>1. /\ Drop /\ UNCHANGED <<used, sessions, late, deviceToken, redeem>>
        /\ native' = "idle" /\ reviewerAccess' = None
    BY <1>5 DEF NativeClear
  <2>2. \A s \in Secrets : InUse(s)' => InUse(s)
    BY <2>1 DEF InUse, Underway
  <2>3. ReviewerType'
    BY <2>1 DEF Drop, ReviewerType, None
  <2> QED
    BY <2>1, <2>2, <2>3, DropKeeps DEF StoringInv
<1>6. CASE RedeemSend
  <2> DEFINE sec == Secret
  <2>1. sec \in 1..MaxSecrets /\ used' \in 0..MaxSecrets /\ sec \in 1..used' /\ used <= used'
    BY <1>6 DEF RedeemSend, Secret, ReviewerType, None
  <2>2. PICK code \in {"own", "other"} : redeem' = [pc |-> "asked", secret |-> sec, code |-> code]
    BY <1>6 DEF RedeemSend
  <2>3. /\ reviewerActivation' = sec
        /\ UNCHANGED <<late, sessions, deviceToken, reviewerAccess, native, givenUp>>
    BY <1>6 DEF RedeemSend
  <2>4. reviewerActivation # None => sec = reviewerActivation
    BY DEF Secret
  <2> HIDE DEF sec
  <2>5. 0..used \subseteq 0..used' /\ 1..used \subseteq 1..used'
    BY <2>1 DEF ReviewerType
  <2>6. ReviewerType'
    <3>1. /\ redeem' \in Redemption(used') /\ redeem'.secret # None
          /\ reviewerActivation' \in 0..used'
      BY <2>1, <2>2, <2>3 DEF Redemption, None
    <3>2. sessions' \subseteq 1..used' /\ late' \in [1..MaxLate -> 0..used']
      BY <2>3, <2>5 DEF ReviewerType
    <3> QED
      BY <2>1, <2>3, <3>1, <3>2 DEF ReviewerType
  <2>7. ASSUME NEW s \in Secrets, InUse(s)'
        PROVE  s = reviewerActivation' \/ s \in givenUp'
    <3>1. InUse(s) \/ s = sec
      BY <2>2, <2>3, <2>7 DEF InUse, Underway
    <3>2. InUse(s) => s = sec \/ s \in givenUp
      BY <2>4 DEF SecretInv, Secrets, None
    <3> QED
      BY <2>3, <3>1, <3>2
  <2> QED
    BY <2>2, <2>6, <2>7 DEF SecretInv, StoringInv
<1>7. CASE RedeemFails
  <2>1. /\ Abandon /\ redeem' = NoRedeem
        /\ UNCHANGED <<used, sessions, deviceToken, reviewerAccess, reviewerActivation, native,
                       givenUp>>
    BY <1>7 DEF RedeemFails
  <2> QED
    BY <2>1, AbandonPart, SecretFrame, NoRedeemTyped DEF ReviewerType, StoringInv
<1>8. CASE RedeemStores
  <2>1. /\ redeem' = [pc |-> "stored", secret |-> redeem.secret, code |-> redeem.code]
        /\ redeem.secret \in 1..used /\ redeem.secret \in sessions
    BY <1>8, RedeemParts DEF RedeemStores, StoringInv
  <2>2. /\ Drop /\ reviewerAccess' = redeem.secret
        /\ UNCHANGED <<used, sessions, late, deviceToken, native>>
    BY <1>8 DEF RedeemStores
  <2>3. redeem' \in Redemption(used) /\ redeem'.pc = "stored" /\ redeem'.secret # None
    BY <2>1 DEF None, ReviewerType, Redemption
  <2>4. ReviewerType'
    BY <2>1, <2>2, <2>3 DEF ReviewerType, Drop, None
  <2>5. \A s \in Secrets : InUse(s)' => InUse(s)
    BY <2>1, <2>2 DEF InUse, Underway
  <2> QED
    BY <2>2, <2>3, <2>4, <2>5, DropKeeps DEF StoringInv
<1>9. ASSUME NEW i \in 1..MaxLate, LateRequest(i)
      PROVE  ReviewerInv'
  <2>1. late[i] \in 1..used
    BY <1>9 DEF LateRequest, ReviewerType, None
  <2>2. /\ BackendRedeem(late[i], "own") /\ late' = [late EXCEPT ![i] = None]
        /\ UNCHANGED <<used, deviceToken, reviewerAccess, reviewerActivation, redeem, native,
                       givenUp>>
    BY <1>9 DEF LateRequest
  <2>3. /\ sessions' \subseteq 1..used /\ Cardinality(sessions') <= maxInstallations
        /\ sessions \subseteq sessions' /\ sessions' \subseteq sessions \cup {late[i]}
    BY <2>1, <2>2, BackendPart
  <2>4. late' \in [1..MaxLate -> 0..used]
    BY <2>2 DEF ReviewerType, None
  <2>5. ASSUME NEW s \in Secrets, InUse(s)' PROVE InUse(s)
    <3>1. \A j \in 1..MaxLate : late'[j] = s => late[j] = s
      BY <2>2 DEF ReviewerType, Secrets, None
    <3> QED
      BY <2>2, <2>3, <2>5, <3>1 DEF InUse, Underway
  <2> QED
    BY <2>2, <2>3, <2>4, <2>5, SecretFrame DEF ReviewerType, StoringInv
<1>10. CASE AnswerGranted
  <2> DEFINE s == redeem.secret
  <2>1. /\ s \in 1..used /\ s \in Secrets /\ redeem.code = "own"
        /\ redeem = [pc |-> "asked", secret |-> s, code |-> "own"]
    BY <1>10, RedeemParts DEF AnswerGranted, Grants
  <2>2. /\ BackendRedeem(s, redeem.code) /\ sessions' = sessions \cup {s}
        /\ UNCHANGED <<used, late, deviceToken, reviewerAccess, reviewerActivation, native,
                       givenUp>>
    BY <1>10 DEF AnswerGranted, BackendRedeem
  <2>3. sessions' \subseteq 1..used /\ Cardinality(sessions') <= maxInstallations
    BY <2>1, <2>2, BackendPart
  <2>4. redeem' = NoRedeem \/ redeem' = [pc |-> "storing", secret |-> s, code |-> "own"]
    BY <1>10, <2>1, RedeemParts DEF AnswerGranted
  <2>5. /\ redeem' \in Redemption(used) /\ (redeem'.pc # "idle" => redeem'.secret # None)
        /\ (redeem'.pc = "storing" => redeem'.secret \in sessions')
    BY <2>1, <2>2, <2>4, NoRedeemTyped DEF Redemption, None
  <2>6. ASSUME NEW r \in Secrets, InUse(r)' PROVE InUse(r)
    BY <2>1, <2>2, <2>4, <2>6 DEF InUse, Underway, NoRedeem
  <2> QED
    BY <2>2, <2>3, <2>5, <2>6, SecretFrame DEF ReviewerType, StoringInv
<1>11. CASE AnswerRefused
  <2>1. /\ Drop /\ redeem' = NoRedeem /\ sessions' = sessions
        /\ UNCHANGED <<used, late, deviceToken, reviewerAccess, native>>
    BY <1>11 DEF AnswerRefused, BackendRedeem
  <2>2. \A s \in Secrets : InUse(s)' => InUse(s)
    BY <2>1 DEF InUse, Underway, NoRedeem
  <2>3. ReviewerType'
    BY <2>1, NoRedeemTyped DEF ReviewerType, Drop, None
  <2> QED
    BY <2>1, <2>2, <2>3, DropKeeps, NoRedeemTyped DEF StoringInv
<1>12. CASE WorkerEnds
  <2>1. /\ Abandon /\ redeem' = NoRedeem /\ native' = "idle"
        /\ UNCHANGED <<used, sessions, deviceToken, reviewerAccess, reviewerActivation, givenUp>>
    BY <1>12 DEF WorkerEnds
  <2> QED
    BY <2>1, AbandonPart, SecretFrame, NoRedeemTyped DEF ReviewerType, StoringInv
<1> HIDE DEF ReviewerInv
<1> QED
  BY <1>1, <1>2, <1>3, <1>4, <1>5, <1>6, <1>7, <1>8, <1>9, <1>10, <1>11, <1>12, QuietSteps,
     OtherQuietSteps DEF Step, Checks, Native, Redeem

-----------------------------------------------------------------------------
(* Checks and Apply *)

LEMMA BeginEffect ==
  ASSUME ReviewerType, WorkerType, NEW c \in Callers, Begin(c)
  PROVE  /\ check' \in [Callers -> Check]
         /\ \A d \in Callers \ {c} : check'[d] = check[d]
         /\ check'[c].pc \in {"sent", "refused"} /\ check'[c].token = getDeviceToken
<1> DEFINE new == [pc |-> IF getDeviceToken = None THEN "refused" ELSE "sent",
                   token |-> getDeviceToken]
<1>1. new \in Check /\ new.pc \in {"sent", "refused"} /\ new.token = getDeviceToken
  BY TokenTypes DEF Check
<1>2. check' = [check EXCEPT ![c] = new]
  BY DEF Begin
<1> HIDE DEF new
<1> QED
  BY <1>1, <1>2 DEF WorkerType

\* An answered check of Apply is about the reviewer that had access then.
LEMMA AnswerEffect ==
  ASSUME WorkerType, NEW c \in Callers, Answer(c)
  PROVE  /\ check' \in [Callers -> Check]
         /\ \A d \in Callers \ {c} : check'[d] = check[d]
         /\ check'[c].pc \in {"ok", "refused", "failed"}
         /\ check'[c].pc = "ok" => Accepted(check[c].token)
<1> DEFINE pc == IF ~online THEN "failed" ELSE IF Accepted(check[c].token) THEN "ok" ELSE "refused"
           new == [NoCheck EXCEPT !.pc = pc]
<1>1. new = [pc |-> pc, token |-> None]
  BY DEF NoCheck
<1>2. new \in Check /\ new.pc = pc
  BY <1>1 DEF Check
<1>3. check' = [check EXCEPT ![c] = new]
  BY DEF Answer
<1> HIDE DEF new
<1> QED
  BY <1>2, <1>3 DEF WorkerType

LEMMA FinishEffect ==
  ASSUME WorkerType, NEW c \in Callers, Finish(c)
  PROVE  /\ check' \in [Callers -> Check]
         /\ \A d \in Callers \ {c} : check'[d] = check[d]
         /\ check'[c].pc = "idle"
         /\ apply' = IF c = "apply" THEN "idle" ELSE apply
         /\ dormant' \in BOOLEAN /\ lastStatusOkAt' \in {"none", "recent"}
<1>1. NoCheck \in Check /\ NoCheck.pc = "idle"
  BY DEF NoCheck, Check
<1>2. /\ check' = [check EXCEPT ![c] = NoCheck]
      /\ apply' = IF c = "apply" THEN "idle" ELSE apply
      /\ lastStatusOkAt' = IF check[c].pc = "ok" THEN "recent" ELSE lastStatusOkAt
      /\ dormant' = DormantAfter(check[c].pc)
  BY DEF Finish, checkDeviceStatus
<1>3. dormant' \in BOOLEAN
  BY <1>2, Zenon DEF DormantAfter
<1> HIDE DEF NoCheck
<1> QED
  BY <1>1, <1>2, <1>3 DEF WorkerType

LEMMA GrantedStays ==
  ASSUME History, granted, apply = "checking", apply' = "checking"
  PROVE  granted'
BY Zenon DEF History

\* Steps that leave the checks alone, and Apply too while it waits for one.
LEMMA ApplyFrame ==
  ASSUME WorkerType, ApplyInv, History, check' = check,
         apply' = apply \/ (apply # "checking" /\ apply' \in {"idle", "awake"}),
         dormant' \in BOOLEAN, lastStatusOkAt' \in {"none", "recent"}
  PROVE  WorkerType' /\ ApplyInv'
<1>1. granted' \in BOOLEAN
  BY Zenon DEF History
<1> QED
  BY <1>1, GrantedStays DEF WorkerType, ApplyInv

LEMMA ApplySteps ==
  ASSUME ReviewerInv, WorkerType, ApplyInv, Step, History
  PROVE  WorkerType' /\ ApplyInv'
<1> USE AccessAssumption DEF backend, storage, identity, worker, redemption
<1> ReviewerType
  BY DEF ReviewerInv
<1>1. granted' \in BOOLEAN
  BY Zenon DEF History
<1>2. ASSUME NEW c \in Callers, Answer(c)
      PROVE  WorkerType' /\ ApplyInv'
  <2>1. UNCHANGED <<apply, dormant, lastStatusOkAt, backend, sessions>>
    BY <1>2 DEF Answer
  <2>2. WorkerType'
    BY <1>1, <1>2, <2>1, AnswerEffect DEF WorkerType
  <2>3. CASE c # "apply"
    <3>1. check'["apply"] = check["apply"]
      BY <1>2, <2>3, AnswerEffect
    <3> QED
      BY <2>1, <2>2, <3>1, GrantedStays DEF ApplyInv
  <2>4. CASE c = "apply" /\ apply = "checking" /\ check'[c].pc = "ok"
    <3>1. check[c].token \in Secrets /\ Accepted(check[c].token)
      BY <1>2, <2>4, AnswerEffect DEF ApplyInv, Answer
    <3>2. Accepted(check[c].token) => \E s \in Secrets : Accepted(s)'
      BY <3>1, <2>1 DEF Accepted
    <3>3. SomeReviewerAccepted'
      BY <3>1, <3>2 DEF SomeReviewerAccepted
    <3> QED
      BY <2>1, <2>2, <2>4, <3>3 DEF History, ApplyInv
  <2>5. CASE c = "apply" /\ ~(apply = "checking" /\ check'[c].pc = "ok")
    <3>1. check["apply"].pc = "sent" /\ apply = "checking"
      BY <1>2, <2>5 DEF Answer, ApplyInv
    <3>2. check'["apply"].pc \in {"refused", "failed"}
      BY <1>2, <2>5, <3>1, AnswerEffect
    <3> QED
      BY <2>1, <2>2, <3>1, <3>2 DEF ApplyInv
  <2> QED
    BY <2>2, <2>3, <2>4, <2>5
<1>3. ASSUME NEW c \in Callers, Finish(c)
      PROVE  WorkerType' /\ ApplyInv'
  <2>1. WorkerType'
    BY <1>1, <1>3, FinishEffect DEF WorkerType
  <2>2. CASE c = "apply"
    BY <1>3, <2>1, <2>2, FinishEffect DEF ApplyInv
  <2>3. CASE c # "apply"
    <3>1. check'["apply"] = check["apply"] /\ apply' = apply
      BY <1>3, <2>3, FinishEffect
    <3> QED
      BY <2>1, <3>1, GrantedStays DEF ApplyInv
  <2> QED
    BY <2>2, <2>3, <2>1
<1>4. CASE Poll
  <2>1. PICK c \in Callers \ {"apply"} : Begin(c)
    BY <1>4 DEF Poll
  <2>2. UNCHANGED <<apply, dormant, lastStatusOkAt>>
    BY <1>4 DEF Poll
  <2> QED
    BY <1>1, <2>1, <2>2, BeginEffect, GrantedStays DEF WorkerType, ApplyInv
<1>5. CASE StartApply
  <2>1. UNCHANGED <<dormant, lastStatusOkAt>>
    BY <1>5 DEF StartApply
  <2>2. CASE getReviewerAccess # None /\ apply' = "checking" /\ Begin("apply")
    <3>1. /\ check' \in [Callers -> Check]
          /\ check'["apply"].pc \in {"sent", "refused"} /\ check'["apply"].token \in Secrets
      BY <2>2, BeginEffect, TokenTypes
    <3> QED
      BY <1>1, <2>1, <2>2, <3>1 DEF WorkerType, ApplyInv
  <2>3. CASE apply' = "idle" /\ check' = check
    BY <1>5, <2>1, <2>3, ApplyFrame DEF WorkerType, StartApply
  <2> QED
    BY <1>5, <2>2, <2>3 DEF StartApply, Recheck
<1>6. CASE WorkerEnds
  <2>1. NoCheck \in Check /\ NoCheck.pc = "idle"
    BY DEF NoCheck, Check
  <2>2. /\ check' = [c \in Callers |-> NoCheck] /\ apply' = "idle"
        /\ UNCHANGED <<dormant, lastStatusOkAt>>
    BY <1>6 DEF WorkerEnds
  <2> HIDE DEF NoCheck
  <2> QED
    BY <1>1, <2>1, <2>2 DEF WorkerType, ApplyInv
<1>7. CASE \/ GraceEnds \/ NativeRead \/ NativeStore \/ NativeClear \/ RedeemSend \/ RedeemFails
           \/ RedeemStores \/ RedeemLocks \/ AnswerGranted \/ AnswerRefused
           \/ PressApply \/ Change \/ Network
  <2>1. /\ check' = check /\ (apply' = apply \/ (apply = "idle" /\ apply' = "awake"))
        /\ dormant' \in {dormant, TRUE} /\ lastStatusOkAt' \in {lastStatusOkAt, "none"}
    BY <1>7 DEF GraceEnds, NativeRead, NativeStore, NativeClear, RedeemSend, RedeemFails,
         RedeemStores, RedeemLocks, AnswerGranted, AnswerRefused, PressApply, Change, Network
  <2> QED
    BY <2>1, ApplyFrame DEF WorkerType
<1>8. ASSUME NEW i \in 1..MaxLate, LateRequest(i)
      PROVE  WorkerType' /\ ApplyInv'
  <2>1. UNCHANGED <<check, apply, dormant, lastStatusOkAt>>
    BY <1>8 DEF LateRequest
  <2> QED
    BY <2>1, ApplyFrame DEF WorkerType
<1> QED
  BY <1>2, <1>3, <1>4, <1>5, <1>6, <1>7, <1>8 DEF Step, Checks, Native, Redeem

-----------------------------------------------------------------------------
(* The invariant *)

LEMMA SwitchSteps ==
  ASSUME SwitchType, Step
  PROVE  SwitchType'
<1> USE AccessAssumption DEF backend, storage, identity, worker, redemption
<1>1. CASE UNCHANGED <<deviceOk, enabled, live, online, events>>
  BY <1>1 DEF SwitchType
<1>2. CASE Change
  <2>1. events' \in 0..MaxEvents
    BY <1>2 DEF Change, SwitchType
  <2>2. deviceOk' \in BOOLEAN /\ enabled' \in BOOLEAN /\ live' \in BOOLEAN
    BY <1>2, Zenon DEF Change, SwitchType
  <2> QED
    BY <1>2, <2>1, <2>2 DEF Change, SwitchType
<1>6. CASE Network
  <2>1. online' \in BOOLEAN
    BY <1>6, Zenon DEF Network, SwitchType
  <2> QED
    BY <1>6, <2>1 DEF Network, SwitchType
<1>7. CASE WorkerEnds
  BY <1>7 DEF WorkerEnds, SwitchType
<1>3. ASSUME NEW c \in Callers, Answer(c) \/ Finish(c)
      PROVE  UNCHANGED <<deviceOk, enabled, live, online, events>>
  BY <1>3 DEF Answer, Finish
<1>4. ASSUME \/ AnswerGranted \/ AnswerRefused \/ \E i \in 1..MaxLate : LateRequest(i)
      PROVE  UNCHANGED <<deviceOk, enabled, live, online, events>>
  BY <1>4 DEF AnswerGranted, AnswerRefused, LateRequest, BackendRedeem
<1>5. ASSUME \/ Poll \/ GraceEnds \/ NativeRead \/ NativeStore \/ NativeClear \/ RedeemSend
             \/ RedeemFails \/ RedeemStores \/ RedeemLocks \/ PressApply \/ StartApply
      PROVE  UNCHANGED <<deviceOk, enabled, live, online, events>>
  BY <1>5 DEF Poll, GraceEnds, NativeRead, NativeStore, NativeClear, RedeemSend, RedeemFails,
       RedeemStores, RedeemLocks, PressApply, StartApply
<1> QED
  BY <1>1, <1>2, <1>3, <1>4, <1>5, <1>6, <1>7 DEF Step, Checks, Native, Redeem

LEMMA AccessInitial == Init => AccessInv
<1> USE AccessAssumption
<1> SUFFICES ASSUME Init PROVE AccessInv
  OBVIOUS
<1>1. SwitchType
  BY DEF Init, SwitchType
<1>2. ReviewerType
  <2>1. Cardinality(sessions) = 0 /\ maxInstallations >= 0 /\ used = 0 /\ None = 0
    BY FS_EmptySet DEF Init, None
  <2>2. redeem \in Redemption(used) /\ redeem.pc = "idle"
    BY <2>1 DEF Init, NoRedeem, Redemption
  <2>3. /\ sessions = {} /\ deviceToken = None /\ reviewerAccess = None
        /\ reviewerActivation = None /\ native = "idle" /\ givenUp = {}
    BY DEF Init
  <2>4. used \in 0..MaxSecrets /\ reviewerActivation \in 0..used
    BY <2>1, <2>3
  <2>5. Cardinality(sessions) <= maxInstallations
    BY <2>1
  <2>6. late \in [1..MaxLate -> 0..used]
    BY <2>1 DEF Init
  <2> QED
    BY <2>2, <2>3, <2>4, <2>5, <2>6 DEF ReviewerType
<1>3. WorkerType
  <2>1. NoCheck \in Check
    BY DEF NoCheck, Check
  <2> QED
    BY <2>1 DEF Init, WorkerType
<1>4. SecretInv /\ ApplyInv /\ StoringInv
  BY DEF Init, SecretInv, ApplyInv, StoringInv, NoRedeem, NoCheck, InUse, Underway, Secrets, None
<1> QED
  BY <1>1, <1>2, <1>3, <1>4, TypeParts DEF AccessInv

LEMMA AccessInvariant == LiveSpec => []AccessInv
<1>1. ASSUME AccessInv, Next
      PROVE  AccessInv'
  <2>1. Step /\ History
    BY <1>1, NextSteps
  <2>2. SwitchType /\ ReviewerInv /\ WorkerType /\ ApplyInv
    BY <1>1, TypeParts DEF AccessInv, ReviewerInv
  <2>3. SwitchType' /\ ReviewerInv' /\ WorkerType' /\ ApplyInv'
    BY <2>1, <2>2, SwitchSteps, ReviewerSteps, ApplySteps
  <2>4. (SwitchType /\ ReviewerType /\ WorkerType)' => TypeOK'
    BY DEF TypeOK, SwitchType, ReviewerType, WorkerType, Check, Redemption
  <2> QED
    BY <2>3, <2>4 DEF AccessInv, ReviewerInv
<1>2. ASSUME AccessInv, UNCHANGED vars
      PROVE  AccessInv'
  BY <1>2 DEF vars, backend, storage, identity, worker, redemption, AccessInv, TypeOK, SecretInv,
       ApplyInv, StoringInv, InUse, Underway
<1>3. AccessInv /\ [Next]_vars => AccessInv'
  BY <1>1, <1>2
<1> QED
  BY <1>3, AccessInitial, PTL DEF LiveSpec, Spec

-----------------------------------------------------------------------------
(* Theorems *)

\* The variables keep their types; an invite never has more sessions than installations.
THEOREM AccessTypeCorrect == LiveSpec => []TypeOK
<1>1. AccessInv => TypeOK
  BY DEF AccessInv
<1> QED
  BY <1>1, AccessInvariant, PTL

\* However many answers are lost, requests late and workers ended, of the secrets that were
\* not given up while in use at most one has a session (reviewer-access.ts:30).
THEOREM OneInstallationEach == LiveSpec => []OneInstallation
<1>1. AccessInv => OneInstallation
  <2> SUFFICES ASSUME AccessInv PROVE Cardinality(sessions \ givenUp) <= 1
    BY DEF OneInstallation
  <2>1. sessions \ givenUp \in SUBSET {reviewerActivation}
    BY AccessAssumption DEF AccessInv, TypeOK, SecretInv, InUse, Secrets
  <2>2. IsFiniteSet({reviewerActivation}) /\ Cardinality({reviewerActivation}) = 1
    BY FS_Singleton
  <2>3. Cardinality(sessions \ givenUp) <= 1
    BY <2>1, <2>2, FS_Subset, FS_CardinalityType
  <2> QED
    BY <2>3
<1> QED
  BY <1>1, AccessInvariant, PTL

\* For any number of overlapping checks, a reviewer's run starts only if access was granted
\* after Apply was pressed (service-worker.ts:781).
THEOREM NoRunWithoutAccess == LiveSpec => RunsWhileGranted
<1> USE AccessAssumption DEF backend, storage, identity, worker, redemption
<1>1. ASSUME AccessInv, Next, RunStarts, getReviewerAccess # None
      PROVE  granted
  <2>1. Step
    BY <1>1, NextSteps
  <2>2. apply # apply' /\ events' = events /\ events \in Nat
    BY <1>1, TypeParts DEF RunStarts, AccessInv, SwitchType
  <2>3. ASSUME NEW c \in Callers, Finish(c)
        PROVE  granted
    <3>1. c = "apply" /\ apply = "checking" /\ ~dormant'
      BY <1>1, <2>2, <2>3 DEF Finish, RunStarts, AccessInv, ApplyInv, checkDeviceStatus
    <3>2. dormant' = DormantAfter(check[c].pc) /\ check[c].pc \in {"ok", "refused", "failed"}
      BY <2>3 DEF Finish, checkDeviceStatus
    <3>3. check[c].pc = "ok"
      BY <1>1, <3>1, <3>2 DEF DormantAfter
    <3> QED
      BY <1>1, <3>1, <3>3 DEF AccessInv, ApplyInv
  <2>4. ~WorkerEnds
    BY <2>2 DEF WorkerEnds
  <2>5. ~StartApply
    BY <1>1 DEF StartApply, Recheck, RunStarts
  <2>6. ~PressApply
    BY <1>1 DEF PressApply, RunStarts
  <2>7. ASSUME NEW c \in Callers, Answer(c)
        PROVE  FALSE
    BY <2>2, <2>7 DEF Answer
  <2>8. ~(\/ AnswerGranted \/ AnswerRefused \/ \E i \in 1..MaxLate : LateRequest(i))
    BY <2>2 DEF AnswerGranted, AnswerRefused, LateRequest
  <2>9. ~(\/ Poll \/ GraceEnds \/ NativeRead \/ NativeStore \/ NativeClear \/ RedeemSend
          \/ RedeemFails \/ RedeemStores \/ RedeemLocks \/ Change \/ Network)
    BY <2>2 DEF Poll, GraceEnds, NativeRead, NativeStore, NativeClear, RedeemSend, RedeemFails,
         RedeemStores, RedeemLocks, Change, Network
  <2> QED
    BY <2>1, <2>3, <2>4, <2>5, <2>6, <2>7, <2>8, <2>9 DEF Step, Checks, Native, Redeem
<1>2. AccessInv /\ [Next]_vars => [RunStarts /\ getReviewerAccess # None => granted]_vars
  BY <1>1
<1> QED
  BY <1>2, AccessInvariant, PTL DEF LiveSpec, Spec, RunsWhileGranted
=============================================================================
