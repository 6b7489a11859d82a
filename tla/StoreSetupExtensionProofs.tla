---------------------- MODULE StoreSetupExtensionProofs ----------------------
(***************************************************************************)
(* Proofs about StoreSetup and StoreSetupExtension for every number of     *)
(* stores, administrators, codes, installs, drafts and requests being      *)
(* served, calls, lost and late answers, and every code and session life.  *)
(*                                                                         *)
(* The backend first.  The argument goes by rows: RowSteps lists what a    *)
(* step may do to one session, and the invariants of the rows follow from  *)
(* it.  The extension only uses the backend's transactions, so it          *)
(* implements StoreSetup and inherits its theorems; what it holds itself   *)
(* stays right because every attempt with one secret is for one code,      *)
(* whichever of the attempts the backend serves first.                     *)
(***************************************************************************)
EXTENDS StoreSetupExtension, TLAPS

-----------------------------------------------------------------------------
(* The backend *)

\* A session is blank before its code is issued, a token is bound by the redemption, and no
\* two sessions have the same.
TokensInv ==
  /\ \A s \in Session : session[s].status = "absent" => session[s] = NoSession
  /\ \A s \in Session : session[s].status = "PENDING" => session[s].token = None
  /\ \A s, u \in Session :
       session[s].token # None /\ session[s].token = session[u].token => s = u

\* A session has a store from its code on, and its last submission lies in the past.
RowsInv ==
  \A s \in Session :
    /\ session[s].status # "absent" => session[s].merchant \in Merchant
    /\ session[s].submittedAt # None => session[s].submittedAt <= now
    /\ session[s].status = "SUBMITTED" => session[s].submittedAt # None

\* A request is about a session that exists.  A reviewing one read a submission that is
\* the last or older than it; while it is the last, what was reviewed is its draft.
RequestOK(r) ==
  LET s == request[r].session IN
  /\ request[r].pc # "idle" => s \in Session /\ session[s].status # "absent"
  /\ request[r].pc \in {"reviewed", "loaded"} =>
       /\ request[r].submittedAt \in Time /\ session[s].submittedAt \in Time
       /\ request[r].submittedAt <= session[s].submittedAt
       /\ request[r].submittedAt = session[s].submittedAt
            => request[r].reviewed = session[s].draft
  /\ request[r].pc = "loaded" => request[r].loaded = request[r].reviewed
RequestInv == \A r \in Request : RequestOK(r)

SetupInv ==
  TypeOK /\ TokensInv /\ RowsInv /\ RequestInv /\ OneLivePerStore /\ LiveRecipeWasSaved

-----------------------------------------------------------------------------
(* What a step does to one session *)

Issued(s) ==
  /\ session[s].status = "absent"
  /\ \E a \in Admin, m \in Merchant :
       /\ IssueCode(a, m, s)
       /\ session'[s] = [NoSession EXCEPT !.status = "PENDING", !.merchant = m,
                           !.createdBy = a, !.codeExpiresAt = now + CodeLife]
RedeemedRow(s) ==
  /\ session[s].status = "PENDING"
  /\ \E t \in Token :
       /\ Redeem(s, t)
       /\ session'[s] = [session[s] EXCEPT !.status = "CONNECTED", !.token = t,
                                           !.expiresAt = now + SessionLife]
SubmittedRow(s) ==
  /\ session[s].status \in Redeemed /\ session[s].submittedAt # now
  /\ \E d \in Draft :
       session'[s] = [session[s] EXCEPT !.status = "SUBMITTED", !.draft = d,
                                        !.submittedAt = now]
EndedRow(s) ==
  /\ session[s].status \in Live
  /\ \/ session'[s] = Closed(s)
     \/ session'[s] = [session[s] EXCEPT !.status = "CANCELLED", !.expiresAt = now]
     \/ session[s].status = "SUBMITTED" /\ session'[s] = [session[s] EXCEPT !.status = "APPLIED"]
KeptRow(s) ==
  \/ session'[s] = session[s]
  \/ session'[s] = [session[s] EXCEPT !.createdBy = None]
  \/ session[s].status = "SUBMITTED" /\ session'[s] = [session[s] EXCEPT !.expiresAt = now]

RowStep(s) ==
  Issued(s) \/ RedeemedRow(s) \/ SubmittedRow(s) \/ EndedRow(s) \/ KeptRow(s)

\* Every step does one of these to each session.
LEMMA RowSteps ==
  ASSUME TypeOK, RequestInv, [Next]_setupVars, NEW s \in Session
  PROVE  RowStep(s)
<1> USE DEF TypeOK
<1>1. ASSUME NEW a \in Admin, NEW m \in Merchant, NEW u \in Session, IssueCode(a, m, u)
      PROVE  RowStep(s)
  BY <1>1 DEF IssueCode, Cancelled, RowStep, Issued, KeptRow, EndedRow
<1>2. ASSUME NEW u \in Session, CancelSession(u)
      PROVE  RowStep(s)
  BY <1>2 DEF CancelSession, Cancelled, RowStep, KeptRow, EndedRow
<1>3. ASSUME NEW r \in Request, ApplyDraft(r)
      PROVE  RowStep(s)
  BY <1>3 DEF ApplyDraft, RowStep, KeptRow, EndedRow, Live
<1>4. ASSUME NEW a \in Admin, RemoveAdmin(a)
      PROVE  RowStep(s)
  BY <1>4 DEF RemoveAdmin, RowStep, KeptRow
<1>5. ASSUME NEW u \in Session, NEW t \in Token, Redeem(u, t)
      PROVE  RowStep(s)
  BY <1>5 DEF Redeem, Redeemable, RowStep, KeptRow, RedeemedRow
<1>6. ASSUME NEW r \in Request, NEW d \in Draft, SubmitRecipe(r, d)
      PROVE  RowStep(s)
  BY <1>6 DEF SubmitRecipe, IsExtensionActive, RowStep, KeptRow, SubmittedRow
<1>7. ASSUME NEW r \in Request, EndSession(r)
      PROVE  RowStep(s)
  BY <1>7 DEF EndSession, RowStep, KeptRow, EndedRow, Live
<1>8. CASE UNCHANGED session
  BY <1>8 DEF RowStep, KeptRow
<1> QED
  BY <1>1, <1>2, <1>3, <1>4, <1>5, <1>6, <1>7, <1>8
     DEF Next, Dashboard, setupVars, ReviewDraft, LoadReviewed, EditRecipe, SetAdminActive,
         Authenticate, EndRequest, Tick

\* What every kind of row step leaves alone.
LEMMA RowFacts ==
  ASSUME TypeOK, TokensInv, NEW s \in Session, RowStep(s)
  PROVE  /\ session[s].status \in Ended =>
              session'[s].status = session[s].status /\ session'[s].draft = session[s].draft
         /\ session[s].token # None => session'[s].token = session[s].token
         /\ session[s].status # "absent" =>
              session'[s].status # "absent" /\ session'[s].merchant = session[s].merchant
         /\ session'[s].submittedAt = session[s].submittedAt =>
              session'[s].draft = session[s].draft
         /\ session'[s].submittedAt # session[s].submittedAt => session'[s].submittedAt = now
<1>1. /\ session[s] \in SessionRow
      /\ session[s].status = "absent" => session[s] = NoSession
      /\ session[s].status = "PENDING" => session[s].token = None
  BY DEF TypeOK, TokensInv
<1>2. CASE Issued(s)
  <2>1. /\ session'[s].submittedAt = None /\ session[s].submittedAt = None
        /\ session'[s].draft = None /\ session[s].draft = None
        /\ session[s].token = None /\ session[s].status = "absent"
    BY <1>1, <1>2 DEF Issued, NoSession
  <2> QED
    BY <1>1, <1>2, <2>1 DEF Issued, Ended
<1>3. CASE RedeemedRow(s)
  BY <1>1, <1>3 DEF RedeemedRow, SessionRow, Ended
<1>4. CASE SubmittedRow(s)
  BY <1>1, <1>4 DEF SubmittedRow, SessionRow, Ended, Redeemed
<1>5. CASE EndedRow(s)
  BY <1>1, <1>5 DEF EndedRow, Closed, SessionRow, Ended, Live
<1>6. CASE KeptRow(s)
  BY <1>1, <1>6 DEF KeptRow, SessionRow, Ended
<1> QED
  BY <1>2, <1>3, <1>4, <1>5, <1>6 DEF RowStep

-----------------------------------------------------------------------------
(* The invariants of the rows *)

\* A row of the table stays one.
LEMMA RowTypes ==
  ASSUME TypeOK, now' \in Time, NEW s \in Session, RowStep(s)
  PROVE  session'[s] \in SessionRow
<1>1. /\ session[s] \in SessionRow /\ now \in 0..MaxTime
      /\ MaxTime \in Nat /\ CodeLife \in Nat /\ SessionLife \in Nat
  BY SetupAssumption DEF TypeOK, Time
<1>2. /\ now \in Time /\ now + CodeLife \in 0..(MaxTime + CodeLife)
      /\ now + SessionLife \in 0..(MaxTime + SessionLife)
      /\ now \in 0..(MaxTime + SessionLife)
  BY <1>1 DEF Time
<1>3. CASE Issued(s)
  <2>1. PICK a \in Admin, m \in Merchant :
          session'[s] = [NoSession EXCEPT !.status = "PENDING", !.merchant = m,
                           !.createdBy = a, !.codeExpiresAt = now + CodeLife]
    BY <1>3 DEF Issued
  <2>2. session'[s] = [status |-> "PENDING", merchant |-> m, createdBy |-> a,
                       codeExpiresAt |-> now + CodeLife, token |-> None, expiresAt |-> 0,
                       draft |-> None, submittedAt |-> None]
    BY <2>1 DEF NoSession
  <2>3. 0 \in 0..(MaxTime + SessionLife)
    BY <1>1
  <2> QED
    BY <1>2, <2>2, <2>3 DEF SessionRow, Live
<1>4. CASE RedeemedRow(s)
  BY <1>1, <1>2, <1>4 DEF RedeemedRow, SessionRow, Live
<1>5. CASE SubmittedRow(s)
  BY <1>1, <1>2, <1>5 DEF SubmittedRow, SessionRow, Live
<1>6. CASE EndedRow(s)
  BY <1>1, <1>2, <1>6 DEF EndedRow, Closed, SessionRow, Ended
<1>7. CASE KeptRow(s)
  BY <1>1, <1>2, <1>7 DEF KeptRow, SessionRow
<1> QED
  BY <1>3, <1>4, <1>5, <1>6, <1>7 DEF RowStep

\* The other variables keep their types, and the clock goes forward.
LEMMA Types ==
  ASSUME TypeOK, RequestInv, [Next]_setupVars
  PROVE  TypeOK' /\ now <= now'
<1>1. now' \in Time /\ now <= now'
  <2>1. now' = now \/ Tick
    BY DEF Next, Dashboard, setupVars, IssueCode, CancelSession, ReviewDraft, LoadReviewed,
       ApplyDraft, EditRecipe, SetAdminActive, RemoveAdmin, Redeem, Authenticate,
       SubmitRecipe, EndSession, EndRequest
  <2>2. now \in 0..MaxTime /\ MaxTime \in Nat
    BY SetupAssumption DEF TypeOK, Time
  <2> QED
    BY <2>1, <2>2 DEF Tick, Time
<1>2. session' \in [Session -> SessionRow]
  <2>1. \A s \in Session : session'[s] \in SessionRow
    BY <1>1, RowSteps, RowTypes
  <2>2. /\ DOMAIN session' = Session
        /\ session' = [s \in DOMAIN session' |-> session'[s]]
    BY DEF Next, Dashboard, setupVars, IssueCode, CancelSession, Cancelled, ReviewDraft,
       LoadReviewed, ApplyDraft, EditRecipe, SetAdminActive, RemoveAdmin, Redeem,
       Authenticate, SubmitRecipe, EndSession, EndRequest, Tick, TypeOK
  <2> QED
    BY <2>1, <2>2
<1>3. recipe' \in [Merchant -> Draft \cup {None}]
  BY DEF Next, Dashboard, setupVars, IssueCode, CancelSession, ReviewDraft, LoadReviewed,
     ApplyDraft, EditRecipe, SetAdminActive, RemoveAdmin, Redeem, Authenticate,
     SubmitRecipe, EndSession, EndRequest, Tick, TypeOK, RequestRow
<1>4. active' \in [Admin -> BOOLEAN]
  BY DEF Next, Dashboard, setupVars, IssueCode, CancelSession, ReviewDraft, LoadReviewed,
     ApplyDraft, EditRecipe, SetAdminActive, RemoveAdmin, Redeem, Authenticate,
     SubmitRecipe, EndSession, EndRequest, Tick, TypeOK
<1>5. request' \in [Request -> RequestRow]
  <2>1. Idle \in RequestRow
    BY DEF Idle, RequestRow
  <2>2. ASSUME NEW r \in Request, NEW s \in Session, ReviewDraft(r, s)
        PROVE  request' \in [Request -> RequestRow]
    <3>1. session[s].draft \in Draft \cup {None} /\ session[s].submittedAt \in Time \cup {None}
      BY DEF TypeOK, SessionRow
    <3>2. [Idle EXCEPT !.pc = "reviewed", !.session = s, !.reviewed = session[s].draft,
                       !.submittedAt = session[s].submittedAt] \in RequestRow
      BY <3>1 DEF Idle, RequestRow
    <3> QED
      BY <2>2, <3>2 DEF ReviewDraft, TypeOK
  <2>3. ASSUME NEW r \in Request, LoadReviewed(r)
        PROVE  request' \in [Request -> RequestRow]
    <3>1. request[r].session \in Session
      BY <2>3 DEF LoadReviewed, RequestInv, RequestOK
    <3>2. session[request[r].session].draft \in Draft \cup {None}
      BY <3>1 DEF TypeOK, SessionRow
    <3>3. request[r] \in RequestRow
      BY DEF TypeOK
    <3>4. [request[r] EXCEPT !.pc = "loaded", !.loaded = session[request[r].session].draft]
            \in RequestRow
      BY <3>2, <3>3 DEF RequestRow
    <3>5. request' = [request EXCEPT ![r] = [request[r] EXCEPT !.pc = "loaded",
                        !.loaded = session[request[r].session].draft]]
      BY <2>3 DEF LoadReviewed, TypeOK
    <3> QED
      BY <3>4, <3>5 DEF TypeOK
  <2>4. ASSUME NEW r \in Request, NEW t \in Token, Authenticate(r, t)
        PROVE  request' \in [Request -> RequestRow]
    <3>1. PICK s \in Session :
            request' = [request EXCEPT ![r] = [Idle EXCEPT
                          !.pc = "authenticated", !.session = s, !.token = t]]
      BY <2>4 DEF Authenticate
    <3>2. [Idle EXCEPT !.pc = "authenticated", !.session = s, !.token = t] \in RequestRow
      BY DEF Idle, RequestRow
    <3> QED
      BY <3>1, <3>2 DEF TypeOK
  <2>5. ASSUME NEW r \in Request, request' = [request EXCEPT ![r] = Idle]
        PROVE  request' \in [Request -> RequestRow]
    BY <2>1, <2>5 DEF TypeOK
  <2>6. CASE UNCHANGED request
    BY <2>6 DEF TypeOK
  <2> QED
    BY <2>2, <2>3, <2>4, <2>5, <2>6
       DEF Next, Dashboard, setupVars, IssueCode, CancelSession, ApplyDraft, EditRecipe,
           SetAdminActive, RemoveAdmin, Redeem, SubmitRecipe, EndSession, EndRequest, Tick
<1> QED
  BY <1>1, <1>2, <1>3, <1>4, <1>5 DEF TypeOK

\* Rows go on from NoSession to an ended status, and a code is issued or redeemed on the way.
LEMMA StatusSteps ==
  ASSUME TypeOK, TokensInv, NEW s \in Session, RowStep(s)
  PROVE  /\ session'[s].status = "absent" => session'[s] = NoSession
         /\ session'[s].status = "PENDING" =>
              \/ Issued(s)
              \/ session[s].status = "PENDING" /\ session'[s].token = session[s].token
         /\ session'[s].token = session[s].token \/ RedeemedRow(s)
         /\ session'[s].status = "SUBMITTED" =>
              \/ SubmittedRow(s)
              \/ /\ session[s].status = "SUBMITTED"
                 /\ session'[s].submittedAt = session[s].submittedAt
         /\ session'[s].status \in Live =>
              \/ Issued(s)
              \/ session[s].status \in Live /\ session'[s].merchant = session[s].merchant
<1>1. /\ session[s] \in SessionRow
      /\ session[s].status = "absent" => session[s] = NoSession
      /\ session[s].status = "PENDING" => session[s].token = None
  BY DEF TypeOK, TokensInv
<1>2. CASE Issued(s)
  <2>1. /\ session'[s].status = "PENDING" /\ session'[s].token = None
        /\ session[s].token = None
    BY <1>1, <1>2 DEF Issued, NoSession
  <2> QED
    BY <1>2, <2>1
<1>3. CASE RedeemedRow(s)
  BY <1>1, <1>3 DEF RedeemedRow, SessionRow, Live
<1>4. CASE SubmittedRow(s)
  BY <1>1, <1>4 DEF SubmittedRow, SessionRow, Redeemed, Live
<1>5. CASE EndedRow(s)
  BY <1>1, <1>5 DEF EndedRow, Closed, SessionRow, Live
<1>6. CASE KeptRow(s)
  <2>1. [NoSession EXCEPT !.createdBy = None] = NoSession
    BY DEF NoSession
  <2> QED
    BY <1>1, <1>6, <2>1 DEF KeptRow, SessionRow, Live
<1> QED
  BY <1>2, <1>3, <1>4, <1>5, <1>6 DEF RowStep

LEMMA TokensSteps ==
  ASSUME TypeOK, TokensInv, RequestInv, [Next]_setupVars
  PROVE  TokensInv'
<1>1. \A s \in Session : RowStep(s)
  BY RowSteps
<1>2. ASSUME NEW s \in Session
      PROVE  /\ session'[s].status = "absent" => session'[s] = NoSession
             /\ session'[s].status = "PENDING" => session'[s].token = None
  <2>1. Issued(s) => session'[s].token = None
    BY DEF Issued, NoSession
  <2> QED
    BY <1>1, <2>1, StatusSteps DEF TokensInv
<1>3. ASSUME NEW s \in Session, NEW u \in Session, s # u,
             session'[s].token = session'[u].token, session'[s].token # None
      PROVE  FALSE
  <2>1. ASSUME NEW v \in Session, NEW w \in Session, v # w, RedeemedRow(v)
        PROVE  session'[v].token # session'[w].token
    <3>1. PICK t \in Token : Redeem(v, t) /\ session'[v].token = t
      BY <2>1 DEF RedeemedRow, TypeOK, SessionRow
    <3>2. session'[w] = session[w] /\ session[w].token # t
      BY <2>1, <3>1 DEF Redeem, Redeemable, TypeOK
    <3> QED
      BY <3>1, <3>2
  <2>2. session'[s].token = session[s].token /\ session'[u].token = session[u].token
    BY <1>1, <1>3, <2>1, StatusSteps
  <2> QED
    BY <1>3, <2>2 DEF TokensInv
<1> QED
  BY <1>2, <1>3 DEF TokensInv

LEMMA RowsSteps ==
  ASSUME TypeOK, TokensInv, RowsInv, RequestInv, [Next]_setupVars
  PROVE  RowsInv'
<1> SUFFICES ASSUME NEW s \in Session
             PROVE  /\ session'[s].status # "absent" => session'[s].merchant \in Merchant
                    /\ session'[s].submittedAt # None => session'[s].submittedAt <= now'
                    /\ session'[s].status = "SUBMITTED" => session'[s].submittedAt # None
  BY DEF RowsInv
<1>1. RowStep(s) /\ now <= now' /\ now \in Nat /\ now' \in Nat
  BY RowSteps, Types, SetupAssumption DEF TypeOK, Time
<1>2. session'[s].status # "absent" => session'[s].merchant \in Merchant
  <2>1. CASE session[s].status # "absent"
    BY <1>1, <2>1, RowFacts DEF RowsInv
  <2>2. CASE session[s].status = "absent"
    <3>1. Issued(s) => session'[s].merchant \in Merchant
      BY DEF Issued, NoSession
    <3>2. RowStep(s) => Issued(s) \/ session'[s].status = "absent"
      BY <2>2 DEF RowStep, RedeemedRow, SubmittedRow, EndedRow, KeptRow, Redeemed, Live,
                  TypeOK, SessionRow
    <3> QED
      BY <1>1, <3>1, <3>2
  <2> QED
    BY <2>1, <2>2
<1>3. session'[s].submittedAt # None => session'[s].submittedAt <= now'
  <2>1. session[s].submittedAt # None => session[s].submittedAt \in Nat
    BY SetupAssumption DEF TypeOK, SessionRow, Time
  <2> QED
    BY <1>1, <2>1, RowFacts DEF RowsInv
<1>4. session'[s].status = "SUBMITTED" => session'[s].submittedAt # None
  <2>1. SubmittedRow(s) => session'[s].submittedAt # None
    BY SetupAssumption DEF SubmittedRow, TypeOK, SessionRow, Time
  <2> QED
    BY <1>1, <2>1, StatusSteps DEF RowsInv
<1> QED
  BY <1>2, <1>3, <1>4

\* The code issued for a store cancels what is live there.
LEMMA OneLiveSteps ==
  ASSUME TypeOK, TokensInv, RequestInv, OneLivePerStore, [Next]_setupVars
  PROVE  OneLivePerStore'
<1> SUFFICES ASSUME NEW s \in Session, NEW u \in Session, s # u,
                    session'[s].status \in Live, session'[u].status \in Live,
                    session'[s].merchant = session'[u].merchant
             PROVE  FALSE
  BY DEF OneLivePerStore
<1>1. ASSUME NEW v \in Session, NEW w \in Session, v # w, Issued(v),
             session'[w].status \in Live
      PROVE  session'[v].merchant # session'[w].merchant
  <2>1. PICK a \in Admin, m \in Merchant : IssueCode(a, m, v) /\ session'[v].merchant = m
    BY <1>1 DEF Issued, NoSession
  <2>2. session'[w] = Cancelled(SessionsOf(m))[w]
    BY <1>1, <2>1 DEF IssueCode, Cancelled
  <2>3. CASE session[w].merchant = m /\ session[w].status \in Live
    <3>1. session'[w] = [session[w] EXCEPT !.status = "CANCELLED"]
      BY <2>2, <2>3 DEF Cancelled, SessionsOf, Closed
    <3>2. session'[w].status = "CANCELLED"
      BY <3>1 DEF TypeOK, SessionRow
    <3> QED
      BY <1>1, <3>2 DEF Live
  <2>4. CASE ~(session[w].merchant = m /\ session[w].status \in Live)
    BY <1>1, <2>1, <2>2, <2>4 DEF Cancelled, SessionsOf
  <2> QED
    BY <2>3, <2>4
<1>2. /\ session[s].status \in Live /\ session'[s].merchant = session[s].merchant
      /\ session[u].status \in Live /\ session'[u].merchant = session[u].merchant
  BY <1>1, RowSteps, StatusSteps
<1> QED
  BY <1>2 DEF OneLivePerStore

\* A resubmission is later than what a request has read, so a draft that looks like the
\* reviewed one is it.
LEMMA RequestSteps ==
  ASSUME TypeOK, TokensInv, RowsInv, RequestInv, [Next]_setupVars
  PROVE  RequestInv'
<1> SUFFICES ASSUME NEW r \in Request
             PROVE  RequestOK(r)'
  BY DEF RequestInv
<1>1. CASE request'[r] = Idle
  BY <1>1 DEF RequestOK, Idle
<1>2. CASE request'[r] = request[r]
  <2> DEFINE s == request[r].session
  <2>1. CASE request[r].pc = "idle"
    BY <1>2, <2>1 DEF RequestOK
  <2>2. CASE request[r].pc # "idle"
    <3>1. s \in Session /\ session[s].status # "absent"
      BY <2>2 DEF RequestInv, RequestOK
    <3>2. /\ session'[s].status # "absent"
          /\ session'[s].submittedAt = session[s].submittedAt
               => session'[s].draft = session[s].draft
          /\ session'[s].submittedAt # session[s].submittedAt
               => session'[s].submittedAt = now
      BY <3>1, RowSteps, RowFacts
    <3>3. request[r].pc = "loaded" => request[r].loaded = request[r].reviewed
      BY DEF RequestInv, RequestOK
    <3>4. ASSUME request[r].pc \in {"reviewed", "loaded"}
          PROVE  /\ request[r].submittedAt \in Time /\ session'[s].submittedAt \in Time
                 /\ request[r].submittedAt <= session'[s].submittedAt
                 /\ request[r].submittedAt = session'[s].submittedAt
                      => request[r].reviewed = session'[s].draft
      <4>1. /\ request[r].submittedAt \in Time /\ session[s].submittedAt \in Time
            /\ request[r].submittedAt <= session[s].submittedAt
            /\ request[r].submittedAt = session[s].submittedAt
                 => request[r].reviewed = session[s].draft
        BY <3>4 DEF RequestInv, RequestOK
      <4>2. /\ now \in Time /\ MaxTime \in Nat
            /\ session[s].submittedAt # None => session[s].submittedAt <= now
        BY <3>1, SetupAssumption DEF TypeOK, RowsInv
      <4>3. None \notin Time
        BY SetupAssumption DEF Time
      <4> QED
        BY <3>2, <4>1, <4>2, <4>3 DEF Time
    <3> QED
      BY <1>2, <3>1, <3>2, <3>3, <3>4 DEF RequestOK
  <2> QED
    BY <2>1, <2>2
<1>3. ASSUME NEW s \in Session, ReviewDraft(r, s)
      PROVE  RequestOK(r)'
  <2>1. /\ request'[r].pc = "reviewed" /\ request'[r].session = s
        /\ request'[r].reviewed = session[s].draft
        /\ request'[r].submittedAt = session[s].submittedAt
    BY <1>3 DEF ReviewDraft, Idle, TypeOK
  <2>2. session[s].status = "SUBMITTED" /\ session' = session
    BY <1>3 DEF ReviewDraft
  <2>3. session[s].submittedAt \in Time /\ \A x \in Time : x <= x
    BY <2>2, SetupAssumption DEF TypeOK, SessionRow, RowsInv, Time
  <2> QED
    BY <2>1, <2>2, <2>3 DEF RequestOK
<1>4. CASE LoadReviewed(r)
  <2> DEFINE s == request[r].session
  <2>1. /\ request[r].pc = "reviewed" /\ session[s].submittedAt = request[r].submittedAt
        /\ session' = session
    BY <1>4 DEF LoadReviewed
  <2>2. request[r] \in RequestRow /\ RequestOK(r)
    BY DEF TypeOK, RequestInv
  <2>3. request'[r] = [request[r] EXCEPT !.pc = "loaded", !.loaded = session[s].draft]
    BY <1>4 DEF LoadReviewed, TypeOK
  <2>4. /\ request'[r].pc = "loaded" /\ request'[r].loaded = session[s].draft
        /\ request'[r].session = s /\ request'[r].reviewed = request[r].reviewed
        /\ request'[r].submittedAt = request[r].submittedAt
    BY <2>2, <2>3 DEF RequestRow
  <2> QED
    BY <2>1, <2>2, <2>4 DEF RequestOK
<1>5. ASSUME NEW t \in Token, Authenticate(r, t)
      PROVE  RequestOK(r)'
  <2>1. PICK s \in Session :
          /\ Authenticates(s, t)
          /\ request' = [request EXCEPT ![r] = [Idle EXCEPT
                           !.pc = "authenticated", !.session = s, !.token = t]]
    BY <1>5 DEF Authenticate
  <2>2. request'[r].pc = "authenticated" /\ request'[r].session = s
    BY <2>1 DEF Idle, TypeOK
  <2>3. session' = session /\ session[s].status # "absent"
    BY <1>5, <2>1 DEF Authenticate, Authenticates, IsExtensionActive, Redeemed
  <2> QED
    BY <2>2, <2>3 DEF RequestOK
<1> QED
  BY <1>1, <1>2, <1>3, <1>4, <1>5
     DEF Next, Dashboard, setupVars, IssueCode, CancelSession, ReviewDraft, LoadReviewed,
         ApplyDraft, EditRecipe, SetAdminActive, RemoveAdmin, Redeem, Authenticate,
         SubmitRecipe, EndSession, EndRequest, Tick, TypeOK

\* What was loaded is what was reviewed and, when the claim succeeds, the final draft.
LEMMA LoadedIsDraft ==
  ASSUME RequestInv, NEW r \in Request, ApplyDraft(r)
  PROVE  LET s == request[r].session IN
         /\ s \in Session /\ session[s].status = "SUBMITTED"
         /\ request[r].loaded = session[s].draft /\ request[r].reviewed = session[s].draft
  BY DEF RequestInv, RequestOK, ApplyDraft

LEMMA LiveRecipeSteps ==
  ASSUME TypeOK, TokensInv, RowsInv, RequestInv, LiveRecipeWasSaved, [Next]_setupVars
  PROVE  LiveRecipeWasSaved'
<1> SUFFICES ASSUME NEW m \in Merchant, recipe'[m] # None
             PROVE  \E s \in Session : /\ session'[s].merchant = m
                                       /\ session'[s].status = "APPLIED"
                                       /\ session'[s].draft = recipe'[m]
  BY DEF LiveRecipeWasSaved, SessionsOf
<1>1. CASE recipe'[m] = recipe[m]
  <2>1. PICK s \in Session : /\ session[s].merchant = m /\ session[s].status = "APPLIED"
                             /\ session[s].draft = recipe[m]
    BY <1>1 DEF LiveRecipeWasSaved, SessionsOf
  <2>2. /\ session'[s].status = "APPLIED" /\ session'[s].draft = session[s].draft
        /\ session'[s].merchant = session[s].merchant
    BY <2>1, RowSteps, RowFacts DEF Ended
  <2> QED
    BY <1>1, <2>1, <2>2
<1>2. ASSUME NEW r \in Request, ApplyDraft(r), recipe'[m] # recipe[m]
      PROVE  \E s \in Session : /\ session'[s].merchant = m
                                /\ session'[s].status = "APPLIED"
                                /\ session'[s].draft = recipe'[m]
  <2> DEFINE s == request[r].session
  <2>1. s \in Session /\ request[r].loaded = session[s].draft
    BY <1>2, LoadedIsDraft
  <2>2. session'[s] = [session[s] EXCEPT !.status = "APPLIED"] /\ session[s] \in SessionRow
    BY <1>2, <2>1 DEF ApplyDraft, TypeOK
  <2>3. session[s].merchant = m /\ recipe'[m] = request[r].loaded
    BY <1>2 DEF ApplyDraft, TypeOK
  <2>4. /\ session'[s].merchant = m /\ session'[s].status = "APPLIED"
        /\ session'[s].draft = recipe'[m]
    BY <2>1, <2>2, <2>3 DEF SessionRow
  <2> QED
    BY <2>1, <2>4
<1>3. ASSUME NEW n \in Merchant, EditRecipe(n)
      PROVE  recipe'[m] = recipe[m]
  BY <1>3 DEF EditRecipe, TypeOK
<1> QED
  BY <1>1, <1>2, <1>3
     DEF Next, Dashboard, setupVars, IssueCode, CancelSession, ReviewDraft, LoadReviewed,
         SetAdminActive, RemoveAdmin, Redeem, Authenticate, SubmitRecipe, EndSession,
         EndRequest, Tick

-----------------------------------------------------------------------------
(* The theorems *)

LEMMA SetupInitial == Init => SetupInv
BY SetupAssumption DEF Init, SetupInv, TypeOK, TokensInv, RowsInv, RequestInv, RequestOK,
   OneLivePerStore, LiveRecipeWasSaved, NoSession, Idle, SessionRow, RequestRow, Time, Live

LEMMA SetupSteps == SetupInv /\ [Next]_setupVars => SetupInv'
BY Types, TokensSteps, RowsSteps, RequestSteps, OneLiveSteps, LiveRecipeSteps DEF SetupInv

LEMMA SetupInvariant == Spec => []SetupInv
BY SetupInitial, SetupSteps, PTL DEF Spec

\* Every row of the tables and every request being served keeps its type.
THEOREM SetupTypeCorrect == Spec => []TypeOK
BY SetupInvariant, PTL DEF SetupInv

\* However codes are issued, redeemed, submitted, saved and cancelled at the same time, a
\* store has one live code or session.
THEOREM OneLiveSession == Spec => []OneLivePerStore
BY SetupInvariant, PTL DEF SetupInv

\* What is live in a store is the final draft of a session saved to that store.
THEOREM LiveIsSaved == Spec => []LiveRecipeWasSaved
BY SetupInvariant, PTL DEF SetupInv

\* A draft goes live only with a request whose admin has reviewed that very draft.
THEOREM LiveIsReviewed == Spec => SavedWasReviewed
<1>1. SetupInv /\ [Next]_setupVars =>
        [\A m \in Merchant : recipe'[m] \notin {recipe[m], None} =>
           \E r \in Request :
             request[r].pc = "loaded" /\ request[r].reviewed = recipe'[m]]_setupVars
  <2> SUFFICES ASSUME SetupInv, [Next]_setupVars, NEW m \in Merchant,
                      recipe'[m] \notin {recipe[m], None}
               PROVE  \E r \in Request :
                        request[r].pc = "loaded" /\ request[r].reviewed = recipe'[m]
    OBVIOUS
  <2>1. ASSUME NEW r \in Request, ApplyDraft(r)
        PROVE  request[r].pc = "loaded" /\ request[r].reviewed = recipe'[m]
    <3>1. request[r].reviewed = request[r].loaded /\ request[r].pc = "loaded"
      BY <2>1, LoadedIsDraft DEF SetupInv, ApplyDraft
    <3>2. recipe'[m] = request[r].loaded
      BY <2>1 DEF ApplyDraft, SetupInv, TypeOK
    <3> QED
      BY <3>1, <3>2
  <2>2. ASSUME NEW n \in Merchant, EditRecipe(n)
        PROVE  recipe'[m] \in {recipe[m], None}
    BY <2>2 DEF EditRecipe, SetupInv, TypeOK
  <2> QED
    BY <2>1, <2>2
       DEF Next, Dashboard, setupVars, IssueCode, CancelSession, ReviewDraft, LoadReviewed,
           SetAdminActive, RemoveAdmin, Redeem, Authenticate, SubmitRecipe, EndSession,
           EndRequest, Tick
<1> QED
  BY <1>1, SetupInvariant, PTL DEF Spec, SavedWasReviewed

\* No request that was on its way reopens an ended session or changes its draft.
THEOREM EndedStays == Spec => EndedIsFinal
<1>1. SetupInv /\ [Next]_setupVars =>
        [\A s \in Session : session[s].status \in Ended =>
           /\ session'[s].status = session[s].status
           /\ session'[s].draft = session[s].draft]_setupVars
  BY RowSteps, RowFacts DEF SetupInv
<1> QED
  BY <1>1, SetupInvariant, PTL DEF Spec, EndedIsFinal

\* The install that redeemed a code keeps the session, alone and in its store.
THEOREM OneInstall == Spec => OneInstallPerCode
<1>1. SetupInv /\ [Next]_setupVars =>
        [\A s \in Session : session[s].token # None =>
           /\ session'[s].token = session[s].token
           /\ session'[s].merchant = session[s].merchant
           /\ \A u \in Session \ {s} : session'[u].token # session[s].token]_setupVars
  <2> SUFFICES ASSUME SetupInv, [Next]_setupVars, NEW s \in Session, session[s].token # None
               PROVE  /\ session'[s].token = session[s].token
                      /\ session'[s].merchant = session[s].merchant
                      /\ \A u \in Session \ {s} : session'[u].token # session[s].token
    OBVIOUS
  <2>1. session[s].status # "absent"
    BY DEF SetupInv, TokensInv, NoSession
  <2>2. /\ session'[s].token = session[s].token
        /\ session'[s].merchant = session[s].merchant
    BY <2>1, RowSteps, RowFacts DEF SetupInv
  <2>3. TokensInv'
    BY TokensSteps DEF SetupInv
  <2> QED
    BY <2>2, <2>3 DEF TokensInv
<1> QED
  BY <1>1, SetupInvariant, PTL DEF Spec, OneInstallPerCode

-----------------------------------------------------------------------------
(* The extension *)

\* What the redemption and the calls hold while they run.
HoldInv ==
  /\ redeem.pc # "idle" => redeem.code \in Session /\ redeem.token \in Token
  /\ redeem.pc = "endPrevious" => redeem.previous \in Record
  /\ redeem.pc = "store" /\ stored # None => redeem.previous = stored
  /\ \A r \in Request : fetch[r].pc # "idle" => fetch[r].record \in Record

\* A secret of this install is sent with one code only, and only that code's session
\* can be bound to it.
Attempts ==
  late \cup (IF activation # None THEN {activation} ELSE {})
       \cup (IF redeem.pc # "idle" THEN {[code |-> redeem.code, token |-> redeem.token]} ELSE {})
AttemptsInv ==
  /\ \A a \in Attempts : a.token \notin OtherToken
  /\ \A a \in Attempts, s \in Session : session[s].token = a.token => s = a.code
  /\ \A a, b \in Attempts : a.token = b.token => a.code = b.code

ExtensionInv == SetupInv /\ ExtensionTypeOK /\ HoldInv /\ AttemptsInv /\ AnswerIsOwn

-----------------------------------------------------------------------------
(* The extension and the backend *)

\* Whatever the extension does, the backend takes a step of its own or none.
LEMMA BackendSteps ==
  ASSUME ExtensionInv, [ExtensionNext]_extensionVars
  PROVE  [Next]_setupVars
<1> USE OtherTokenAssumption
<1>1. ASSUME NEW s \in Session, NEW t \in Token, Served(s, t)
      PROVE  [Next]_setupVars
  BY <1>1 DEF Served, Next
<1>2. ServeRedeem => [Next]_setupVars
  BY <1>1 DEF ServeRedeem, ExtensionInv, HoldInv
<1>3. ASSUME NEW a \in late, ServeLate(a)
      PROVE  [Next]_setupVars
  BY <1>1, <1>3 DEF ServeLate, ExtensionInv, ExtensionTypeOK, Activation
<1>4. Elsewhere => [Next]_setupVars
  BY DEF Elsewhere, Next
<1>5. ASSUME NEW r \in Request, CallAuthenticated(r)
      PROVE  [Next]_setupVars
  <2>1. fetch[r].record.token \in Token
    BY <1>5 DEF CallAuthenticated, ExtensionInv, HoldInv, Record
  <2> QED
    BY <1>5, <2>1 DEF CallAuthenticated, Next
<1>6. ASSUME NEW r \in Request, SubmitRefused(r) \/ RequestDone(r) \/ ServeEnding(r)
      PROVE  [Next]_setupVars
  BY <1>6 DEF SubmitRefused, RequestDone, ServeEnding, Next
<1>7. ASSUME NEW r \in Request, NEW d \in Draft, SubmitDraft(r, d)
      PROVE  [Next]_setupVars
  BY <1>7 DEF SubmitDraft, Next
<1>8. ASSUME NEW r \in Request, NEW t \in Token, ServeEnd(r, t)
      PROVE  [Next]_setupVars
  BY <1>8 DEF ServeEnd, Next
<1>9. CASE UNCHANGED setupVars
  BY <1>9
<1> QED
  BY <1>2, <1>3, <1>4, <1>5, <1>6, <1>7, <1>8, <1>9
     DEF ExtensionNext, extensionVars, StartRedeem, GiveUpRedeem, RedeemRejected,
         RedeemAccepted, ReadPrevious, StoreRecord, EndPrevious, CallBackend, FindExpired,
         CallRefused, CheckRejected, ClearRecord, StartEnd, FinishEnd, GiveUpCall

\* The backend's part of the invariant, and what its steps leave of every session.
LEMMA SetupPart ==
  ASSUME ExtensionInv, [ExtensionNext]_extensionVars
  PROVE  /\ SetupInv'
         /\ \A s \in Session : session[s].token # None => session'[s].token = session[s].token
<1>1. SetupInv /\ [Next]_setupVars
  BY BackendSteps DEF ExtensionInv
<1>2. SetupInv'
  BY <1>1, SetupSteps
<1> QED
  BY <1>1, <1>2, RowSteps, RowFacts DEF SetupInv

-----------------------------------------------------------------------------
(* Secrets *)

\* Only a redemption binds a secret.
LEMMA OthersKeepTokens ==
  ASSUME SetupInv, NEW s \in Session,
         \/ Dashboard \/ Tick \/ UNCHANGED setupVars
         \/ \E r \in Request, t \in Token : Authenticate(r, t)
         \/ \E r \in Request, d \in Draft : SubmitRecipe(r, d)
         \/ \E r \in Request : EndSession(r) \/ EndRequest(r)
  PROVE  session'[s].token = session[s].token
<1>1. /\ session \in [Session -> SessionRow]
      /\ session[s].status = "absent" => session[s].token = None
  BY DEF SetupInv, TypeOK, TokensInv, NoSession
<1>2. ASSUME NEW a \in Admin, NEW m \in Merchant, NEW u \in Session, IssueCode(a, m, u)
      PROVE  session'[s].token = session[s].token
  <2>1. CASE u = s
    BY <1>1, <1>2, <2>1 DEF IssueCode, Cancelled, NoSession
  <2>2. CASE u # s
    <3>1. session'[s] = session[s] \/ session'[s] = Closed(s)
      BY <1>2, <2>2 DEF IssueCode, Cancelled
    <3> QED
      BY <1>1, <3>1 DEF Closed, SessionRow
  <2> QED
    BY <2>1, <2>2
<1>3. ASSUME NEW u \in Session, CancelSession(u)
      PROVE  session'[s].token = session[s].token
  <2>1. session'[s] = session[s] \/ session'[s] = Closed(s)
    BY <1>3 DEF CancelSession, Cancelled
  <2> QED
    BY <1>1, <2>1 DEF Closed, SessionRow
<1>4. ASSUME NEW r \in Request, ApplyDraft(r)
      PROVE  session'[s].token = session[s].token
  BY <1>1, <1>4 DEF ApplyDraft, SessionRow
<1>5. ASSUME NEW a \in Admin, RemoveAdmin(a)
      PROVE  session'[s].token = session[s].token
  BY <1>1, <1>5 DEF RemoveAdmin, SessionRow
<1>6. ASSUME NEW r \in Request, NEW d \in Draft, SubmitRecipe(r, d)
      PROVE  session'[s].token = session[s].token
  BY <1>1, <1>6 DEF SubmitRecipe, SessionRow
<1>7. ASSUME NEW r \in Request, EndSession(r)
      PROVE  session'[s].token = session[s].token
  <2>1. \/ session'[s] = session[s]
        \/ session'[s] = [session[s] EXCEPT !.status = "CANCELLED", !.expiresAt = now]
        \/ session'[s] = [session[s] EXCEPT !.expiresAt = now]
    BY <1>1, <1>7 DEF EndSession
  <2> QED
    BY <1>1, <2>1 DEF SessionRow
<1>8. CASE Dashboard
  BY <1>2, <1>3, <1>4, <1>5, <1>8
     DEF Dashboard, ReviewDraft, LoadReviewed, EditRecipe, SetAdminActive
<1>9. CASE \/ Tick \/ UNCHANGED setupVars
           \/ \E r \in Request, t \in Token : Authenticate(r, t)
           \/ \E r \in Request : EndRequest(r)
  BY <1>9 DEF Tick, setupVars, Authenticate, EndRequest
<1> QED
  BY <1>6, <1>7, <1>8, <1>9

\* A session is bound to the secret of another install or of an attempt for its own code.
LEMMA TokenGains ==
  ASSUME ExtensionInv, [ExtensionNext]_extensionVars, NEW s \in Session,
         session'[s].token # session[s].token
  PROVE  \/ session'[s].token \in OtherToken
         \/ \E a \in Attempts : a.code = s /\ a.token = session'[s].token
<1>1. SetupInv /\ session \in [Session -> SessionRow]
  BY DEF ExtensionInv, SetupInv, TypeOK
<1>2. ASSUME NEW u \in Session, NEW t \in Token, Redeem(u, t)
      PROVE  u = s /\ session'[s].token = t
  <2>1. session' = [session EXCEPT ![u].status = "CONNECTED", ![u].token = t,
                                   ![u].expiresAt = now + SessionLife]
    BY <1>2 DEF Redeem
  <2>2. u = s
    BY <1>1, <2>1
  <2> QED
    BY <1>1, <2>1, <2>2 DEF SessionRow
<1>3. ~UNCHANGED session
  OBVIOUS
<1>4. CASE ServeRedeem
  <2>1. redeem.code \in Session /\ redeem.token \in Token /\ redeem.pc # "idle"
    BY <1>4 DEF ServeRedeem, ExtensionInv, HoldInv
  <2>2. Redeem(redeem.code, redeem.token)
    BY <1>3, <1>4 DEF ServeRedeem, Served, setupVars
  <2>3. [code |-> redeem.code, token |-> redeem.token] \in Attempts
    BY <2>1 DEF Attempts
  <2> QED
    BY <1>2, <2>1, <2>2, <2>3
<1>5. ASSUME NEW a \in late, ServeLate(a)
      PROVE  \E b \in Attempts : b.code = s /\ b.token = session'[s].token
  <2>1. a.code \in Session /\ a.token \in Token /\ a \in Attempts
    BY DEF ExtensionInv, ExtensionTypeOK, Activation, Attempts
  <2>2. Redeem(a.code, a.token)
    BY <1>3, <1>5 DEF ServeLate, Served, setupVars
  <2> QED
    BY <1>2, <2>1, <2>2
<1>6. CASE Elsewhere
  <2>1. ASSUME NEW u \in Session, NEW t \in OtherToken, Redeem(u, t)
        PROVE  session'[s].token \in OtherToken
    BY <1>2, <2>1, OtherTokenAssumption
  <2>2. ~(Dashboard \/ Tick)
    BY <1>1, OthersKeepTokens
  <2> QED
    BY <1>6, <2>1, <2>2 DEF Elsewhere
<1>7. ASSUME NEW r \in Request, CallAuthenticated(r)
      PROVE  FALSE
  BY <1>3, <1>7 DEF CallAuthenticated, Authenticate
<1>8. ASSUME NEW r \in Request, SubmitRefused(r) \/ RequestDone(r) \/ ServeEnding(r)
      PROVE  FALSE
  BY <1>1, <1>8, OthersKeepTokens DEF SubmitRefused, RequestDone, ServeEnding
<1>9. ASSUME NEW r \in Request, NEW d \in Draft, SubmitDraft(r, d)
      PROVE  FALSE
  BY <1>1, <1>9, OthersKeepTokens DEF SubmitDraft
<1>10. ASSUME NEW r \in Request, NEW t \in Token, ServeEnd(r, t)
       PROVE  FALSE
  BY <1>3, <1>10 DEF ServeEnd, Authenticate, setupVars
<1> QED
  BY <1>3, <1>4, <1>5, <1>6, <1>7, <1>8, <1>9, <1>10
     DEF ExtensionNext, extensionVars, setupVars, StartRedeem, GiveUpRedeem, RedeemRejected,
         RedeemAccepted, ReadPrevious, StoreRecord, EndPrevious, CallBackend, FindExpired,
         CallRefused, CheckRejected, ClearRecord, StartEnd, FinishEnd, GiveUpCall

\* No step but the start of a redemption makes a new attempt.
LEMMA AttemptsShrink ==
  ASSUME ExtensionInv, [ExtensionNext]_extensionVars
  PROVE  \/ Attempts' \subseteq Attempts
         \/ \E s \in Session, t \in Token : StartRedeem(s, t)
<1>1. CASE ServeRedeem
  <2>1. redeem'.code = redeem.code /\ redeem'.token = redeem.token /\ redeem.pc # "idle"
    BY <1>1 DEF ServeRedeem, ExtensionInv, ExtensionTypeOK
  <2> QED
    BY <1>1, <2>1 DEF ServeRedeem, Attempts
<1>2. CASE GiveUpRedeem
  BY <1>2 DEF GiveUpRedeem, Attempts, NoRedeem
<1>3. CASE RedeemRejected
  BY <1>3 DEF RedeemRejected, Attempts, NoRedeem
<1>4. CASE RedeemAccepted
  <2>1. redeem'.pc = "idle" \/ (redeem'.code = redeem.code /\ redeem'.token = redeem.token)
    BY <1>4 DEF RedeemAccepted, NoRedeem, ExtensionInv, ExtensionTypeOK
  <2> QED
    BY <1>4, <2>1 DEF RedeemAccepted, Attempts
<1>5. CASE ReadPrevious
  <2>1. redeem'.code = redeem.code /\ redeem'.token = redeem.token
    BY <1>5 DEF ReadPrevious, ExtensionInv, ExtensionTypeOK
  <2> QED
    BY <1>5, <2>1 DEF ReadPrevious, Attempts
<1>6. CASE StoreRecord
  <2>1. redeem'.pc = "idle" \/ (redeem'.code = redeem.code /\ redeem'.token = redeem.token)
    BY <1>6 DEF StoreRecord, NoRedeem, ExtensionInv, ExtensionTypeOK
  <2> QED
    BY <1>6, <2>1 DEF StoreRecord, Attempts
<1>7. CASE EndPrevious
  BY <1>7 DEF EndPrevious, Attempts, NoRedeem
<1>8. ASSUME NEW a \in late, ServeLate(a)
      PROVE  Attempts' \subseteq Attempts
  BY <1>8 DEF ServeLate, Attempts
<1>9. CASE UNCHANGED <<activation, late, redeem>>
  BY <1>9 DEF Attempts
<1> QED
  BY <1>1, <1>2, <1>3, <1>4, <1>5, <1>6, <1>7, <1>8, <1>9
     DEF ExtensionNext, extensionVars, localVars, onlyFetch, Elsewhere, CallBackend,
         FindExpired, CallAuthenticated, CallRefused, SubmitRefused, RequestDone,
         CheckRejected, ClearRecord, StartEnd, FinishEnd, ServeEnding, GiveUpCall,
         SubmitDraft, ServeEnd

\* A redemption starts with the pending secret of its code or an unused one.
LEMMA NewAttempt ==
  ASSUME ExtensionInv, NEW s \in Session, NEW t \in Token, StartRedeem(s, t)
  PROVE  /\ Attempts' \subseteq Attempts \cup {[code |-> s, token |-> t]}
         /\ t \notin OtherToken
         /\ \A u \in Session : session[u].token = t => u = s
         /\ \A a \in Attempts : a.token = t => a.code = s
<1>1. /\ activation' = [code |-> s, token |-> t] /\ late' = late /\ redeem.pc = "idle"
      /\ redeem'.code = s /\ redeem'.token = t
  BY DEF StartRedeem, NoRedeem
<1>2. Attempts' \subseteq late \cup {[code |-> s, token |-> t]}
  BY <1>1 DEF Attempts
<1>3. Attempts = late \cup (IF activation # None THEN {activation} ELSE {})
  BY <1>1 DEF Attempts
<1>4. CASE activation # None /\ activation.code = s
  <2>1. t = activation.token /\ activation \in Attempts
    BY <1>3, <1>4 DEF StartRedeem, SecretFor
  <2> QED
    BY <1>2, <1>3, <1>4, <2>1 DEF ExtensionInv, AttemptsInv
<1>5. CASE Unused(t)
  BY <1>2, <1>3, <1>5 DEF Unused
<1> QED
  BY <1>4, <1>5 DEF StartRedeem, SecretFor

LEMMA AttemptsSteps ==
  ASSUME ExtensionInv, [ExtensionNext]_extensionVars
  PROVE  AttemptsInv'
<1>1. AttemptsInv
  BY DEF ExtensionInv
<1>2. CASE Attempts' \subseteq Attempts
  <2>1. ASSUME NEW a \in Attempts, NEW s \in Session, session'[s].token = a.token
        PROVE  s = a.code
    BY <1>1, <2>1, TokenGains DEF AttemptsInv
  <2> QED
    BY <1>1, <1>2, <2>1 DEF AttemptsInv
<1>3. ASSUME NEW s \in Session, NEW t \in Token, StartRedeem(s, t)
      PROVE  AttemptsInv'
  <2> DEFINE new == [code |-> s, token |-> t]
  <2>1. session' = session
    BY <1>3 DEF StartRedeem, setupVars
  <2>2. /\ Attempts' \subseteq Attempts \cup {new} /\ t \notin OtherToken
        /\ \A u \in Session : session[u].token = t => u = s
        /\ \A a \in Attempts : a.token = t => a.code = s
    BY <1>3, NewAttempt
  <2> QED
    BY <1>1, <2>1, <2>2 DEF AttemptsInv
<1> QED
  BY <1>2, <1>3, AttemptsShrink

-----------------------------------------------------------------------------
(* What the extension holds *)

\* How a step may change the stored session.
LEMMA StoredSteps ==
  ASSUME ExtensionInv, [ExtensionNext]_extensionVars
  PROVE  \/ stored' = stored
         \/ stored' = None /\ (redeem' = redeem \/ ReadPrevious)
         \/ StoreRecord
  BY DEF ExtensionNext, extensionVars, localVars, onlyFetch, Elsewhere, StartRedeem, ServeRedeem,
     ServeLate, GiveUpRedeem, RedeemRejected, RedeemAccepted, ReadPrevious, EndPrevious,
     CallBackend, FindExpired, CallAuthenticated, CallRefused, SubmitRefused, RequestDone,
     CheckRejected, ClearRecord, StartEnd, FinishEnd, ServeEnding, GiveUpCall, SubmitDraft,
     ServeEnd

\* How a step may change the redemption.
RedeemGoesOn ==
  /\ redeem'.code = redeem.code /\ redeem'.token = redeem.token
  /\ redeem'.answer = redeem.answer /\ redeem'.expiresAt = redeem.expiresAt
  /\ \/ redeem'.pc = redeem.pc /\ redeem'.previous = redeem.previous
     \/ redeem.pc = "waiting" /\ redeem'.pc = "rejected" /\ redeem'.previous = redeem.previous
     \/ redeem.pc = "accepted" /\ redeem'.pc = "replace" /\ redeem'.previous = redeem.previous
     \/ ReadPrevious /\ redeem'.pc = "store"
          /\ redeem'.previous = IF HasSetup THEN stored ELSE None
     \/ StoreRecord /\ redeem'.pc = "endPrevious" /\ redeem'.previous = redeem.previous
          /\ redeem.previous # None
RedeemServed ==
  /\ redeem.pc = "waiting" /\ redeem'.pc = "accepted"
  /\ redeem'.code = redeem.code /\ redeem'.token = redeem.token
  /\ redeem'.previous = redeem.previous /\ redeem'.answer = redeem.code
  /\ redeem'.expiresAt = session'[redeem.code].expiresAt
  /\ session'[redeem.code].token = redeem.token
RedeemStarted ==
  /\ redeem.pc = "idle" /\ redeem'.pc = "waiting"
  /\ redeem'.code \in Session /\ redeem'.token \in Token
  /\ redeem'.answer = None /\ redeem'.expiresAt = 0 /\ redeem'.previous = None
RedeemOver == redeem' = NoRedeem /\ redeem'.pc = "idle"

LEMMA RedeemSteps ==
  ASSUME ExtensionInv, [ExtensionNext]_extensionVars
  PROVE  RedeemOver \/ RedeemGoesOn \/ RedeemServed \/ RedeemStarted
<1> DEFINE Goal == RedeemOver \/ RedeemGoesOn \/ RedeemServed \/ RedeemStarted
<1>1. redeem \in [pc : {"idle", "waiting", "accepted", "rejected", "replace", "store",
                       "endPrevious"},
                 code : Session \cup {None}, token : Token \cup {None},
                 answer : Session \cup {None}, expiresAt : 0..(MaxTime + SessionLife),
                 previous : Record \cup {None}]
  BY DEF ExtensionInv, ExtensionTypeOK
<1>2. CASE ServeRedeem
  <2>1. redeem.pc = "waiting" /\ redeem.code \in Session /\ redeem.token \in Token
    BY <1>2 DEF ServeRedeem, ExtensionInv, HoldInv
  <2>2. CASE Redeemable(redeem.code, redeem.token) \/ RedeemedBy(redeem.code, redeem.token)
    <3>1. redeem' = [redeem EXCEPT !.pc = "accepted", !.answer = redeem.code,
                       !.expiresAt = session'[redeem.code].expiresAt]
      BY <1>2, <2>2 DEF ServeRedeem
    <3>2. session \in [Session -> SessionRow]
      BY DEF ExtensionInv, SetupInv, TypeOK
    <3>3. session'[redeem.code].token = redeem.token
      <4>1. CASE Redeem(redeem.code, redeem.token)
        BY <2>1, <3>2, <4>1 DEF Redeem, SessionRow
      <4>2. CASE ~Redeemable(redeem.code, redeem.token) /\ UNCHANGED setupVars
        BY <2>2, <4>2 DEF RedeemedBy, setupVars
      <4> QED
        BY <1>2, <4>1, <4>2 DEF ServeRedeem, Served
    <3> QED
      BY <1>1, <2>1, <3>1, <3>3 DEF RedeemServed
  <2>3. CASE ~(Redeemable(redeem.code, redeem.token) \/ RedeemedBy(redeem.code, redeem.token))
    <3>1. redeem' = [redeem EXCEPT !.pc = "rejected"]
      BY <1>2, <2>3 DEF ServeRedeem
    <3> QED
      BY <1>1, <2>1, <3>1 DEF RedeemGoesOn
  <2> QED
    BY <2>2, <2>3
<1>3. CASE RedeemAccepted
  <2>1. CASE redeem' = [redeem EXCEPT !.pc = "replace"]
    BY <1>1, <1>3, <2>1 DEF RedeemAccepted, RedeemGoesOn
  <2>2. CASE redeem' = NoRedeem
    BY <2>2 DEF RedeemOver, NoRedeem
  <2> QED
    BY <1>3, <2>1, <2>2 DEF RedeemAccepted
<1>4. CASE ReadPrevious
  <2>1. redeem' = [redeem EXCEPT !.pc = "store",
                                 !.previous = IF HasSetup THEN stored ELSE None]
    BY <1>4 DEF ReadPrevious
  <2> QED
    BY <1>1, <1>4, <2>1 DEF RedeemGoesOn
<1>5. CASE StoreRecord
  <2>1. CASE redeem' = NoRedeem
    BY <2>1 DEF RedeemOver, NoRedeem
  <2>2. CASE redeem' = [redeem EXCEPT !.pc = "endPrevious"] /\ redeem.previous # None
    BY <1>1, <1>5, <2>2 DEF RedeemGoesOn
  <2> QED
    BY <1>5, <2>1, <2>2 DEF StoreRecord
<1>6. ASSUME NEW s \in Session, NEW t \in Token, StartRedeem(s, t)
      PROVE  Goal
  <2>1. redeem' = [NoRedeem EXCEPT !.pc = "waiting", !.code = s, !.token = t]
    BY <1>6 DEF StartRedeem
  <2>2. redeem' = [pc |-> "waiting", code |-> s, token |-> t, answer |-> None,
                   expiresAt |-> 0, previous |-> None]
    BY <2>1 DEF NoRedeem
  <2>3. redeem.pc = "idle" /\ s \in Session /\ t \in Token
    BY <1>6 DEF StartRedeem
  <2>4. RedeemStarted
    BY <2>2, <2>3 DEF RedeemStarted
  <2> QED
    BY <2>4
<1>7. CASE GiveUpRedeem \/ RedeemRejected \/ EndPrevious
  BY <1>7 DEF GiveUpRedeem, RedeemRejected, EndPrevious, RedeemOver, NoRedeem
<1>8. CASE UNCHANGED redeem
  BY <1>8 DEF RedeemGoesOn
<1> QED
  BY <1>2, <1>3, <1>4, <1>5, <1>6, <1>7, <1>8
     DEF ExtensionNext, extensionVars, localVars, onlyFetch, Elsewhere, ServeLate, CallBackend,
         FindExpired, CallAuthenticated, CallRefused, SubmitRefused, RequestDone,
         CheckRejected, ClearRecord, StartEnd, FinishEnd, ServeEnding, GiveUpCall,
         SubmitDraft, ServeEnd

LEMMA HoldSteps ==
  ASSUME ExtensionInv, [ExtensionNext]_extensionVars
  PROVE  HoldInv'
<1>1. HoldInv /\ stored \in Record \cup {None} /\ redeem.previous \in Record \cup {None}
  BY DEF ExtensionInv, ExtensionTypeOK
<1>2. redeem'.pc # "idle" => redeem'.code \in Session /\ redeem'.token \in Token
  <2>1. CASE RedeemGoesOn \/ RedeemServed
    <3>1. \/ redeem'.pc = "idle"
          \/ redeem.pc # "idle" /\ redeem'.code = redeem.code /\ redeem'.token = redeem.token
      BY <2>1 DEF RedeemGoesOn, RedeemServed, ReadPrevious, StoreRecord
    <3> QED
      BY <1>1, <3>1 DEF HoldInv
  <2>2. CASE RedeemOver \/ RedeemStarted
    BY <2>2 DEF RedeemOver, RedeemStarted
  <2> QED
    BY <2>1, <2>2, RedeemSteps
<1>3. redeem'.pc = "endPrevious" => redeem'.previous \in Record
  <2>1. redeem'.pc = "endPrevious" => ~RedeemOver /\ ~RedeemServed /\ ~RedeemStarted
    BY DEF RedeemOver, RedeemServed, RedeemStarted
  <2>2. CASE RedeemGoesOn
    BY <1>1, <2>2 DEF RedeemGoesOn, HoldInv
  <2> QED
    BY <2>1, <2>2, RedeemSteps
<1>4. redeem'.pc = "store" /\ stored' # None => redeem'.previous = stored'
  <2> SUFFICES ASSUME redeem'.pc = "store", stored' # None
               PROVE  redeem'.previous = stored'
    OBVIOUS
  <2>1. /\ RedeemGoesOn
        /\ \/ redeem.pc = "store" /\ redeem'.previous = redeem.previous
           \/ ReadPrevious /\ redeem'.previous = IF HasSetup THEN stored ELSE None
    <3>1. RedeemGoesOn
      BY RedeemSteps DEF RedeemOver, RedeemServed, RedeemStarted
    <3> QED
      BY <3>1 DEF RedeemGoesOn
  <2>2. CASE ReadPrevious /\ redeem'.previous = IF HasSetup THEN stored ELSE None
    <3>1. stored' = stored /\ stored # None /\ ~HasExpired
      BY <2>2 DEF ReadPrevious, HasExpired
    <3>2. stored.expiresAt \in Nat /\ now \in Nat
      BY <1>1, <3>1, SetupAssumption DEF Record, ExtensionInv, SetupInv, TypeOK, Time
    <3>3. HasSetup
      BY <3>1, <3>2 DEF HasSetup, HasExpired
    <3> QED
      BY <2>2, <3>1, <3>3
  <2>3. CASE redeem.pc = "store" /\ redeem'.previous = redeem.previous
    <3>1. ~StoreRecord
      BY <2>1, <2>3 DEF StoreRecord, NoRedeem, ExtensionInv, ExtensionTypeOK
    <3>2. stored' = stored
      BY <3>1, StoredSteps
    <3> QED
      BY <1>1, <2>3, <3>2 DEF HoldInv
  <2> QED
    BY <2>1, <2>2, <2>3
<1>5. ASSUME NEW r \in Request, fetch'[r].pc # "idle"
      PROVE  fetch'[r].record \in Record
  <2>1. /\ fetch \in [Request -> [pc : {"idle", "sent", "served", "rejected", "expire", "clear",
                                         "end"},
                                   record : Record \cup {None}]]
        /\ fetch[r].pc # "idle" => fetch[r].record \in Record
    BY <1>1 DEF HoldInv, ExtensionInv, ExtensionTypeOK
  <2>2. ASSUME NEW q \in Request, CallBackend(q) \/ FindExpired(q) \/ StartEnd(q)
        PROVE  fetch'[r].record \in Record
    <3>1. stored \in Record
      BY <1>1, <2>2 DEF CallBackend, FindExpired, StartEnd, HasSetup, HasExpired
    <3> QED
      BY <1>5, <2>1, <2>2, <3>1 DEF CallBackend, FindExpired, StartEnd
  <2>3. ASSUME NEW q \in Request, fetch[q].pc # "idle", NEW pc, Step(q, pc)
        PROVE  fetch'[r].record \in Record
    <3>1. CASE q = r
      BY <2>1, <2>3, <3>1 DEF Step
    <3>2. CASE q # r
      BY <1>5, <2>1, <2>3, <3>2 DEF Step
    <3> QED
      BY <3>1, <3>2
  <2>4. ASSUME NEW q \in Request, Return(q)
        PROVE  fetch'[r].record \in Record
    BY <1>5, <2>1, <2>4 DEF Return, NoCall
  <2>5. CASE UNCHANGED fetch
    BY <1>5, <2>1, <2>5
  <2>6. ASSUME NEW q \in Request, CheckRejected(q)
        PROVE  fetch'[r].record \in Record
    BY <2>3, <2>4, <2>6 DEF CheckRejected
  <2>7. ASSUME NEW q \in Request, CallAuthenticated(q) \/ CallRefused(q) \/ SubmitRefused(q)
        PROVE  fetch'[r].record \in Record
    BY <2>3, <2>7 DEF CallAuthenticated, CallRefused, SubmitRefused
  <2>8. ASSUME NEW q \in Request, ClearRecord(q) \/ FinishEnd(q) \/ GiveUpCall(q) \/ RequestDone(q)
        PROVE  fetch'[r].record \in Record
    BY <2>4, <2>5, <2>8 DEF ClearRecord, FinishEnd, GiveUpCall, RequestDone
  <2>9. ASSUME NEW q \in Request, NEW d \in Draft, SubmitDraft(q, d)
        PROVE  fetch'[r].record \in Record
    BY <2>4, <2>9 DEF SubmitDraft
  <2> QED
    BY <2>2, <2>5, <2>6, <2>7, <2>8, <2>9
       DEF ExtensionNext, extensionVars, localVars, onlyFetch, Elsewhere, StartRedeem,
           ServeRedeem, ServeLate, GiveUpRedeem, RedeemRejected, RedeemAccepted, ReadPrevious,
           StoreRecord, EndPrevious, ServeEnding, ServeEnd
<1> QED
  BY <1>2, <1>3, <1>4, <1>5 DEF HoldInv

\* An answer is taken for the code it was asked for, and what is stored is that answer.
LEMMA AnswerSteps ==
  ASSUME ExtensionInv, [ExtensionNext]_extensionVars
  PROVE  AnswerIsOwn'
<1>1. /\ AnswerIsOwn /\ HoldInv /\ stored \in Record \cup {None}
      /\ \A s \in Session : session[s].token # None => session'[s].token = session[s].token
      /\ None \notin Token
  BY SetupPart, SetupAssumption DEF ExtensionInv, ExtensionTypeOK
<1>2. ASSUME redeem'.pc \in {"accepted", "replace", "store"}
      PROVE  /\ redeem'.answer = redeem'.code
             /\ session'[redeem'.answer].token = redeem'.token
  <2>1. \/ RedeemServed
        \/ RedeemGoesOn /\ redeem.pc \in {"accepted", "replace", "store"}
    <3>1. RedeemServed \/ RedeemGoesOn
      BY <1>2, RedeemSteps DEF RedeemOver, RedeemStarted
    <3> QED
      BY <1>2, <3>1 DEF RedeemGoesOn, ReadPrevious
  <2>2. CASE RedeemServed
    BY <2>2 DEF RedeemServed
  <2>3. CASE RedeemGoesOn /\ redeem.pc \in {"accepted", "replace", "store"}
    BY <1>1, <2>3 DEF RedeemGoesOn, AnswerIsOwn, HoldInv
  <2> QED
    BY <2>1, <2>2, <2>3
<1>3. ASSUME stored' # None
      PROVE  session'[stored'.session].token = stored'.token
  <2>1. CASE stored' = stored
    BY <1>1, <1>3, <2>1 DEF AnswerIsOwn, Record
  <2>2. CASE StoreRecord
    <3>1. /\ stored'.session = redeem.answer /\ stored'.token = redeem.token
          /\ redeem.pc = "store"
      BY <2>2 DEF StoreRecord, NewRecord
    <3> QED
      BY <1>1, <3>1 DEF AnswerIsOwn, HoldInv
  <2> QED
    BY <1>3, <2>1, <2>2, StoredSteps
<1> QED
  BY <1>2, <1>3 DEF AnswerIsOwn

LEMMA TypeSteps ==
  ASSUME ExtensionInv, [ExtensionNext]_extensionVars
  PROVE  ExtensionTypeOK'
<1> DEFINE Redemption ==
           [pc : {"idle", "waiting", "accepted", "rejected", "replace", "store", "endPrevious"},
               code : Session \cup {None}, token : Token \cup {None},
               answer : Session \cup {None}, expiresAt : 0..(MaxTime + SessionLife),
               previous : Record \cup {None}]
           Call == [pc : {"idle", "sent", "served", "rejected", "expire", "clear", "end"},
                    record : Record \cup {None}]
<1>1. /\ stored \in Record \cup {None} /\ activation \in Activation \cup {None}
      /\ redeem \in Redemption /\ late \subseteq Activation /\ fetch \in [Request -> Call]
      /\ ends \subseteq Token /\ HoldInv /\ AnswerIsOwn
  BY DEF ExtensionInv, ExtensionTypeOK
<1>2. TypeOK' /\ session' \in [Session -> SessionRow]
  BY SetupPart DEF SetupInv, TypeOK
<1>3. NoRedeem \in Redemption /\ NoCall \in Call
  BY SetupAssumption DEF NoRedeem, NoCall
<1>4. redeem.pc # "idle" => redeem.code \in Session /\ redeem.token \in Token
  BY <1>1 DEF HoldInv
<1>5. stored' \in Record \cup {None}
  <2>1. CASE StoreRecord
    <3>1. redeem.answer \in Session /\ redeem.token \in Token
      BY <1>1, <1>4, <2>1 DEF StoreRecord, AnswerIsOwn
    <3> QED
      BY <1>1, <2>1, <3>1 DEF StoreRecord, NewRecord, Record
  <2> QED
    BY <1>1, <2>1, StoredSteps
<1>6. activation' \in Activation \cup {None}
  <2>1. ASSUME NEW s \in Session, NEW t \in Token, StartRedeem(s, t)
        PROVE  activation' \in Activation
    BY <2>1 DEF StartRedeem, Activation
  <2>2. CASE RedeemRejected \/ RedeemAccepted
    BY <2>2 DEF RedeemRejected, RedeemAccepted
  <2>3. CASE UNCHANGED activation
    BY <1>1, <2>3
  <2> QED
    BY <2>1, <2>2, <2>3
       DEF ExtensionNext, extensionVars, localVars, onlyFetch, Elsewhere, ServeRedeem, ServeLate,
           GiveUpRedeem, ReadPrevious, StoreRecord, EndPrevious, CallBackend, FindExpired,
           CallAuthenticated, CallRefused, SubmitRefused, RequestDone, CheckRejected,
           ClearRecord, StartEnd, FinishEnd, ServeEnding, GiveUpCall, SubmitDraft, ServeEnd
<1>7. redeem' \in Redemption
  <2>1. ASSUME NEW s \in Session, NEW t \in Token, StartRedeem(s, t)
        PROVE  redeem' \in Redemption
    BY <1>3, <2>1 DEF StartRedeem
  <2>2. CASE ServeRedeem
    <3>1. redeem.code \in Session
      BY <1>4, <2>2 DEF ServeRedeem
    <3>2. session'[redeem.code].expiresAt \in 0..(MaxTime + SessionLife)
      BY <1>2, <3>1 DEF SessionRow
    <3> QED
      BY <1>1, <2>2, <3>1, <3>2 DEF ServeRedeem
  <2>3. CASE RedeemAccepted \/ StoreRecord
    BY <1>1, <1>3, <2>3 DEF RedeemAccepted, StoreRecord
  <2>4. CASE ReadPrevious
    <3>1. (IF HasSetup THEN stored ELSE None) \in Record \cup {None}
      BY <1>1
    <3> QED
      BY <1>1, <2>4, <3>1 DEF ReadPrevious
  <2>5. CASE GiveUpRedeem \/ RedeemRejected \/ EndPrevious
    BY <1>3, <2>5 DEF GiveUpRedeem, RedeemRejected, EndPrevious
  <2>6. CASE UNCHANGED redeem
    BY <1>1, <2>6
  <2> QED
    BY <2>1, <2>2, <2>3, <2>4, <2>5, <2>6
       DEF ExtensionNext, extensionVars, localVars, onlyFetch, Elsewhere, ServeLate, CallBackend,
           FindExpired, CallAuthenticated, CallRefused, SubmitRefused, RequestDone,
           CheckRejected, ClearRecord, StartEnd, FinishEnd, ServeEnding, GiveUpCall,
           SubmitDraft, ServeEnd
<1>8. late' \subseteq Activation
  <2>1. CASE GiveUpRedeem
    <3>1. [code |-> redeem.code, token |-> redeem.token] \in Activation
      BY <1>4, <2>1 DEF GiveUpRedeem, Activation
    <3> QED
      BY <1>1, <2>1, <3>1 DEF GiveUpRedeem
  <2>2. CASE late' \subseteq late
    BY <1>1, <2>2
  <2> QED
    BY <2>1, <2>2
       DEF ExtensionNext, extensionVars, localVars, onlyFetch, Elsewhere, StartRedeem,
           ServeRedeem, ServeLate, RedeemRejected, RedeemAccepted, ReadPrevious, StoreRecord,
           EndPrevious, CallBackend, FindExpired, CallAuthenticated, CallRefused,
           SubmitRefused, RequestDone, CheckRejected, ClearRecord, StartEnd, FinishEnd,
           ServeEnding, GiveUpCall, SubmitDraft, ServeEnd
<1>9. fetch' \in [Request -> Call]
  <2>1. ASSUME NEW q \in Request, Return(q)
        PROVE  fetch' \in [Request -> Call]
    BY <1>1, <1>3, <2>1 DEF Return
  <2>2. ASSUME NEW q \in Request, NEW pc \in {"served", "rejected", "expire", "clear"},
               Step(q, pc)
        PROVE  fetch' \in [Request -> Call]
    BY <1>1, <2>2 DEF Step
  <2>3. ASSUME NEW q \in Request, CallBackend(q) \/ FindExpired(q) \/ StartEnd(q)
        PROVE  fetch' \in [Request -> Call]
    BY <1>1, <2>3 DEF CallBackend, FindExpired, StartEnd
  <2>4. CASE UNCHANGED fetch
    BY <1>1, <2>4
  <2>5. ASSUME NEW q \in Request, CallAuthenticated(q) \/ CallRefused(q) \/ SubmitRefused(q)
        PROVE  fetch' \in [Request -> Call]
    BY <2>2, <2>5 DEF CallAuthenticated, CallRefused, SubmitRefused
  <2>6. ASSUME NEW q \in Request, CheckRejected(q)
        PROVE  fetch' \in [Request -> Call]
    BY <2>1, <2>2, <2>6 DEF CheckRejected
  <2>7. ASSUME NEW q \in Request, ClearRecord(q) \/ FinishEnd(q) \/ GiveUpCall(q) \/ RequestDone(q)
        PROVE  fetch' \in [Request -> Call]
    BY <2>1, <2>4, <2>7 DEF ClearRecord, FinishEnd, GiveUpCall, RequestDone
  <2>8. ASSUME NEW q \in Request, NEW d \in Draft, SubmitDraft(q, d)
        PROVE  fetch' \in [Request -> Call]
    BY <2>1, <2>8 DEF SubmitDraft
  <2> QED
    BY <2>3, <2>4, <2>5, <2>6, <2>7, <2>8
       DEF ExtensionNext, extensionVars, localVars, onlyFetch, Elsewhere, StartRedeem,
           ServeRedeem, ServeLate, GiveUpRedeem, RedeemRejected, RedeemAccepted, ReadPrevious,
           StoreRecord, EndPrevious, ServeEnding, ServeEnd
<1>10. ends' \subseteq Token
  <2>1. CASE EndPrevious
    <3>1. redeem.previous.token \in Token
      BY <1>1, <2>1 DEF EndPrevious, HoldInv, Record
    <3> QED
      BY <1>1, <2>1, <3>1 DEF EndPrevious
  <2>2. ASSUME NEW r \in Request, FinishEnd(r)
        PROVE  ends' \subseteq Token
    <3>1. fetch[r].record.token \in Token
      BY <1>1, <2>2 DEF FinishEnd, HoldInv, Record
    <3> QED
      BY <1>1, <2>2, <3>1 DEF FinishEnd
  <2>3. CASE ends' \subseteq ends
    BY <1>1, <2>3
  <2> QED
    BY <2>1, <2>2, <2>3
       DEF ExtensionNext, extensionVars, localVars, onlyFetch, Elsewhere, StartRedeem,
           ServeRedeem, ServeLate, GiveUpRedeem, RedeemRejected, RedeemAccepted, ReadPrevious,
           StoreRecord, CallBackend, FindExpired, CallAuthenticated, CallRefused,
           SubmitRefused, RequestDone, CheckRejected, ClearRecord, StartEnd, ServeEnding,
           GiveUpCall, SubmitDraft, ServeEnd
<1> QED
  BY <1>2, <1>5, <1>6, <1>7, <1>8, <1>9, <1>10 DEF ExtensionTypeOK

-----------------------------------------------------------------------------
(* The theorems *)

LEMMA ExtensionInitial == ExtensionInit => ExtensionInv
<1> SUFFICES ASSUME ExtensionInit
             PROVE  ExtensionInv
  OBVIOUS
<1>1. Init => SetupInv
  BY SetupInitial
<1>2. ExtensionTypeOK
  <2>1. NoRedeem \in [pc : {"idle", "waiting", "accepted", "rejected", "replace", "store",
                            "endPrevious"},
                      code : Session \cup {None}, token : Token \cup {None},
                      answer : Session \cup {None}, expiresAt : 0..(MaxTime + SessionLife),
                      previous : Record \cup {None}]
    BY SetupAssumption DEF NoRedeem
  <2> QED
    BY <1>1, <2>1 DEF ExtensionInit, ExtensionTypeOK, NoCall, SetupInv
<1>3. HoldInv /\ AnswerIsOwn
  BY DEF ExtensionInit, HoldInv, AnswerIsOwn, NoRedeem, NoCall
<1>4. Attempts = {}
  BY DEF ExtensionInit, Attempts, NoRedeem
<1> QED
  BY <1>1, <1>2, <1>3, <1>4 DEF ExtensionInit, ExtensionInv, AttemptsInv

LEMMA ExtensionInvariant == ExtensionSpec => []ExtensionInv
<1>1. ExtensionInv /\ [ExtensionNext]_extensionVars => ExtensionInv'
  BY SetupPart, TypeSteps, HoldSteps, AttemptsSteps, AnswerSteps DEF ExtensionInv
<1> QED
  BY <1>1, ExtensionInitial, PTL DEF ExtensionSpec

\* The extension implements the backend's protocol: whatever it sends, loses or repeats,
\* the tables only take the steps of StoreSetup, so every theorem about them holds here.
THEOREM ImplementsSetup == ExtensionSpec => Spec
<1>1. ExtensionInit => Init
  BY DEF ExtensionInit
<1>2. ExtensionInv /\ [ExtensionNext]_extensionVars => [Next]_setupVars
  BY BackendSteps
<1> QED
  BY <1>1, <1>2, ExtensionInvariant, PTL DEF ExtensionSpec, Spec

\* What the extension stores, sends and waits for keeps its type.
THEOREM ExtensionTypeCorrect == ExtensionSpec => []ExtensionTypeOK
BY ExtensionInvariant, PTL DEF ExtensionInv

\* However late earlier attempts arrive, the install never holds another code's session.
THEOREM AnswersAreOwn == ExtensionSpec => []AnswerIsOwn
BY ExtensionInvariant, PTL DEF ExtensionInv

\* Whatever attempts were lost, the pending secret is bound to no other code's session.
THEOREM SecretsStayGood == ExtensionSpec => []SecretStaysGood
<1>1. ExtensionInv => SecretStaysGood
  BY DEF ExtensionInv, AttemptsInv, Attempts, SecretStaysGood
<1> QED
  BY <1>1, ExtensionInvariant, PTL

\* A stored session that is replaced is on its way to being ended on the backend.
THEOREM ReplacedGetsEnded == ExtensionSpec => ReplacedIsEnded
<1>1. ExtensionInv /\ [ExtensionNext]_extensionVars =>
        [stored # None /\ stored' # None /\ stored'.session # stored.session =>
           redeem'.pc = "endPrevious" /\ redeem'.previous = stored]_extensionVars
  <2> SUFFICES ASSUME ExtensionInv, [ExtensionNext]_extensionVars, stored # None, stored' # None,
                      stored'.session # stored.session
               PROVE  redeem'.pc = "endPrevious" /\ redeem'.previous = stored
    OBVIOUS
  <2>1. StoreRecord
    BY StoredSteps
  <2>2. redeem.previous = stored /\ stored'.session = redeem.answer
    BY <2>1 DEF StoreRecord, NewRecord, ExtensionInv, HoldInv
  <2>3. redeem' = [redeem EXCEPT !.pc = "endPrevious"]
    BY <2>1, <2>2 DEF StoreRecord
  <2> QED
    BY <2>2, <2>3 DEF ExtensionInv, ExtensionTypeOK
<1> QED
  BY <1>1, ExtensionInvariant, PTL DEF ExtensionSpec, ReplacedIsEnded
=============================================================================
