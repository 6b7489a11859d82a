----------------------------- MODULE StoreSetup -----------------------------
(***************************************************************************)
(* The backend of store setup (StoreSetupService): an admin issues a       *)
(* one-time code for a store, one extension install redeems it for a       *)
(* session token, submits draft recipes under it, and the admin reviews a  *)
(* draft on the dashboard and saves it as the store's live recipe.         *)
(*                                                                         *)
(* Requests interleave at every await: the session guard reads the row     *)
(* before the handler writes it, and apply reads, validates and then       *)
(* writes.  A code is identified with the session it was issued for (its   *)
(* hash is unique); whoever knows a code may try it with any token.        *)
(***************************************************************************)
EXTENDS Integers, FiniteSets

CONSTANTS
  Merchant,     \* stores
  Admin,        \* dashboard administrators
  Session,      \* setup sessions, and the codes issued for them
  Token,        \* secrets extension installs may generate
  Draft,        \* recipes an extension may submit
  Request,      \* requests being served
  None,         \* SQL NULL
  CodeLife,     \* STORE_SETUP_CODE_TTL_MS
  SessionLife,  \* STORE_SETUP_SESSION_TTL_MS
  MaxTime       \* bound of the clock

ASSUME SetupAssumption ==
  /\ None \notin Merchant \cup Admin \cup Session \cup Token \cup Draft \cup Nat
  /\ CodeLife \in Nat \ {0}
  /\ SessionLife \in Nat \ {0}
  /\ MaxTime \in Nat

VARIABLES
  now,      \* the clock; a step of it separates one extension's requests
  session,  \* StoreSetupSession rows
  recipe,   \* Merchant.checkoutRecipe, where it is a setup draft
  active,   \* User rows of the admins: still an administrator and not disabled
  request   \* what each request being served has read

setupVars == <<now, session, recipe, active, request>>

-----------------------------------------------------------------------------

Time == 0..MaxTime
Live == {"PENDING", "CONNECTED", "SUBMITTED"}
Redeemed == {"CONNECTED", "SUBMITTED"}
Ended == {"APPLIED", "CANCELLED"}

SessionRow == [status : {"absent"} \cup Live \cup Ended,
               merchant : Merchant \cup {None}, createdBy : Admin \cup {None},
               codeExpiresAt : 0..(MaxTime + CodeLife),
               token : Token \cup {None}, expiresAt : 0..(MaxTime + SessionLife),
               draft : Draft \cup {None}, submittedAt : Time \cup {None}]
RequestRow == [pc : {"idle", "reviewed", "loaded", "authenticated"},
               session : Session \cup {None}, token : Token \cup {None},
               reviewed : Draft \cup {None}, submittedAt : Time \cup {None},
               loaded : Draft \cup {None}]

NoSession == [status |-> "absent", merchant |-> None, createdBy |-> None,
              codeExpiresAt |-> 0, token |-> None, expiresAt |-> 0,
              draft |-> None, submittedAt |-> None]
Idle == [pc |-> "idle", session |-> None, token |-> None, reviewed |-> None,
         submittedAt |-> None, loaded |-> None]

TypeOK ==
  /\ now \in Time
  /\ session \in [Session -> SessionRow]
  /\ recipe \in [Merchant -> Draft \cup {None}]
  /\ active \in [Admin -> BOOLEAN]
  /\ request \in [Request -> RequestRow]

Init ==
  /\ now = 0
  /\ session = [s \in Session |-> NoSession]
  /\ recipe = [m \in Merchant |-> None]
  /\ active = [a \in Admin |-> TRUE]
  /\ request = [r \in Request |-> Idle]

-----------------------------------------------------------------------------
(* Conditions *)

IssuedByActiveAdmin(s) == session[s].createdBy # None /\ active[session[s].createdBy]
IsExtensionActive(s) == session[s].status \in Redeemed /\ session[s].expiresAt > now

Closed(s) == [session[s] EXCEPT !.status = "CANCELLED"]
\* Seeded fault of Cancelled: connected extensions are not cancelled.
Cancelled_CodesOnly(S) ==
  [s \in Session |-> IF s \in S /\ session[s].status = "PENDING" THEN Closed(s)
                     ELSE session[s]]
Cancelled(S) ==
  [s \in Session |-> IF s \in S /\ session[s].status \in Live THEN Closed(s)
                     ELSE session[s]]
SessionsOf(m) == {s \in Session : session[s].merchant = m}

-----------------------------------------------------------------------------
(* Dashboard *)

\* issueCode: one transaction cancels whatever is live for the store and creates the
\* session of the new code.
IssueCode(a, m, s) ==
  /\ active[a]
  /\ session[s].status = "absent"
  /\ session' = [Cancelled(SessionsOf(m)) EXCEPT
                   ![s] = [NoSession EXCEPT !.status = "PENDING", !.merchant = m,
                             !.createdBy = a, !.codeExpiresAt = now + CodeLife]]
  /\ UNCHANGED <<now, recipe, active, request>>

\* cancel: refused once applied, without effect once cancelled.
CancelSession(s) ==
  /\ session[s].status \in Live
  /\ session' = Cancelled({s})
  /\ UNCHANGED <<now, recipe, active, request>>

\* getCurrent: the dashboard shows the submitted draft, which the admin then reviews.
ReviewDraft(r, s) ==
  /\ request[r].pc = "idle"
  /\ session[s].status = "SUBMITTED"
  /\ request' = [request EXCEPT ![r] = [Idle EXCEPT
                   !.pc = "reviewed", !.session = s, !.reviewed = session[s].draft,
                   !.submittedAt = session[s].submittedAt]]
  /\ UNCHANGED <<now, session, recipe, active>>

\* Seeded fault of LoadReviewed: the draft is not compared with the reviewed one.
LoadReviewed_Unchecked(r) ==
  LET s == request[r].session IN
  /\ request[r].pc = "reviewed"
  /\ session[s].status = "SUBMITTED"
  /\ request' = [request EXCEPT ![r].pc = "loaded", ![r].loaded = session[s].draft,
                                ![r].submittedAt = session[s].submittedAt]
  /\ UNCHANGED <<now, session, recipe, active>>

\* apply up to its transaction: the row is read, must still be the one reviewed, and
\* its draft is validated.
LoadReviewed(r) ==
  LET s == request[r].session IN
  /\ request[r].pc = "reviewed"
  /\ session[s].status = "SUBMITTED"
  /\ session[s].submittedAt = request[r].submittedAt
  /\ request' = [request EXCEPT ![r].pc = "loaded", ![r].loaded = session[s].draft]
  /\ UNCHANGED <<now, session, recipe, active>>

\* Seeded fault of ApplyDraft: the claim is not pinned to the submission that was read.
ApplyDraft_Unpinned(r) ==
  LET s == request[r].session IN
  /\ request[r].pc = "loaded"
  /\ session[s].status = "SUBMITTED"
  /\ session' = [session EXCEPT ![s].status = "APPLIED"]
  /\ recipe' = [recipe EXCEPT ![session[s].merchant] = request[r].loaded]
  /\ request' = [request EXCEPT ![r] = Idle]
  /\ UNCHANGED <<now, active>>

\* apply's transaction: the claim on the session and the write of the live recipe.
ApplyDraft(r) ==
  LET s == request[r].session IN
  /\ request[r].pc = "loaded"
  /\ session[s].status = "SUBMITTED"
  /\ session[s].submittedAt = request[r].submittedAt
  /\ session' = [session EXCEPT ![s].status = "APPLIED"]
  /\ recipe' = [recipe EXCEPT ![session[s].merchant] = request[r].loaded]
  /\ request' = [request EXCEPT ![r] = Idle]
  /\ UNCHANGED <<now, active>>

\* MerchantsService.update: an admin writes a recipe by hand, or clears it.
EditRecipe(m) ==
  /\ recipe' = [recipe EXCEPT ![m] = None]
  /\ UNCHANGED <<now, session, active, request>>

\* updateAdmin disables or re-enables an administrator.
SetAdminActive(a, enabled) ==
  /\ active[a] # enabled
  /\ active' = [active EXCEPT ![a] = enabled]
  /\ UNCHANGED <<now, session, recipe, request>>

\* removeAdmin: sessions the admin issued lose their issuer (ON DELETE SET NULL).
RemoveAdmin(a) ==
  /\ active' = [active EXCEPT ![a] = FALSE]
  /\ session' = [s \in Session |-> IF session[s].createdBy = a
                                   THEN [session[s] EXCEPT !.createdBy = None]
                                   ELSE session[s]]
  /\ UNCHANGED <<now, recipe, request>>

-----------------------------------------------------------------------------
(* Extension routes *)

\* A redemption repeated by the install that made it: the answer is the same.
RedeemedBy(s, t) == session[s].token = t /\ IsExtensionActive(s) /\ IssuedByActiveAdmin(s)

\* Seeded fault of Redeemable: a code stays good until it expires.
Redeemable_UntilExpiry(s, t) ==
  /\ IssuedByActiveAdmin(s)
  /\ session[s].status \in Live
  /\ session[s].codeExpiresAt > now
  /\ \A u \in Session : session[u].token # t

Redeemable(s, t) ==
  /\ IssuedByActiveAdmin(s)
  /\ session[s].status = "PENDING"
  /\ session[s].codeExpiresAt > now
  /\ \A u \in Session : session[u].token # t

\* redeem's transaction, first use of the code.
Redeem(s, t) ==
  /\ Redeemable(s, t)
  /\ session' = [session EXCEPT ![s].status = "CONNECTED", ![s].token = t,
                                ![s].expiresAt = now + SessionLife]
  /\ UNCHANGED <<now, recipe, active, request>>

Authenticates(s, t) == session[s].token = t /\ IsExtensionActive(s) /\ IssuedByActiveAdmin(s)

\* SetupSessionGuard, run before each session route (the lastSeenAt it may refresh is
\* only displayed).
Authenticate(r, t) ==
  /\ request[r].pc = "idle"
  /\ \E s \in Session :
       /\ Authenticates(s, t)
       /\ request' = [request EXCEPT ![r] = [Idle EXCEPT
                        !.pc = "authenticated", !.session = s, !.token = t]]
  /\ UNCHANGED <<now, session, recipe, active>>

\* Seeded fault of SubmitRecipe: the write trusts what the guard read.
SubmitRecipe_Trusting(r, d) ==
  LET s == request[r].session IN
  /\ request[r].pc = "authenticated"
  /\ session[s].token = request[r].token
  /\ session[s].submittedAt # now
  /\ session' = [session EXCEPT ![s].status = "SUBMITTED", ![s].draft = d,
                                ![s].submittedAt = now]
  /\ request' = [request EXCEPT ![r] = Idle]
  /\ UNCHANGED <<now, recipe, active>>

\* submitRecipe's conditional update.  Two submissions of one session are not stamped
\* alike: the extension waits for an answer before it submits again.
SubmitRecipe(r, d) ==
  LET s == request[r].session IN
  /\ request[r].pc = "authenticated"
  /\ session[s].token = request[r].token
  /\ IsExtensionActive(s)
  /\ session[s].submittedAt # now
  /\ session' = [session EXCEPT ![s].status = "SUBMITTED", ![s].draft = d,
                                ![s].submittedAt = now]
  /\ request' = [request EXCEPT ![r] = Idle]
  /\ UNCHANGED <<now, recipe, active>>

\* endSession: without a draft the session is cancelled, with one it only expires.
EndSession(r) ==
  LET s == request[r].session IN
  /\ request[r].pc = "authenticated"
  /\ session[s].token = request[r].token
  /\ \/ /\ session[s].status = "CONNECTED"
        /\ session' = [session EXCEPT ![s].status = "CANCELLED", ![s].expiresAt = now]
     \/ /\ session[s].status = "SUBMITTED"
        /\ session[s].expiresAt > now
        /\ session' = [session EXCEPT ![s].expiresAt = now]
  /\ request' = [request EXCEPT ![r] = Idle]
  /\ UNCHANGED <<now, recipe, active>>

\* A request ends without a write: refused, invalid, abandoned, or a crash.
EndRequest(r) ==
  /\ request[r].pc # "idle"
  /\ request' = [request EXCEPT ![r] = Idle]
  /\ UNCHANGED <<now, session, recipe, active>>

Tick ==
  /\ now < MaxTime
  /\ now' = now + 1
  /\ UNCHANGED <<session, recipe, active, request>>

-----------------------------------------------------------------------------

Dashboard ==
  \/ \E a \in Admin, m \in Merchant, s \in Session : IssueCode(a, m, s)
  \/ \E s \in Session : CancelSession(s)
  \/ \E r \in Request, s \in Session : ReviewDraft(r, s)
  \/ \E r \in Request : LoadReviewed(r) \/ ApplyDraft(r)
  \/ \E m \in Merchant : EditRecipe(m)
  \/ \E a \in Admin, enabled \in BOOLEAN : SetAdminActive(a, enabled)
  \/ \E a \in Admin : RemoveAdmin(a)

Next ==
  \/ Dashboard
  \/ \E s \in Session, t \in Token : Redeem(s, t)
  \/ \E r \in Request, t \in Token : Authenticate(r, t)
  \/ \E r \in Request, d \in Draft : SubmitRecipe(r, d)
  \/ \E r \in Request : EndSession(r) \/ EndRequest(r)
  \/ Tick

Spec == Init /\ [][Next]_setupVars

-----------------------------------------------------------------------------
(* Properties *)

\* "There is only ever one code or connected extension per store", however codes are
\* issued, redeemed, used and cancelled at the same time.
OneLivePerStore ==
  \A s1, s2 \in Session :
    /\ session[s1].status \in Live /\ session[s2].status \in Live
    /\ session[s1].merchant = session[s2].merchant
    => s1 = s2

\* What is live in a store is the final draft of a session that was saved to that
\* store: a resubmission racing the save cannot make the two disagree.
LiveRecipeWasSaved ==
  \A m \in Merchant : recipe[m] # None =>
    \E s \in SessionsOf(m) : session[s].status = "APPLIED" /\ session[s].draft = recipe[m]

\* A draft only goes live when an admin has reviewed that draft.
SavedWasReviewed ==
  [][\A m \in Merchant : recipe'[m] \notin {recipe[m], None} =>
       \E r \in Request : request[r].pc = "loaded" /\ request[r].reviewed = recipe'[m]]_setupVars

\* An ended session is over: no request that was on its way reopens it, changes its
\* draft or lets its token do anything.
EndedIsFinal ==
  [][\A s \in Session : session[s].status \in Ended =>
       /\ session'[s].status = session[s].status
       /\ session'[s].draft = session[s].draft]_setupVars

\* A code works for one install: the token bound first stays, no token opens two
\* sessions, and a session never moves to another store.
OneInstallPerCode ==
  [][\A s \in Session : session[s].token # None =>
       /\ session'[s].token = session[s].token
       /\ session'[s].merchant = session[s].merchant
       /\ \A u \in Session \ {s} : session'[u].token # session[s].token]_setupVars
=============================================================================
