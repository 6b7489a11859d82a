------------------------- MODULE StoreSetupExtension -------------------------
(***************************************************************************)
(* One extension install talking to the store-setup backend                *)
(* (apps/extension/src/lib/store-setup.ts).  What survives the worker is   *)
(* in chrome.storage.local: the stored session and the activation, the     *)
(* secret of a redemption not answered yet.  Requests and answers may be   *)
(* lost, or arrive after their caller gave up (a 15s timeout, or the end   *)
(* of the service worker), and every await lets other calls in.            *)
(*                                                                         *)
(* Redemptions of one worker run one after another: `redeeming` shares a   *)
(* call for the same code and queues one for another code.                 *)
(***************************************************************************)
EXTENDS StoreSetup

CONSTANT OtherToken  \* the secrets of other installs

ASSUME OtherTokenAssumption == OtherToken \subseteq Token

VARIABLES
  stored,      \* storage.local.storeSetupSession
  activation,  \* storage.local.storeSetupActivation
  redeem,      \* the redemption running
  late,        \* redemptions on their way whose caller gave up
  fetch,       \* the /store-setup/session calls running, by request
  ends         \* secrets of the /session/end requests on their way

localVars == <<stored, activation, redeem, late, fetch, ends>>
extensionVars == <<setupVars, localVars>>

-----------------------------------------------------------------------------

Record == [session : Session, token : Token, expiresAt : 0..(MaxTime + SessionLife)]
Activation == [code : Session, token : Token]

NoRedeem == [pc |-> "idle", code |-> None, token |-> None, answer |-> None,
             expiresAt |-> 0, previous |-> None]
NoCall == [pc |-> "idle", record |-> None]

ExtensionTypeOK ==
  /\ TypeOK
  /\ stored \in Record \cup {None}
  /\ activation \in Activation \cup {None}
  /\ redeem \in [pc : {"idle", "waiting", "accepted", "rejected", "replace", "store",
                       "endPrevious"},
                 code : Session \cup {None}, token : Token \cup {None},
                 answer : Session \cup {None}, expiresAt : 0..(MaxTime + SessionLife),
                 previous : Record \cup {None}]
  /\ late \subseteq Activation
  /\ fetch \in [Request -> [pc : {"idle", "sent", "served", "rejected", "expire", "clear",
                                  "end"},
                            record : Record \cup {None}]]
  /\ ends \subseteq Token

ExtensionInit ==
  /\ Init
  /\ stored = None
  /\ activation = None
  /\ redeem = NoRedeem
  /\ late = {}
  /\ fetch = [r \in Request |-> NoCall]
  /\ ends = {}

\* getStoreSetup returns a record only while it lasts ...
HasSetup == stored # None /\ stored.expiresAt > now
\* ... and removes one that has run out, in a storage call of its own.
HasExpired == stored # None /\ stored.expiresAt <= now

-----------------------------------------------------------------------------
(* Redeeming a code *)

Unused(t) ==
  /\ t \notin OtherToken
  /\ \A s \in Session : session[s].token # t
  /\ \A a \in late : a.token # t
  /\ activation # None => activation.token # t
  /\ stored # None => stored.token # t

\* Seeded fault of SecretFor: the pending secret is kept for another code.
SecretFor_AnyCode(s, t) ==
  IF activation # None THEN t = activation.token ELSE Unused(t)

\* A new code gets a new secret, a repeated one the secret it was sent with.
SecretFor(s, t) ==
  IF activation # None /\ activation.code = s THEN t = activation.token ELSE Unused(t)

\* redeem up to its fetch: the activation is saved and the request sent.
StartRedeem(s, t) ==
  /\ redeem.pc = "idle"
  /\ session[s].status # "absent"
  /\ SecretFor(s, t)
  /\ activation' = [code |-> s, token |-> t]
  /\ redeem' = [NoRedeem EXCEPT !.pc = "waiting", !.code = s, !.token = t]
  /\ UNCHANGED <<setupVars, stored, late, fetch, ends>>

\* The route's effect on the row: the first use binds the secret, a repetition and a
\* refusal change nothing.
Served(s, t) == Redeem(s, t) \/ (~Redeemable(s, t) /\ UNCHANGED setupVars)

\* The backend serves the redemption the install is waiting for.
ServeRedeem ==
  LET s == redeem.code
      t == redeem.token
  IN
  /\ redeem.pc = "waiting"
  /\ Served(s, t)
  /\ redeem' = IF Redeemable(s, t) \/ RedeemedBy(s, t)
               THEN [redeem EXCEPT !.pc = "accepted", !.answer = s,
                                   !.expiresAt = session'[s].expiresAt]
               ELSE [redeem EXCEPT !.pc = "rejected"]
  /\ UNCHANGED <<stored, activation, late, fetch, ends>>

\* Seeded fault of ServeLate: the call now waiting takes the answer, whatever its code.
ServeLate_Answers(a) ==
  /\ a \in late
  /\ Served(a.code, a.token)
  /\ late' = late \ {a}
  /\ redeem' = IF redeem.pc = "waiting"
               THEN [redeem EXCEPT !.pc = "accepted", !.answer = a.code,
                                   !.expiresAt = session'[a.code].expiresAt]
               ELSE redeem
  /\ UNCHANGED <<stored, activation, fetch, ends>>

\* It serves one nobody waits for any more.
ServeLate(a) ==
  /\ a \in late
  /\ Served(a.code, a.token)
  /\ late' = late \ {a}
  /\ UNCHANGED <<stored, activation, redeem, fetch, ends>>

\* The answer does not come (timeout, lost response, 429, 5xx), or the worker ends.
GiveUpRedeem ==
  /\ redeem.pc # "idle"
  /\ redeem' = NoRedeem
  /\ late' = IF redeem.pc = "waiting"
             THEN late \cup {[code |-> redeem.code, token |-> redeem.token]} ELSE late
  /\ UNCHANGED <<setupVars, stored, activation, fetch, ends>>

\* A definite rejection: this secret will not be sent again.
RedeemRejected ==
  /\ redeem.pc = "rejected"
  /\ activation' = None
  /\ redeem' = NoRedeem
  /\ UNCHANGED <<setupVars, stored, late, fetch, ends>>

\* An answer: the activation has served its purpose, unless the session is already over.
RedeemAccepted ==
  /\ redeem.pc = "accepted"
  /\ activation' = None
  /\ redeem' = IF redeem.expiresAt > now THEN [redeem EXCEPT !.pc = "replace"]
               ELSE NoRedeem
  /\ UNCHANGED <<setupVars, stored, late, fetch, ends>>

\* The session stored so far is read.
ReadPrevious ==
  /\ redeem.pc = "replace"
  /\ redeem' = [redeem EXCEPT !.pc = "store",
                              !.previous = IF HasSetup THEN stored ELSE None]
  /\ stored' = IF HasExpired THEN None ELSE stored
  /\ UNCHANGED <<setupVars, activation, late, fetch, ends>>

NewRecord == [session |-> redeem.answer, token |-> redeem.token,
              expiresAt |-> redeem.expiresAt]

\* Seeded fault of StoreRecord: the replaced session is left to linger.
StoreRecord_NoEnd ==
  /\ redeem.pc = "store"
  /\ stored' = NewRecord
  /\ redeem' = NoRedeem
  /\ UNCHANGED <<setupVars, activation, late, fetch, ends>>

\* The new session is stored; one it replaces is ended on the backend as well.
StoreRecord ==
  /\ redeem.pc = "store"
  /\ stored' = NewRecord
  /\ redeem' = IF redeem.previous # None /\ redeem.previous.session # redeem.answer
               THEN [redeem EXCEPT !.pc = "endPrevious"] ELSE NoRedeem
  /\ UNCHANGED <<setupVars, activation, late, fetch, ends>>

EndPrevious ==
  /\ redeem.pc = "endPrevious"
  /\ ends' = ends \cup {redeem.previous.token}
  /\ redeem' = NoRedeem
  /\ UNCHANGED <<setupVars, stored, activation, late, fetch>>

-----------------------------------------------------------------------------
(* Calls under the session *)

Step(r, pc) == fetch' = [fetch EXCEPT ![r].pc = pc]
Return(r) == fetch' = [fetch EXCEPT ![r] = NoCall]
onlyFetch == <<stored, activation, redeem, late, ends>>

\* sessionFetch reads the stored session and calls the backend with its secret.
CallBackend(r) ==
  /\ fetch[r].pc = "idle" /\ request[r].pc = "idle"
  /\ HasSetup
  /\ fetch' = [fetch EXCEPT ![r] = [pc |-> "sent", record |-> stored]]
  /\ UNCHANGED <<setupVars, onlyFetch>>

\* Any call that finds an expired record goes on to remove it.
FindExpired(r) ==
  /\ fetch[r].pc = "idle" /\ request[r].pc = "idle"
  /\ HasExpired
  /\ fetch' = [fetch EXCEPT ![r] = [pc |-> "expire", record |-> stored]]
  /\ UNCHANGED <<setupVars, onlyFetch>>

\* SetupSessionGuard lets the call in ...
CallAuthenticated(r) ==
  /\ fetch[r].pc = "sent"
  /\ Authenticate(r, fetch[r].record.token)
  /\ Step(r, "served")
  /\ UNCHANGED onlyFetch

\* ... or answers 401.
CallRefused(r) ==
  /\ fetch[r].pc = "sent"
  /\ \A s \in Session : ~Authenticates(s, fetch[r].record.token)
  /\ Step(r, "rejected")
  /\ UNCHANGED <<setupVars, onlyFetch>>

\* A draft is stored.
SubmitDraft(r, d) ==
  /\ fetch[r].pc = "served"
  /\ SubmitRecipe(r, d)
  /\ Return(r)
  /\ UNCHANGED onlyFetch

\* The draft's conditional update matches no row: answered 401 as well.
SubmitRefused(r) ==
  /\ fetch[r].pc = "served"
  /\ ~IsExtensionActive(request[r].session)
  /\ EndRequest(r)
  /\ Step(r, "rejected")
  /\ UNCHANGED onlyFetch

\* The session route only reads, and no other failure makes sessionFetch do anything.
RequestDone(r) ==
  /\ EndRequest(r)
  /\ IF fetch[r].pc = "served" THEN Return(r) ELSE UNCHANGED fetch
  /\ UNCHANGED onlyFetch

\* Rejected: the record is read again, and goes only if it is the one the request was
\* made with (or has expired).
CheckRejected(r) ==
  /\ fetch[r].pc = "rejected"
  /\ CASE HasExpired -> Step(r, "expire")
       [] HasSetup /\ stored.session = fetch[r].record.session -> Step(r, "clear")
       [] OTHER -> Return(r)
  /\ UNCHANGED <<setupVars, onlyFetch>>

\* clearStoreSetup, the storage call after the read that decided on it.
ClearRecord(r) ==
  /\ fetch[r].pc \in {"expire", "clear"}
  /\ stored' = None
  /\ Return(r)
  /\ UNCHANGED <<setupVars, activation, redeem, late, ends>>

\* endStoreSetup reads the record ...
StartEnd(r) ==
  /\ fetch[r].pc = "idle" /\ request[r].pc = "idle"
  /\ HasSetup
  /\ fetch' = [fetch EXCEPT ![r] = [pc |-> "end", record |-> stored]]
  /\ UNCHANGED <<setupVars, onlyFetch>>

\* ... removes it and tells the backend.
FinishEnd(r) ==
  /\ fetch[r].pc = "end"
  /\ stored' = None
  /\ ends' = ends \cup {fetch[r].record.token}
  /\ Return(r)
  /\ UNCHANGED <<setupVars, activation, redeem, late>>

\* The answer is lost or too late, or the worker ends.  (Giving up on a call the
\* backend is serving is giving up on its answer.)
GiveUpCall(r) ==
  /\ fetch[r].pc \notin {"idle", "served"}
  /\ Return(r)
  /\ UNCHANGED <<setupVars, onlyFetch>>

\* An end request reaches the backend, and is refused or let in ...
ServeEnd(r, t) ==
  /\ t \in ends
  /\ fetch[r].pc = "idle"
  /\ ends' = ends \ {t}
  /\ \/ Authenticate(r, t)
     \/ /\ \A s \in Session : ~Authenticates(s, t)
        /\ UNCHANGED setupVars
  /\ UNCHANGED <<stored, activation, redeem, late, fetch>>

\* ... and then ends the session it was let in for.
ServeEnding(r) ==
  /\ fetch[r].pc = "idle"
  /\ EndSession(r)
  /\ UNCHANGED localVars

-----------------------------------------------------------------------------

\* The dashboard, other installs and the clock.
Elsewhere ==
  /\ \/ Dashboard
     \/ \E s \in Session, t \in OtherToken : Redeem(s, t)
     \/ Tick
  /\ UNCHANGED localVars

ExtensionNext ==
  \/ Elsewhere
  \/ \E s \in Session, t \in Token : StartRedeem(s, t)
  \/ \E a \in late : ServeLate(a)
  \/ ServeRedeem \/ GiveUpRedeem \/ RedeemRejected \/ RedeemAccepted
  \/ ReadPrevious \/ StoreRecord \/ EndPrevious
  \/ \E r \in Request :
       \/ CallBackend(r) \/ FindExpired(r) \/ CallAuthenticated(r) \/ CallRefused(r)
       \/ SubmitRefused(r) \/ RequestDone(r) \/ CheckRejected(r) \/ ClearRecord(r)
       \/ StartEnd(r) \/ FinishEnd(r) \/ ServeEnding(r) \/ GiveUpCall(r)
  \/ \E r \in Request, d \in Draft : SubmitDraft(r, d)
  \/ \E r \in Request, t \in Token : ServeEnd(r, t)

ExtensionSpec == ExtensionInit /\ [][ExtensionNext]_extensionVars

-----------------------------------------------------------------------------
(* Properties *)

\* The install never holds another code's answer: the session it stored, or is about
\* to, is the one its secret was bound to, however late earlier attempts arrive.
AnswerIsOwn ==
  /\ stored # None => session[stored.session].token = stored.token
  /\ redeem.pc \in {"accepted", "replace", "store"} =>
       /\ redeem.answer = redeem.code
       /\ session[redeem.answer].token = redeem.token

\* A code is never refused because of the install's own past: whatever attempts were
\* lost or abandoned, the pending secret is bound to no other code's session.
SecretStaysGood ==
  activation # None =>
    \A s \in Session : session[s].token = activation.token => s = activation.code

\* "One setup at a time": a stored session that is replaced is on its way to being
\* ended on the backend.
ReplacedIsEnded ==
  [][stored # None /\ stored' # None /\ stored'.session # stored.session =>
       redeem'.pc = "endPrevious" /\ redeem'.previous = stored]_extensionVars
=============================================================================
