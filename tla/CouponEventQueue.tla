-------------------------- MODULE CouponEventQueue --------------------------
(***************************************************************************)
(* Reports of tried coupons, from the extension (lib/event-queue.ts) to    *)
(* the backend (public-api.service.ts, recordCouponTestEvent).  An event   *)
(* is stored under its UUID with the device token of the moment; a flush   *)
(* sends what is stored under the current token, one event after another,  *)
(* and removes what was taken or refused for good.  The worker may end at  *)
(* any await, requests and answers get lost or come after the caller gave  *)
(* up, and the agent may hand over another token at any time.              *)
(***************************************************************************)
EXTENDS Naturals, FiniteSets

CONSTANTS
  Event,     \* event UUIDs; storage lists them in their order
  Coupon,
  Token,     \* device tokens; a registration creates a device and its one token
  CouponOf,  \* payload: the coupon
  KindOf,    \* payload: "valid", "failed" or "final"
  Switched,  \* bound: the tokens whose devices are switched off and on
  None

ASSUME EventAssumption == Event \subseteq Nat
ASSUME PayloadAssumption == /\ CouponOf \in [Event -> Coupon]
                            /\ KindOf \in [Event -> {"valid", "failed", "final"}]
ASSUME NoneAssumption == None \notin Token /\ Switched \subseteq Token

VARIABLES
  token,     \* storage.local.deviceToken
  bound,     \* the token stored with an event
  phase,     \* of an event: new, read (its token), made (stored or stored once)
  queue,     \* the events in storage.local
  flush,     \* the flush running
  requests,  \* POST /coupon-test-events on their way
  enabled,   \* tokens DeviceAuthGuard lets through
  gone,      \* coupons that were deleted
  recorded,  \* CouponTestEvent: the device of a recorded event
  success,   \* Coupon.successCount
  fail       \* Coupon.failCount

browserVars == <<token, bound, phase, queue, flush>>
backendVars == <<enabled, gone, recorded, success, fail>>
vars == <<browserVars, requests, backendVars>>

-----------------------------------------------------------------------------

Idle == [pc |-> "idle", todo |-> {}, event |-> None, sentAs |-> None]

TypeOK ==
  /\ token \in Token \cup {None}
  /\ bound \in [Event -> Token \cup {None}]
  /\ phase \in [Event -> {"new", "read", "made"}]
  /\ queue \subseteq Event
  /\ flush \in [pc : {"idle", "listed", "next", "waiting", "remove"},
                todo : SUBSET Event, event : Event \cup {None}, sentAs : Token \cup {None}]
  /\ requests \subseteq [event : Event, token : Token]
  /\ enabled \subseteq Token
  /\ gone \subseteq Coupon
  /\ recorded \in [Event -> Token \cup {None}]
  /\ success \in [Coupon -> Nat]
  /\ fail \in [Coupon -> Nat]

Init ==
  /\ token \in Token \cup {None}
  /\ bound = [e \in Event |-> None]
  /\ phase = [e \in Event |-> "new"]
  /\ queue = {}
  /\ flush = Idle
  /\ requests = {}
  /\ enabled = Token
  /\ gone = {}
  /\ recorded = [e \in Event |-> None]
  /\ success = [c \in Coupon |-> 0]
  /\ fail = [c \in Coupon |-> 0]

-----------------------------------------------------------------------------
(* The browser *)

\* queueCouponTestEvent reads the token ...
ReadToken(e) ==
  /\ phase[e] = "new"
  /\ phase' = [phase EXCEPT ![e] = "read"]
  /\ bound' = [bound EXCEPT ![e] = token]
  /\ UNCHANGED <<token, queue, flush, requests, backendVars>>

\* ... and stores the event under its own key.
StoreEvent(e) ==
  /\ phase[e] = "read"
  /\ phase' = [phase EXCEPT ![e] = "made"]
  /\ queue' = queue \cup {e}
  /\ UNCHANGED <<token, bound, flush, requests, backendVars>>

\* flushCouponEvents, one at a time: lists what is stored.
ListEvents ==
  /\ flush.pc = "idle"
  /\ queue # {}
  /\ flush' = [Idle EXCEPT !.pc = "listed", !.todo = queue]
  /\ UNCHANGED <<token, bound, phase, queue, requests, backendVars>>

\* It keeps the events stored under the token it reads now.
PickOwn ==
  /\ flush.pc = "listed"
  /\ flush' = [flush EXCEPT !.pc = "next", !.todo = {e \in @ : bound[e] = token}]
  /\ UNCHANGED <<token, bound, phase, queue, requests, backendVars>>

IsNext(e) == e \in flush.todo /\ \A f \in flush.todo : e <= f

\* apiFetch reads the token again and sends the request under it.
SendNext(e) ==
  /\ flush.pc = "next"
  /\ IsNext(e)
  /\ token # None
  /\ flush' = [flush EXCEPT !.pc = "waiting", !.event = e, !.sentAs = token]
  /\ requests' = requests \cup {[event |-> e, token |-> token]}
  /\ UNCHANGED <<token, bound, phase, queue, backendVars>>

\* Nothing left, or apiFetch finds no token (AuthError).
EndFlush ==
  /\ flush.pc = "next"
  /\ flush.todo = {} \/ token = None
  /\ flush' = Idle
  /\ UNCHANGED <<token, bound, phase, queue, requests, backendVars>>

\* Seeded fault of BreakOff: any failure removes the event.
BreakOff_Removes ==
  /\ flush.pc = "waiting"
  /\ flush' = Idle
  /\ queue' = queue \ {flush.event}
  /\ UNCHANGED <<token, bound, phase, requests, backendVars>>

\* No answer in 15s, a 429, a 5xx, no network: the flush breaks off.  The request may
\* be served later, or never.
BreakOff ==
  /\ flush.pc = "waiting"
  /\ flush' = Idle
  /\ UNCHANGED <<token, bound, phase, queue, requests, backendVars>>

\* Taken, or refused with 400, 404 or 422: the event leaves the storage.
RemoveEvent ==
  /\ flush.pc = "remove"
  /\ queue' = queue \ {flush.event}
  /\ flush' = [flush EXCEPT !.pc = "next", !.todo = @ \ {flush.event}, !.event = None,
                            !.sentAs = None]
  /\ UNCHANGED <<token, bound, phase, requests, backendVars>>

\* Chrome ends the worker; an event whose token was only read is never stored.
EndWorker ==
  /\ flush.pc # "idle" \/ \E e \in Event : phase[e] = "read"
  /\ flush' = Idle
  /\ phase' = [e \in Event |-> IF phase[e] = "read" THEN "new" ELSE phase[e]]
  /\ UNCHANGED <<token, bound, queue, requests, backendVars>>

\* The agent hands over a token.
SetDeviceToken(t) ==
  /\ token # t
  /\ token' = t
  /\ UNCHANGED <<bound, phase, queue, flush, requests, backendVars>>

-----------------------------------------------------------------------------
(* The backend *)

\* The caller waiting for this request reads its answer.
Answered(r, pc) ==
  flush' = IF flush.pc = "waiting" /\ flush.event = r.event /\ flush.sentAs = r.token
           THEN IF pc = "idle" THEN Idle ELSE [flush EXCEPT !.pc = pc]
           ELSE flush

\* DeviceAuthGuard refuses: the flush breaks off and the event stays.
Unauthorized(r) ==
  /\ r \in requests
  /\ r.token \notin enabled
  /\ requests' = requests \ {r}
  /\ Answered(r, "idle")
  /\ UNCHANGED <<token, bound, phase, queue, backendVars>>

\* Seeded fault of Refused: a refused event stays in storage, as after an outage.
Refused_Kept(r) ==
  /\ r \in requests
  /\ r.token \in enabled
  /\ CouponOf[r.event] \in gone \/ recorded[r.event] \notin {None, r.token}
  /\ requests' = requests \ {r}
  /\ Answered(r, "idle")
  /\ UNCHANGED <<token, bound, phase, queue, backendVars>>

\* 400: the coupon is gone, or the id belongs to another device's event.
Refused(r) ==
  /\ r \in requests
  /\ r.token \in enabled
  /\ CouponOf[r.event] \in gone \/ recorded[r.event] \notin {None, r.token}
  /\ requests' = requests \ {r}
  /\ Answered(r, "remove")
  /\ UNCHANGED <<token, bound, phase, queue, backendVars>>

\* Seeded fault of Record: the counters move before the id is found to be taken.
Record_CountsAgain(r) ==
  /\ r \in requests
  /\ r.token \in enabled
  /\ CouponOf[r.event] \notin gone
  /\ recorded[r.event] \in {None, r.token}
  /\ requests' = requests \ {r}
  /\ recorded' = [recorded EXCEPT ![r.event] = r.token]
  /\ success' = IF KindOf[r.event] = "valid"
                THEN [success EXCEPT ![CouponOf[r.event]] = @ + 1] ELSE success
  /\ fail' = IF KindOf[r.event] = "failed"
             THEN [fail EXCEPT ![CouponOf[r.event]] = @ + 1] ELSE fail
  /\ Answered(r, "remove")
  /\ UNCHANGED <<token, bound, phase, queue, enabled, gone>>

\* One transaction creates the event and moves the coupon's counter.
Record(r) ==
  /\ r \in requests
  /\ r.token \in enabled
  /\ CouponOf[r.event] \notin gone
  /\ recorded[r.event] = None
  /\ requests' = requests \ {r}
  /\ recorded' = [recorded EXCEPT ![r.event] = r.token]
  /\ success' = IF KindOf[r.event] = "valid"
                THEN [success EXCEPT ![CouponOf[r.event]] = @ + 1] ELSE success
  /\ fail' = IF KindOf[r.event] = "failed"
             THEN [fail EXCEPT ![CouponOf[r.event]] = @ + 1] ELSE fail
  /\ Answered(r, "remove")
  /\ UNCHANGED <<token, bound, phase, queue, enabled, gone>>

\* P2002: the id is taken by the same event, which is answered again.
Repeated(r) ==
  /\ r \in requests
  /\ r.token \in enabled
  /\ CouponOf[r.event] \notin gone
  /\ recorded[r.event] = r.token
  /\ requests' = requests \ {r}
  /\ Answered(r, "remove")
  /\ UNCHANGED <<token, bound, phase, queue, backendVars>>

LoseRequest(r) ==
  /\ r \in requests
  /\ requests' = requests \ {r}
  /\ UNCHANGED <<browserVars, backendVars>>

\* DevicesService.update: an administrator switches a device off or on.
SwitchDevice(t) ==
  /\ t \in Switched
  /\ enabled' = IF t \in enabled THEN enabled \ {t} ELSE enabled \cup {t}
  /\ UNCHANGED <<browserVars, requests, gone, recorded, success, fail>>

\* CouponsService.remove.
RemoveCoupon(c) ==
  /\ c \notin gone
  /\ gone' = gone \cup {c}
  /\ UNCHANGED <<browserVars, requests, enabled, recorded, success, fail>>

-----------------------------------------------------------------------------

Serve(r) == Unauthorized(r) \/ Refused(r) \/ Record(r) \/ Repeated(r)

Next ==
  \/ \E e \in Event : ReadToken(e) \/ StoreEvent(e) \/ SendNext(e)
  \/ ListEvents \/ PickOwn \/ EndFlush \/ BreakOff \/ RemoveEvent \/ EndWorker
  \/ \E t \in Token : SetDeviceToken(t) \/ SwitchDevice(t)
  \/ \E r \in requests : Serve(r) \/ LoseRequest(r)
  \/ \E c \in Coupon : RemoveCoupon(c)

Spec == Init /\ [][Next]_vars

\* Serving the request the flush is waiting for.
ServeWaiting ==
  /\ flush.pc = "waiting"
  /\ \E r \in requests : r.event = flush.event /\ r.token = flush.sentAs /\ Serve(r)

\* A flush is started every minute (RECOVERY_ALARM) and goes on; the worker does not end,
\* and the network does not fail, at the same place for ever.
Fairness ==
  /\ WF_vars(ListEvents)
  /\ SF_vars(PickOwn)
  /\ \A e \in Event : SF_vars(SendNext(e))
  /\ WF_vars(EndFlush)
  /\ WF_vars(BreakOff)
  /\ SF_vars(ServeWaiting)
  /\ SF_vars(RemoveEvent)

LiveSpec == Spec /\ Fairness

-----------------------------------------------------------------------------
(* Properties *)

\* An event that was stored leaves the storage only when the backend has recorded it, or
\* never will because its coupon is gone: no outage, token change, lost answer or worker's
\* end drops one (the removals after report() and after a 400).
NothingDropped ==
  \A e \in Event :
    phase[e] = "made" /\ e \notin queue => recorded[e] # None \/ CouponOf[e] \in gone

\* Repeated, late and overlapping requests for one event move its coupon's counters once
\* (the transaction and its P2002 branch).
Tally == INSTANCE EventTally WITH counted <- {e \in Event : recorded[e] # None}

CountsOnce == Tally!TallySpec

\* An event stored under a token that stays and stays enabled leaves the storage, whatever
\* the events before it meet: none of them can block the queue for good.
EventLeaves ==
  \A e \in Event :
    []((e \in queue /\ [](token = bound[e] /\ token \in enabled)) => <>(e \notin queue))
=============================================================================
