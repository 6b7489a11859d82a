----------------------- MODULE CouponEventQueueProofs -----------------------
(***************************************************************************)
(* Proofs about CouponEventQueue, for any number of events, coupons and    *)
(* tokens: no stored event is dropped, and the backend counts as EventTally *)
(* promises.                                                               *)
(***************************************************************************)
EXTENDS CouponEventQueue, TLAPS

\* An event the flush is about to remove is done with: recorded, or never to be.
Settled(e) == recorded[e] # None \/ CouponOf[e] \in gone
RemovalSettled == \A e \in Event : flush.pc = "remove" /\ flush.event = e => Settled(e)

QueueInv == TypeOK /\ RemovalSettled /\ NothingDropped

\* The type of a flush, and what the answer to a request makes of one.
Flush == [pc : {"idle", "listed", "next", "waiting", "remove"},
          todo : SUBSET Event, event : Event \cup {None}, sentAs : Token \cup {None}]

LEMMA IdleIsFlush == Idle \in Flush
BY DEF Idle, Flush

LEMMA AnsweredType ==
  ASSUME flush \in Flush, NEW r, NEW pc \in {"idle", "remove"}, Answered(r, pc)
  PROVE  /\ flush' \in Flush
         /\ flush'.pc = "remove" =>
              \/ flush' = flush
              \/ pc = "remove" /\ flush'.event = r.event
<1>1. CASE flush' = flush
  BY <1>1
<1>2. CASE flush' = Idle
  BY <1>2, IdleIsFlush DEF Idle
<1>3. CASE flush' = [flush EXCEPT !.pc = pc] /\ pc = "remove" /\ flush.event = r.event
  BY <1>3 DEF Flush
<1> QED
  BY <1>1, <1>2, <1>3 DEF Answered

-----------------------------------------------------------------------------
(* Types *)

\* The steps of the browser keep its variables typed; they leave the backend alone.
LEMMA BrowserTypes ==
  ASSUME TypeOK,
         \/ \E e \in Event : ReadToken(e) \/ StoreEvent(e) \/ SendNext(e)
         \/ ListEvents \/ PickOwn \/ EndFlush \/ BreakOff \/ RemoveEvent \/ EndWorker
         \/ \E t \in Token : SetDeviceToken(t)
  PROVE  TypeOK'
<1> USE DEF TypeOK, browserVars, backendVars
<1>1. ASSUME NEW e \in Event, ReadToken(e) PROVE TypeOK'
  BY <1>1 DEF ReadToken
<1>2. ASSUME NEW e \in Event, StoreEvent(e) PROVE TypeOK'
  BY <1>2 DEF StoreEvent
<1>3. ASSUME NEW e \in Event, SendNext(e) PROVE TypeOK'
  <2>1. flush' = [pc |-> "waiting", todo |-> flush.todo, event |-> e, sentAs |-> token]
    BY <1>3 DEF SendNext
  <2>2. token \in Token
    BY <1>3 DEF SendNext
  <2>3. requests' \subseteq [event : Event, token : Token]
    <3>1. requests' = requests \cup {[event |-> e, token |-> token]}
      BY <1>3 DEF SendNext
    <3>2. [event |-> e, token |-> token] \in [event : Event, token : Token]
      BY <2>2
    <3> QED
      BY <3>1, <3>2
  <2>4. flush' \in Flush
    BY <2>1, <2>2 DEF Flush
  <2> QED
    BY <1>3, <2>3, <2>4 DEF SendNext, Flush
<1>4. ASSUME ListEvents PROVE TypeOK'
  BY <1>4 DEF ListEvents, Idle
<1>5. ASSUME PickOwn PROVE TypeOK'
  BY <1>5 DEF PickOwn
<1>6. ASSUME EndFlush \/ BreakOff PROVE TypeOK'
  BY <1>6 DEF EndFlush, BreakOff, Idle
<1>7. ASSUME RemoveEvent PROVE TypeOK'
  <2>1. flush' = [pc |-> "next", todo |-> flush.todo \ {flush.event}, event |-> None,
                  sentAs |-> None]
    BY <1>7 DEF RemoveEvent
  <2> QED
    BY <1>7, <2>1 DEF RemoveEvent
<1>8. ASSUME EndWorker PROVE TypeOK'
  BY <1>8 DEF EndWorker, Idle
<1>9. ASSUME NEW t \in Token, SetDeviceToken(t) PROVE TypeOK'
  BY <1>9 DEF SetDeviceToken
<1> QED
  BY <1>1, <1>2, <1>3, <1>4, <1>5, <1>6, <1>7, <1>8, <1>9

LEMMA BackendTypes ==
  ASSUME TypeOK,
         \/ \E r \in requests : Serve(r) \/ LoseRequest(r)
         \/ \E t \in Token : SwitchDevice(t)
         \/ \E c \in Coupon : RemoveCoupon(c)
  PROVE  TypeOK'
<1> USE DEF browserVars, backendVars
<1> flush \in Flush
  BY DEF TypeOK, Flush
<1>1. ASSUME NEW r \in requests, Unauthorized(r) \/ Refused(r) \/ Repeated(r)
      PROVE  TypeOK'
  <2>1. flush' \in Flush
    BY <1>1, AnsweredType DEF Unauthorized, Refused, Repeated
  <2> QED
    BY <1>1, <2>1 DEF Unauthorized, Refused, Repeated, TypeOK, Flush
<1>2. ASSUME NEW r \in requests, Record(r)
      PROVE  TypeOK'
  <2>1. flush' \in Flush
    BY <1>2, AnsweredType DEF Record
  <2>2. r.event \in Event /\ r.token \in Token
    BY <1>2 DEF TypeOK
  <2>3. CouponOf[r.event] \in Coupon
    BY <2>2, PayloadAssumption
  <2>4. success' \in [Coupon -> Nat] /\ fail' \in [Coupon -> Nat]
    BY <1>2, <2>3 DEF Record, TypeOK
  <2> QED
    BY <1>2, <2>1, <2>2, <2>4 DEF Record, TypeOK, Flush
<1>3. ASSUME NEW r \in requests, LoseRequest(r)
      PROVE  TypeOK'
  BY <1>3 DEF LoseRequest, TypeOK
<1>4. ASSUME NEW t \in Token, SwitchDevice(t)
      PROVE  TypeOK'
  BY <1>4 DEF SwitchDevice, TypeOK
<1>5. ASSUME NEW c \in Coupon, RemoveCoupon(c)
      PROVE  TypeOK'
  BY <1>5 DEF RemoveCoupon, TypeOK
<1> QED
  BY <1>1, <1>2, <1>3, <1>4, <1>5 DEF Serve

-----------------------------------------------------------------------------
(* What the backend decides about an event is never taken back *)

LEMMA SettledStays ==
  ASSUME TypeOK, [Next]_vars, NEW e \in Event, Settled(e)
  PROVE  Settled(e)'
<1> USE NoneAssumption DEF Settled
<1>1. ASSUME NEW r \in requests, Record(r)
      PROVE  Settled(e)'
  BY <1>1 DEF Record, TypeOK
<1>2. ASSUME NEW c \in Coupon, RemoveCoupon(c)
      PROVE  Settled(e)'
  BY <1>2 DEF RemoveCoupon
<1>3. ASSUME UNCHANGED <<recorded, gone>>
      PROVE  Settled(e)'
  BY <1>3
<1>4. ASSUME NEW r \in requests, Unauthorized(r) \/ Refused(r) \/ Repeated(r) \/ LoseRequest(r)
      PROVE  UNCHANGED <<recorded, gone>>
  BY <1>4 DEF Unauthorized, Refused, Repeated, LoseRequest, backendVars
<1>5. ASSUME NEW f \in Event, ReadToken(f) \/ StoreEvent(f) \/ SendNext(f)
      PROVE  UNCHANGED <<recorded, gone>>
  BY <1>5 DEF ReadToken, StoreEvent, SendNext, backendVars
<1>6. ASSUME NEW t \in Token, SetDeviceToken(t) \/ SwitchDevice(t)
      PROVE  UNCHANGED <<recorded, gone>>
  BY <1>6 DEF SetDeviceToken, SwitchDevice, backendVars
<1>7. ASSUME ListEvents \/ PickOwn \/ EndFlush \/ BreakOff \/ RemoveEvent \/ EndWorker
      PROVE  UNCHANGED <<recorded, gone>>
  BY <1>7 DEF ListEvents, PickOwn, EndFlush, BreakOff, RemoveEvent, EndWorker, backendVars
<1>8. ASSUME UNCHANGED vars
      PROVE  UNCHANGED <<recorded, gone>>
  BY <1>8 DEF vars, backendVars
<1> QED
  BY <1>1, <1>2, <1>3, <1>4, <1>5, <1>6, <1>7, <1>8 DEF Next, Serve

\* The flush gets to a removal only by an answer, and the answer settles the event.
LEMMA RemovalStep ==
  ASSUME TypeOK, RemovalSettled, [Next]_vars
  PROVE  RemovalSettled'
<1> SUFFICES ASSUME NEW e \in Event, flush'.pc = "remove", flush'.event = e
             PROVE  Settled(e)'
  BY DEF RemovalSettled, Settled
<1> flush \in Flush
  BY DEF TypeOK, Flush
<1>1. CASE flush' = flush
  BY <1>1, SettledStays DEF RemovalSettled
<1>2. ASSUME NEW r \in requests, Refused(r) \/ Record(r) \/ Repeated(r), flush' # flush
      PROVE  Settled(e)'
  <2>1. e = r.event
    BY <1>2, AnsweredType DEF Refused, Record, Repeated
  <2>2. r.event \in Event /\ r.token \in Token
    BY <1>2 DEF TypeOK
  <2> QED
    BY <1>2, <2>1, <2>2, NoneAssumption
       DEF Refused, Record, Repeated, Settled, TypeOK, backendVars
<1>3. ASSUME NEW r \in requests, Unauthorized(r), flush' # flush
      PROVE  FALSE
  BY <1>3, IdleIsFlush DEF Unauthorized, Answered, Idle
<1>4. ASSUME ListEvents \/ PickOwn \/ EndFlush \/ BreakOff \/ RemoveEvent \/ EndWorker
      PROVE  FALSE
  <2>1. CASE ListEvents
    BY <2>1 DEF ListEvents, Idle
  <2>2. CASE PickOwn
    BY <2>2 DEF PickOwn, Flush
  <2>3. CASE RemoveEvent
    <3>1. flush'.pc = "next"
      BY <2>3 DEF RemoveEvent, Flush
    <3> QED
      BY <3>1
  <2>4. CASE EndFlush \/ BreakOff \/ EndWorker
    BY <2>4 DEF EndFlush, BreakOff, EndWorker, Idle
  <2> QED
    BY <1>4, <2>1, <2>2, <2>3, <2>4
<1>5. ASSUME NEW f \in Event, SendNext(f)
      PROVE  FALSE
  BY <1>5 DEF SendNext, Flush
<1>6. ASSUME NEW r \in requests, LoseRequest(r)
      PROVE  flush' = flush
  BY <1>6 DEF LoseRequest, browserVars
<1>7. ASSUME NEW f \in Event, ReadToken(f) \/ StoreEvent(f)
      PROVE  flush' = flush
  BY <1>7 DEF ReadToken, StoreEvent
<1>8. ASSUME NEW t \in Token, SetDeviceToken(t) \/ SwitchDevice(t)
      PROVE  flush' = flush
  BY <1>8 DEF SetDeviceToken, SwitchDevice, browserVars
<1>9. ASSUME NEW c \in Coupon, RemoveCoupon(c)
      PROVE  flush' = flush
  BY <1>9 DEF RemoveCoupon, browserVars
<1>10. ASSUME UNCHANGED vars
       PROVE  flush' = flush
  BY <1>10 DEF vars, browserVars
<1> QED
  BY <1>1, <1>2, <1>3, <1>4, <1>5, <1>6, <1>7, <1>8, <1>9, <1>10 DEF Next, Serve

\* Only the removal takes an event out, and only StoreEvent makes one.
LEMMA OnlyRemoval ==
  ASSUME TypeOK, [Next]_vars, NEW e \in Event, phase'[e] = "made", e \notin queue'
  PROVE  \/ phase[e] = "made" /\ e \notin queue
         \/ flush.pc = "remove" /\ flush.event = e
<1>1. ASSUME UNCHANGED <<phase, queue>>
      PROVE  phase[e] = "made" /\ e \notin queue
  BY <1>1
<1>2. ASSUME NEW f \in Event, ReadToken(f) \/ StoreEvent(f)
      PROVE  phase[e] = "made" /\ e \notin queue
  BY <1>2 DEF ReadToken, StoreEvent, TypeOK
<1>3. ASSUME RemoveEvent, ~(phase[e] = "made" /\ e \notin queue)
      PROVE  flush.pc = "remove" /\ flush.event = e
  BY <1>3 DEF RemoveEvent
<1>4. ASSUME EndWorker
      PROVE  phase[e] = "made" /\ e \notin queue
  BY <1>4 DEF EndWorker, TypeOK
<1>5. ASSUME NEW f \in Event, SendNext(f)
      PROVE  UNCHANGED <<phase, queue>>
  BY <1>5 DEF SendNext
<1>6. ASSUME ListEvents \/ PickOwn \/ EndFlush \/ BreakOff
      PROVE  UNCHANGED <<phase, queue>>
  BY <1>6 DEF ListEvents, PickOwn, EndFlush, BreakOff
<1>7. ASSUME NEW t \in Token, SetDeviceToken(t) \/ SwitchDevice(t)
      PROVE  UNCHANGED <<phase, queue>>
  BY <1>7 DEF SetDeviceToken, SwitchDevice, browserVars
<1>8. ASSUME NEW r \in requests, Serve(r) \/ LoseRequest(r)
      PROVE  UNCHANGED <<phase, queue>>
  BY <1>8 DEF Serve, Unauthorized, Refused, Record, Repeated, LoseRequest, browserVars
<1>9. ASSUME NEW c \in Coupon, RemoveCoupon(c)
      PROVE  UNCHANGED <<phase, queue>>
  BY <1>9 DEF RemoveCoupon, browserVars
<1>10. ASSUME UNCHANGED vars
       PROVE  UNCHANGED <<phase, queue>>
  BY <1>10 DEF vars, browserVars
<1> QED
  BY <1>1, <1>2, <1>3, <1>4, <1>5, <1>6, <1>7, <1>8, <1>9, <1>10 DEF Next

-----------------------------------------------------------------------------
(* The invariant *)

LEMMA QueueInitial == Init => QueueInv
<1> SUFFICES ASSUME Init PROVE QueueInv
  OBVIOUS
<1>1. TypeOK
  BY DEF Init, TypeOK, Idle
<1>2. RemovalSettled /\ NothingDropped
  BY DEF Init, RemovalSettled, NothingDropped, Idle
<1> QED
  BY <1>1, <1>2 DEF QueueInv

LEMMA QueueSteps ==
  ASSUME QueueInv, [Next]_vars
  PROVE  QueueInv'
<1>1. TypeOK'
  <2>1. CASE UNCHANGED vars
    BY <2>1 DEF QueueInv, TypeOK, vars, browserVars, backendVars
  <2> QED
    BY <2>1, BrowserTypes, BackendTypes DEF QueueInv, Next
<1>2. RemovalSettled'
  BY RemovalStep DEF QueueInv
<1>3. NothingDropped'
  <2> SUFFICES ASSUME NEW e \in Event, phase'[e] = "made", e \notin queue'
               PROVE  Settled(e)'
    BY DEF NothingDropped, Settled
  <2>1. Settled(e)
    BY OnlyRemoval DEF QueueInv, NothingDropped, RemovalSettled, Settled
  <2> QED
    BY <2>1, SettledStays DEF QueueInv
<1> QED
  BY <1>1, <1>2, <1>3 DEF QueueInv

LEMMA QueueInvariant == Spec => []QueueInv
BY QueueInitial, QueueSteps, PTL DEF Spec

-----------------------------------------------------------------------------
(* Theorems *)

\* The variables keep their types.
THEOREM QueueTypeCorrect == LiveSpec => []TypeOK
<1>1. QueueInv => TypeOK
  BY DEF QueueInv
<1> QED
  BY <1>1, QueueInvariant, PTL DEF LiveSpec

\* However many events, flushes, outages and tokens there are, an event leaves the
\* storage only when the backend recorded it or its coupon is gone (event-queue.ts,
\* the removals of flushCouponEvents).
THEOREM NeverDropped == LiveSpec => []NothingDropped
<1>1. QueueInv => NothingDropped
  BY DEF QueueInv
<1> QED
  BY <1>1, QueueInvariant, PTL DEF LiveSpec

\* The steps of the backend are those of the tally: a repeated event is none.
LEMMA TallyStep ==
  ASSUME TypeOK, [Next]_vars
  PROVE  [Tally!TallyNext]_<<{e \in Event : recorded[e] # None}, success, fail>>
<1> USE DEF Tally!TallyNext, Tally!Count
<1>1. ASSUME NEW r \in requests, Record(r)
      PROVE  Tally!Count(r.event)
  <2>1. r.event \in Event /\ r.token \in Token
    BY <1>1 DEF TypeOK
  <2>2. {e \in Event : recorded[e] # None}' = {e \in Event : recorded[e] # None} \cup {r.event}
    BY <1>1, <2>1, NoneAssumption DEF Record, TypeOK
  <2>3. r.event \notin {e \in Event : recorded[e] # None}
    BY <1>1 DEF Record
  <2> QED
    BY <1>1, <2>2, <2>3 DEF Record
<1>2. ASSUME NEW r \in requests, Record(r)
      PROVE  Tally!TallyNext
  BY <1>1, <1>2 DEF TypeOK
<1>3. ASSUME NEW r \in requests, Unauthorized(r) \/ Refused(r) \/ Repeated(r) \/ LoseRequest(r)
      PROVE  UNCHANGED <<recorded, success, fail>>
  BY <1>3 DEF Unauthorized, Refused, Repeated, LoseRequest, backendVars
<1>4. ASSUME NEW f \in Event, ReadToken(f) \/ StoreEvent(f) \/ SendNext(f)
      PROVE  UNCHANGED <<recorded, success, fail>>
  BY <1>4 DEF ReadToken, StoreEvent, SendNext, backendVars
<1>5. ASSUME NEW t \in Token, SetDeviceToken(t) \/ SwitchDevice(t)
      PROVE  UNCHANGED <<recorded, success, fail>>
  BY <1>5 DEF SetDeviceToken, SwitchDevice, backendVars
<1>6. ASSUME ListEvents \/ PickOwn \/ EndFlush \/ BreakOff \/ RemoveEvent \/ EndWorker
      PROVE  UNCHANGED <<recorded, success, fail>>
  BY <1>6 DEF ListEvents, PickOwn, EndFlush, BreakOff, RemoveEvent, EndWorker, backendVars
<1>7. ASSUME NEW c \in Coupon, RemoveCoupon(c)
      PROVE  UNCHANGED <<recorded, success, fail>>
  BY <1>7 DEF RemoveCoupon
<1>8. ASSUME UNCHANGED vars
      PROVE  UNCHANGED <<recorded, success, fail>>
  BY <1>8 DEF vars, backendVars
<1> HIDE DEF Tally!TallyNext, Tally!Count
<1> QED
  BY <1>2, <1>3, <1>4, <1>5, <1>6, <1>7, <1>8 DEF Next, Serve

\* For any number of events, repeated, late and overlapping requests move a coupon's
\* counters once per event (recordCouponTestEvent and its P2002 branch).
THEOREM ImplementsTally == LiveSpec => CountsOnce
<1>1. Init => Tally!TallyInit
  BY DEF Init, Tally!TallyInit
<1>2. TypeOK /\ [Next]_vars
        => [Tally!TallyNext]_<<{e \in Event : recorded[e] # None}, success, fail>>
  BY TallyStep
<1>3. QueueInv => TypeOK
  BY DEF QueueInv
<1> QED
  BY <1>1, <1>2, <1>3, QueueInvariant, PTL
     DEF LiveSpec, Spec, CountsOnce, Tally!TallySpec, Tally!tallyVars
=============================================================================
