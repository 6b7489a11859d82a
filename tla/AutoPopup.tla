------------------------------ MODULE AutoPopup ------------------------------
(***************************************************************************)
(* The popup that opens by itself over a ready checkout                    *)
(* (apps/extension/src/background/service-worker.ts:586-761): at once if   *)
(* the shopper is looking at the tab, otherwise when they come to it.      *)
(*                                                                         *)
(* autoPopupPending is one list in session storage for all tabs; every     *)
(* change reads it and writes it back in a later step.  Handlers of        *)
(* several tabs, or of one tab, run at the same time.                      *)
(***************************************************************************)
EXTENDS Naturals

CONSTANTS
  Tab,      \* tabs at a checkout
  Elsewhere,\* any other tab, or another program's window
  Opener,   \* handlers that run at the same time
  MaxTries, \* POPUP_RETRY_DELAYS_MS.length
  NoTab     \* null

ASSUME TabAssumption == Elsewhere \notin Tab /\ NoTab \notin Tab
ASSUME TriesAssumption == MaxTries \in Nat \ {0}

VARIABLES
  front,    \* the tab the shopper looks at
  state,    \* each tab's checkout: none, ready, or taken up (applying or finished)
  autoPopupPending,
  opener,   \* openPopupWhenVisible, openDeferredPopup and setAutoPopupPending in progress
  popup,    \* the tab a popup opened for, and the one it is over
  waiting,  \* tabs whose popup was deferred or refused, and neither opened nor called off nor
            \* erased from the list since (history)
  met       \* handlers whose checkout was ready at some time since they started, or since they
            \* wait to try again (history)

popupVars == <<front, state, autoPopupPending, opener, popup, waiting, met>>

Started(pc, t) ==
  [pc |-> pc, tab |-> t, next |-> NoTab, want |-> FALSE, stored |-> {}, try |-> 0]
Idle == Started("idle", NoTab)

PopupTypeOK ==
  /\ front \in Tab \cup {Elsewhere}
  /\ state \in [Tab -> {"none", "ready", "taken"}]
  /\ autoPopupPending \subseteq Tab /\ waiting \subseteq Tab /\ met \subseteq Opener
  /\ opener \in [Opener -> [pc : {"idle", "deferred", "still", "look", "read", "write", "open",
                                    "retry"},
                              tab : Tab \cup {NoTab}, next : {NoTab, "idle", "open"},
                              want : BOOLEAN, stored : SUBSET Tab, try : 0..(MaxTries - 1)]]
  /\ popup \in [for : Tab \cup {NoTab}, over : Tab \cup {Elsewhere, NoTab}]

PopupInit ==
  /\ front \in Tab \cup {Elsewhere}
  /\ state = [t \in Tab |-> "none"]
  /\ autoPopupPending = {} /\ waiting = {} /\ met = {}
  /\ opener = [h \in Opener |-> Idle]
  /\ popup = [for |-> NoTab, over |-> NoTab]

\* setAutoPopupPending(tab, want), then on at next.
SetPending(h, t, want, next) ==
  opener' = [opener EXCEPT ![h] = [pc |-> "read", tab |-> t, next |-> next, want |-> want,
                                   stored |-> {}, try |-> opener[h].try]]

GoTo(h, pc) == opener' = [opener EXCEPT ![h].pc = pc]
Return(h) == opener' = [opener EXCEPT ![h] = Idle]

-----------------------------------------------------------------------------
(* Events *)

\* A checkout is confirmed and not suppressed.
Confirm(h, t) ==
  /\ opener[h].pc = "idle" /\ state[t] = "none"
  /\ state' = [state EXCEPT ![t] = "ready"]
  /\ opener' = [opener EXCEPT ![h] = Started("look", t)]
  /\ UNCHANGED <<front, autoPopupPending, popup, waiting>>

\* A navigation ends the checkout, Apply takes it up: the deferral is called off.
Leave(h, t, to) ==
  /\ opener[h].pc = "idle" /\ state[t] = "ready"
  /\ to \in {"none", "taken"}
  /\ state' = [state EXCEPT ![t] = to]
  /\ waiting' = waiting \ {t}
  /\ SetPending(h, t, FALSE, "idle")
  /\ UNCHANGED <<front, autoPopupPending, popup>>

\* The shopper switches tabs or windows; coming to a tab looks for its deferred popup.
Look(h, t) ==
  /\ t # front
  /\ front' = t
  /\ popup' = [for |-> NoTab, over |-> NoTab]
  /\ IF t = Elsewhere THEN UNCHANGED opener
     ELSE /\ opener[h].pc = "idle"
          /\ opener' = [opener EXCEPT ![h] = Started("deferred", t)]
  /\ UNCHANGED <<state, autoPopupPending, waiting>>

-----------------------------------------------------------------------------
(* Handlers *)

\* openDeferredPopup: is one pending for the tab?
Deferred(h) ==
  /\ opener[h].pc = "deferred"
  /\ IF opener[h].tab \in autoPopupPending THEN GoTo(h, "still") ELSE Return(h)
  /\ UNCHANGED <<front, state, autoPopupPending, popup, waiting>>

\* Seeded fault of StillReady: what is pending is waiting.
StillReady_Trusts(h) ==
  /\ opener[h].pc = "still" /\ GoTo(h, "look")
  /\ UNCHANGED <<front, state, autoPopupPending, popup, waiting>>

\* It only makes sense while the checkout waits for the shopper.
StillReady(h) ==
  /\ opener[h].pc = "still"
  /\ IF state[opener[h].tab] = "ready" THEN GoTo(h, "look")
     ELSE SetPending(h, opener[h].tab, FALSE, "idle")
  /\ UNCHANGED <<front, state, autoPopupPending, popup, waiting>>

\* openPopupWhenVisible: looked at, or deferred.
WhenVisible(h) ==
  LET t == opener[h].tab IN
  /\ opener[h].pc = "look"
  /\ IF front = t THEN SetPending(h, t, FALSE, "open") /\ UNCHANGED waiting
     ELSE /\ SetPending(h, t, TRUE, "idle")
          /\ waiting' = IF state[t] = "ready" THEN waiting \cup {t} ELSE waiting
  /\ UNCHANGED <<front, state, autoPopupPending, popup>>

\* setAutoPopupPending reads the list ...
ReadPending(h) ==
  LET me == opener[h] IN
  /\ me.pc = "read"
  /\ IF ~me.want /\ me.tab \notin autoPopupPending
     THEN opener' = [opener EXCEPT ![h] = IF me.next = "open" THEN [@ EXCEPT !.pc = "open"]
                                                                ELSE Idle]
     ELSE opener' = [opener EXCEPT ![h].pc = "write", ![h].stored = autoPopupPending]
  /\ UNCHANGED <<front, state, autoPopupPending, popup, waiting>>

\* ... and writes back what it read, with its change.
WritePending(h) ==
  LET me == opener[h] IN
  /\ me.pc = "write"
  /\ autoPopupPending' = IF me.want THEN me.stored \cup {me.tab} ELSE me.stored \ {me.tab}
  /\ waiting' = waiting \ (autoPopupPending \ autoPopupPending')
  /\ opener' = [opener EXCEPT ![h] = IF me.next = "open" THEN [@ EXCEPT !.pc = "open"]
                                                           ELSE Idle]
  /\ UNCHANGED <<front, state, popup>>

\* Seeded fault of Open: after the last refusal nothing is left pending.
Open_GivesUp(h) ==
  LET me == opener[h] IN
  /\ me.pc = "open"
  /\ \/ /\ popup' = [for |-> me.tab, over |-> front]
        /\ waiting' = waiting \ {me.tab}
        /\ Return(h)
     \/ /\ waiting' = IF state[me.tab] = "ready" THEN waiting \cup {me.tab} ELSE waiting
        /\ IF me.try + 1 < MaxTries
           THEN opener' = [opener EXCEPT ![h].pc = "retry", ![h].try = @ + 1]
           ELSE Return(h)
        /\ UNCHANGED popup
  /\ UNCHANGED <<front, state, autoPopupPending>>

\* Chrome opens the popup over the tab in front, or refuses; after the last refusal it is
\* left pending.
Open(h) ==
  LET me == opener[h] IN
  /\ me.pc = "open"
  /\ \/ /\ popup' = [for |-> me.tab, over |-> front]
        /\ waiting' = waiting \ {me.tab}
        /\ Return(h)
     \/ /\ waiting' = IF state[me.tab] = "ready" THEN waiting \cup {me.tab} ELSE waiting
        /\ IF me.try + 1 < MaxTries
           THEN opener' = [opener EXCEPT ![h].pc = "retry", ![h].try = @ + 1]
           ELSE SetPending(h, me.tab, TRUE, "idle")
        /\ UNCHANGED popup
  /\ UNCHANGED <<front, state, autoPopupPending>>

\* stillAwaitingPopup before every further attempt.
Retry(h) ==
  LET t == opener[h].tab IN
  /\ opener[h].pc = "retry"
  /\ IF state[t] # "ready" THEN Return(h)
     ELSE IF front = t THEN GoTo(h, "open")
     ELSE SetPending(h, t, TRUE, "idle")
  /\ UNCHANGED <<front, state, autoPopupPending, popup, waiting>>

Step(h) ==
  \/ Deferred(h) \/ StillReady(h) \/ WhenVisible(h)
  \/ ReadPending(h) \/ WritePending(h) \/ Open(h) \/ Retry(h)

Event(h) ==
  \/ \E t \in Tab : Confirm(h, t) \/ \E to \in {"none", "taken"} : Leave(h, t, to)
  \/ \E t \in Tab \cup {Elsewhere} : Look(h, t)

MetAfter ==
  {h \in Opener : /\ opener'[h].pc # "idle"
                  /\ \/ \E t \in Tab : t = opener'[h].tab /\ state'[t] = "ready"
                     \/ h \in met /\ opener'[h].pc # "retry"}

PopupNext == (\E h \in Opener : Step(h) \/ Event(h)) /\ met' = MetAfter

PopupSpec == PopupInit /\ [][PopupNext]_popupVars

-----------------------------------------------------------------------------
(* Properties *)

AllReturned == \A h \in Opener : opener[h].pc = "idle"

\* Once the handlers have returned, a deferred or refused popup is pending, "so the next tab
\* switch or window focus tries again" (comment at 696-699); only a write-back of the list
\* can cost it, of a handler that read the list before.
DeferralKept == AllReturned => waiting \subseteq autoPopupPending

\* What such a write-back restores after it was called off opens nothing: a handler only
\* opens the popup of a checkout that was ready after it had started or was refused.
OpensForReady == \A h \in Opener : opener[h].pc = "open" => h \in met

\* The two ways in which handlers of several tabs can undo each other's changes of the list
\* (service-worker.ts:586-600).
PendingListSound == DeferralKept /\ OpensForReady
=============================================================================
