---------------------------- MODULE TabCheckout ----------------------------
(***************************************************************************)
(* One tab's checkout in the extension's service worker                    *)
(* (apps/extension/src/background/service-worker.ts): navigation,          *)
(* detection, the shopper's Apply, the coupon run in the page and the      *)
(* admin's setup mode, which pauses all of it.                             *)
(*                                                                         *)
(* Events start handlers that run concurrently; every await between two    *)
(* steps lets the others in.  Messages from the tab are handled one after  *)
(* another (messageQueues); navigations, the popup and setup are not.  The *)
(* worker is recycled only while no handler runs; its Maps are lost then,  *)
(* chrome.storage.session is not.                                          *)
(***************************************************************************)
EXTENDS Naturals, Sequences

CONSTANTS
  Page,      \* origin, path and fragment of the tab's address
  Checkout,  \* pages with the store's promo box
  Handler,   \* concurrent navigation and detection handlers
  MaxDoc,    \* bound: documents the tab loads
  MaxRun,    \* bound: coupon runs
  MaxQueue,  \* bound: messages waiting for the worker
  MaxEvents, \* bound: route changes, expiries, setups, dormancy changes and recycles together
  None

ASSUME PageAssumption == Checkout \subseteq Page /\ None \notin Page
ASSUME BoundAssumption == MaxDoc \in Nat \ {0} /\ MaxRun \in Nat /\ MaxQueue \in Nat \ {0}
                          /\ MaxEvents \in Nat

VARIABLES
  page,         \* where the tab is
  doc,          \* documentId of its top frame
  detector,     \* checkout-detector.js watches the document
  applier,      \* coupon-applier.js working in the document
  messages,     \* sent by the tab's scripts and not handled yet
  memory,       \* the Map tabState
  interrupted,  \* the Map interruptedRuns
  saved,        \* storage.session tabState:<id>, the mirror of memory
  pending,      \* storage.session pendingApply:<id>
  dormant,      \* storage.local.dormant
  changed,      \* the listener's work after dormant changed
  setup,        \* the tab is in setup mode
  events,       \* how many of the bounded events have happened
  lastRun,      \* runs started
  nav,          \* handleTopFrameNavigation and detectTab
  confirm,      \* onCheckoutConfirmed
  apply,        \* startApply
  starting      \* startSetupOnTab

pageVars == <<page, doc, detector, applier>>
stateVars == <<memory, saved>>
modeVars == <<dormant, changed, setup, events>>
vars == <<pageVars, messages, stateVars, interrupted, pending, modeVars, lastRun, nav, confirm,
          apply, starting>>

-----------------------------------------------------------------------------

Doc == 1..MaxDoc
Run == 0..MaxRun  \* 0: no run

\* TabCheckoutState, without what is only displayed.
State == [page : Page, doc : Doc, run : Run, progress : BOOLEAN,
          result : {None, "done", "interrupted"}]

\* null is no outcome, no state and no run at work.
ASSUME NoneAssumption ==
  /\ None \notin {"done", "interrupted"}
  /\ None \notin State
  /\ None \notin [run : Run, page : Page, told : BOOLEAN]

NavIdle == [pc |-> "idle", page |-> None, same |-> FALSE, kept |-> FALSE, killed |-> FALSE,
            current |-> FALSE]
ConfirmIdle == [pc |-> "idle", doc |-> 1, page |-> None, interrupted |-> FALSE]
ApplyIdle == [pc |-> "idle", state |-> None, continuing |-> FALSE]

TypeOK ==
  /\ page \in Page /\ doc \in Doc /\ detector \in BOOLEAN
  /\ applier \in [run : Run, page : Page, told : BOOLEAN] \cup {None}
  /\ messages \in Seq([type : {"confirm", "progress", "result"}, doc : Doc, run : Run])
  /\ memory \in State \cup {None} /\ saved \in State \cup {None}
  /\ interrupted \in BOOLEAN
  /\ pending \in [page : Page, live : BOOLEAN] \cup {None}
  /\ dormant \in BOOLEAN /\ setup \in BOOLEAN
  /\ changed \in {"none", "clear", "detect"}
  /\ events \in 0..MaxEvents
  /\ lastRun \in Run
  /\ nav \in [Handler -> [pc : {"idle", "load", "peek", "clear", "detect", "inject"},
                          page : Page \cup {None}, same : BOOLEAN, kept : BOOLEAN,
                          killed : BOOLEAN, current : BOOLEAN]]
  /\ confirm \in [pc : {"idle", "url", "load", "save", "take", "applying"}, doc : Doc,
                  page : Page \cup {None}, interrupted : BOOLEAN]
  /\ apply \in [pc : {"idle", "load", "reset", "resolve", "attribute", "update", "inject"},
                state : State \cup {None}, continuing : BOOLEAN]
  /\ starting \in {"idle", "mark", "clear", "take"}

Init ==
  /\ page \in Page /\ doc = 1 /\ detector = FALSE /\ applier = None
  /\ messages = <<>>
  /\ memory = None /\ saved = None
  /\ interrupted = FALSE
  /\ pending = None
  /\ dormant \in BOOLEAN /\ changed = "none" /\ setup = FALSE
  /\ events = 0
  /\ lastRun = 0
  /\ nav = [h \in Handler |-> NavIdle]
  /\ confirm = ConfirmIdle
  /\ apply = ApplyIdle
  /\ starting = "idle"

\* loadTabState: the Map, or the copy a recycled worker finds in storage.
Loaded == IF memory # None THEN memory ELSE saved
Load == memory' = Loaded /\ UNCHANGED saved

\* saveTabState and clearTabState write both.
SaveState(s) == memory' = s /\ saved' = s
ClearState == SaveState(None)

Running(s) == s # None /\ s.progress /\ s.result = None

\* navigationVersions: detections that had read the old version will find it changed.
BumpVersion(handlers) == [h \in Handler |-> [handlers[h] EXCEPT !.current = FALSE]]

Happens == events < MaxEvents /\ events' = events + 1

-----------------------------------------------------------------------------
(* The tab *)

\* A full navigation, a reload, or the redirect of an attribution: a new document.
Navigate(h, p) ==
  /\ doc < MaxDoc
  /\ nav[h].pc = "idle"
  /\ page' = p /\ doc' = doc + 1 /\ detector' = FALSE /\ applier' = None
  /\ nav' = [nav EXCEPT ![h] = [NavIdle EXCEPT !.pc = "load", !.page = p]]
  /\ UNCHANGED <<messages, stateVars, interrupted, pending, modeVars, lastRun, confirm, apply,
                 starting>>

\* The page changes its address through the History API or the fragment.
ChangeRoute(h, p) ==
  /\ Happens
  /\ nav[h].pc = "idle"
  /\ page' = p
  /\ nav' = [nav EXCEPT ![h] = [NavIdle EXCEPT !.pc = "load", !.page = p, !.same = TRUE]]
  /\ UNCHANGED <<doc, detector, applier, messages, stateVars, interrupted, pending, dormant,
                 changed, setup, lastRun, confirm, apply, starting>>

Send(type, run) ==
  /\ Len(messages) < MaxQueue
  /\ messages' = Append(messages, [type |-> type, doc |-> doc, run |-> run])

\* The detector finds the total and the promo box.
FindCheckout ==
  /\ detector
  /\ page \in Checkout
  /\ Send("confirm", 0)
  /\ detector' = FALSE
  /\ UNCHANGED <<page, doc, applier, stateVars, interrupted, pending, modeVars, lastRun, nav,
                 confirm, apply, starting>>

\* The run reports that it tests a code.
TellProgress ==
  /\ applier # None
  /\ ~applier.told
  /\ applier.page = page /\ ~dormant
  /\ Send("progress", applier.run)
  /\ applier' = [applier EXCEPT !.told = TRUE]
  /\ UNCHANGED <<page, doc, detector, stateVars, interrupted, pending, modeVars, lastRun, nav,
                 confirm, apply, starting>>

\* It ends: done, cancelled by dormancy, or because the route changed.
TellResult ==
  /\ applier # None
  /\ Send("result", applier.run)
  /\ applier' = None
  /\ UNCHANGED <<page, doc, detector, stateVars, interrupted, pending, modeVars, lastRun, nav,
                 confirm, apply, starting>>

-----------------------------------------------------------------------------
(* handleTopFrameNavigation and detectTab *)

NavLoad(h) ==
  /\ nav[h].pc = "load"
  /\ Load
  /\ nav' = [nav EXCEPT ![h].pc = IF nav[h].same THEN "clear" ELSE "peek",
                        ![h].kept = Loaded # None /\ Loaded.page = nav[h].page,
                        ![h].killed = Loaded # None /\ Loaded.run # 0 /\ Loaded.result = None]
  /\ UNCHANGED <<pageVars, messages, interrupted, pending, modeVars, lastRun, confirm, apply,
                 starting>>

\* A redirect that lands where it should resumes by itself; another landing ends it.
NavPeek(h) ==
  LET lost == pending # None /\ (~pending.live \/ pending.page # nav[h].page)
  IN
  /\ nav[h].pc = "peek"
  /\ pending' = IF lost THEN None ELSE pending
  /\ nav' = [nav EXCEPT ![h].pc = "clear",
                        ![h].killed = IF pending # None THEN lost ELSE @]
  /\ UNCHANGED <<pageVars, messages, stateVars, interrupted, modeVars, lastRun, confirm, apply,
                 starting>>

\* The state of the page before goes, unless only the query changed.
NavClear(h) ==
  /\ nav[h].pc = "clear"
  /\ IF nav[h].same /\ nav[h].kept
     THEN nav' = [nav EXCEPT ![h] = NavIdle] /\ UNCHANGED <<stateVars, interrupted>>
     ELSE /\ nav' = [BumpVersion(nav) EXCEPT ![h].pc = "detect"]
          /\ ClearState
          /\ interrupted' = (interrupted \/ (~nav[h].same /\ nav[h].killed))
  /\ UNCHANGED <<pageVars, messages, pending, modeVars, lastRun, confirm, apply, starting>>

\* A subframe loaded, the popup opened without a state, or setup ended: detect again.
Rescan(h) ==
  /\ nav[h].pc = "idle"
  /\ Loaded = None
  /\ nav' = [nav EXCEPT ![h] = [NavIdle EXCEPT !.pc = "detect", !.page = page]]
  /\ UNCHANGED <<pageVars, messages, stateVars, interrupted, pending, modeVars, lastRun, confirm,
                 apply, starting>>

NavDetect(h) ==
  /\ nav[h].pc = "detect"
  /\ nav' = [nav EXCEPT ![h] = IF dormant \/ setup THEN NavIdle
                               ELSE [@ EXCEPT !.pc = "inject", !.current = TRUE]]
  /\ UNCHANGED <<pageVars, messages, stateVars, interrupted, pending, modeVars, lastRun, confirm,
                 apply, starting>>

\* The store is known (or not) and no navigation came in between: the detector starts in
\* the documents the tab has now, if the address asked about is a checkout.
NavInject(h) ==
  /\ nav[h].pc = "inject"
  /\ \/ nav[h].current /\ nav[h].page \in Checkout /\ detector' = TRUE
     \/ UNCHANGED detector
  /\ nav' = [nav EXCEPT ![h] = NavIdle]
  /\ UNCHANGED <<page, doc, applier, messages, stateVars, interrupted, pending, modeVars, lastRun,
                 confirm, apply, starting>>

-----------------------------------------------------------------------------
(* Messages of the tab, one after another *)

Handles(type) ==
  /\ confirm.pc = "idle"
  /\ messages # <<>>
  /\ Head(messages).type = type
  /\ messages' = Tail(messages)

\* onCheckoutConfirmed: from the document the tab still shows?
ConfirmStart ==
  /\ Handles("confirm")
  /\ confirm' = IF dormant \/ Head(messages).doc # doc THEN confirm
                ELSE [ConfirmIdle EXCEPT !.pc = "url", !.doc = Head(messages).doc]
  /\ UNCHANGED <<pageVars, stateVars, interrupted, pending, modeVars, lastRun, nav, apply,
                 starting>>

\* The tab's address, and whether an admin sets the store up here.
ConfirmUrl ==
  /\ confirm.pc = "url"
  /\ confirm' = IF setup THEN ConfirmIdle ELSE [confirm EXCEPT !.pc = "load", !.page = page]
  /\ UNCHANGED <<pageVars, messages, stateVars, interrupted, pending, modeVars, lastRun, nav,
                 apply, starting>>

Known(s) == /\ s # None /\ s.page = confirm.page
            /\ s.progress \/ s.result # None \/ s.doc = confirm.doc

\* The store is resolved; the same checkout confirmed again changes nothing.  The failure of
\* a run that a page load killed is taken along.
ConfirmLoad ==
  /\ confirm.pc = "load"
  /\ Load
  /\ confirm' = IF Known(Loaded) THEN ConfirmIdle
                ELSE [confirm EXCEPT !.pc = "save", !.interrupted = interrupted]
  /\ interrupted' = (interrupted /\ Known(Loaded))
  /\ UNCHANGED <<pageVars, messages, pending, modeVars, lastRun, nav, apply, starting>>

\* The stand-down check is done: the tab's state is the ready checkout, or shows that failure.
ConfirmSave ==
  /\ confirm.pc = "save"
  /\ SaveState([page |-> confirm.page, doc |-> confirm.doc, run |-> 0, progress |-> FALSE,
                result |-> IF confirm.interrupted THEN "interrupted" ELSE None])
  /\ confirm' = [confirm EXCEPT !.pc = "take"]
  /\ UNCHANGED <<pageVars, messages, interrupted, pending, modeVars, lastRun, nav, apply, starting>>

Resumes == pending # None /\ pending.live /\ pending.page = confirm.page

\* Seeded fault of ConfirmTake: the continuation is read and not removed.
ConfirmTake_Peeks ==
  /\ confirm.pc = "take"
  /\ UNCHANGED pending
  /\ confirm' = IF Resumes THEN [confirm EXCEPT !.pc = "applying"] ELSE ConfirmIdle
  /\ apply' = IF Resumes /\ apply.pc = "idle"
              THEN [ApplyIdle EXCEPT !.pc = "load", !.continuing = TRUE] ELSE apply
  /\ UNCHANGED <<pageVars, messages, stateVars, interrupted, modeVars, lastRun, nav, starting>>

\* takePendingApply: a run that was redirected here goes on.
ConfirmTake ==
  /\ confirm.pc = "take"
  /\ pending' = None
  /\ confirm' = IF Resumes THEN [confirm EXCEPT !.pc = "applying"] ELSE ConfirmIdle
  /\ apply' = IF Resumes /\ apply.pc = "idle"
              THEN [ApplyIdle EXCEPT !.pc = "load", !.continuing = TRUE] ELSE apply
  /\ UNCHANGED <<pageVars, messages, stateVars, interrupted, modeVars, lastRun, nav, starting>>

ConfirmDone ==
  /\ confirm.pc = "applying"
  /\ apply.pc = "idle"
  /\ confirm' = ConfirmIdle
  /\ UNCHANGED <<pageVars, messages, stateVars, interrupted, pending, modeVars, lastRun, nav,
                 apply, starting>>

\* A message counts for the state of its own run and document.
Concerns(m, s) == s # None /\ s.run \in {0, m.run} /\ s.doc = m.doc

\* Seeded fault of HandleProgress: late progress is taken after the result.
HandleProgress_Late ==
  /\ Handles("progress")
  /\ IF Concerns(Head(messages), Loaded)
     THEN SaveState([Loaded EXCEPT !.progress = TRUE, !.result = None]) ELSE Load
  /\ UNCHANGED <<pageVars, interrupted, pending, modeVars, lastRun, nav, confirm, apply, starting>>

\* Seeded fault of HandleProgress: progress of any run is taken.
HandleProgress_AnyRun ==
  /\ Handles("progress")
  /\ IF Loaded # None /\ Loaded.doc = Head(messages).doc /\ Loaded.result = None
     THEN SaveState([Loaded EXCEPT !.progress = TRUE]) ELSE Load
  /\ UNCHANGED <<pageVars, interrupted, pending, modeVars, lastRun, nav, confirm, apply, starting>>

HandleProgress ==
  /\ Handles("progress")
  /\ IF Concerns(Head(messages), Loaded) /\ Loaded.result = None
     THEN SaveState([Loaded EXCEPT !.progress = TRUE]) ELSE Load
  /\ UNCHANGED <<pageVars, interrupted, pending, modeVars, lastRun, nav, confirm, apply, starting>>

HandleResult ==
  /\ Handles("result")
  /\ IF Concerns(Head(messages), Loaded)
     THEN SaveState([Loaded EXCEPT !.result = "done"]) ELSE Load
  /\ UNCHANGED <<pageVars, interrupted, pending, modeVars, lastRun, nav, confirm, apply, starting>>

-----------------------------------------------------------------------------
(* startApply, one at a time (the Map starting) *)

\* The shopper presses Apply in the popup.
PressApply ==
  /\ apply.pc = "idle"
  /\ Loaded # None
  /\ apply' = [ApplyIdle EXCEPT !.pc = "load"]
  /\ UNCHANGED <<pageVars, messages, stateVars, interrupted, pending, modeVars, lastRun, nav,
                 confirm, starting>>

ApplyLoad ==
  /\ apply.pc = "load"
  /\ Load
  /\ apply' = IF dormant \/ Loaded = None \/ Loaded.page # page \/ Running(Loaded)
              THEN ApplyIdle
              ELSE [apply EXCEPT !.pc = "reset", !.state = Loaded]
  /\ UNCHANGED <<pageVars, messages, interrupted, pending, modeVars, lastRun, nav, confirm,
                 starting>>

\* Not in setup mode: the last run's outcome goes, and without coupons that is all.
ApplyReset ==
  LET s == [apply.state EXCEPT !.progress = FALSE, !.result = None] IN
  /\ apply.pc = "reset"
  /\ \/ setup /\ apply' = ApplyIdle /\ UNCHANGED stateVars
     \/ ~setup /\ SaveState(s) /\ apply' = [apply EXCEPT !.pc = "resolve", !.state = s]
     \/ ~setup /\ SaveState([s EXCEPT !.result = "done"]) /\ apply' = ApplyIdle
  /\ UNCHANGED <<pageVars, messages, interrupted, pending, modeVars, lastRun, nav, confirm,
                 starting>>

\* The store's fresh coupons arrive (or not): the run gets its id.
ApplyResolve ==
  LET s == [apply.state EXCEPT !.run = lastRun + 1] IN
  /\ apply.pc = "resolve"
  /\ \/ apply' = ApplyIdle /\ UNCHANGED <<stateVars, lastRun>>
     \/ /\ lastRun < MaxRun
        /\ lastRun' = lastRun + 1
        /\ SaveState(s)
        /\ apply' = [apply EXCEPT !.state = s,
                                  !.pc = IF apply.continuing THEN "inject" ELSE "attribute"]
  /\ UNCHANGED <<pageVars, messages, interrupted, pending, modeVars, nav, confirm, starting>>

\* runAttribution: nothing to add to the address, or a redirect that is to be resumed.
ApplyAttribute ==
  /\ apply.pc = "attribute"
  /\ \/ apply' = [apply EXCEPT !.pc = "inject"] /\ UNCHANGED pending
     \/ /\ pending' = [page |-> apply.state.page, live |-> TRUE]
        /\ apply' = [apply EXCEPT !.pc = "update"]
  /\ UNCHANGED <<pageVars, messages, stateVars, interrupted, modeVars, lastRun, nav, confirm,
                 starting>>

\* tabs.update starts the redirect: the tab will load a document there, unless the shopper
\* goes elsewhere first.
ApplyRedirect ==
  /\ apply.pc = "update"
  /\ apply' = ApplyIdle
  /\ UNCHANGED <<pageVars, messages, stateVars, interrupted, pending, modeVars, lastRun, nav,
                 confirm, starting>>

\* The run starts in the confirmed document, if that is still there; the script leaves a
\* run already working there alone.
ApplyInject ==
  /\ apply.pc = "inject"
  /\ applier' = IF ~dormant /\ page = apply.state.page /\ doc = apply.state.doc /\ applier = None
                THEN [run |-> apply.state.run, page |-> page, told |-> FALSE]
                ELSE applier
  /\ apply' = ApplyIdle
  /\ UNCHANGED <<page, doc, detector, messages, stateVars, interrupted, pending, modeVars, lastRun,
                 nav, confirm, starting>>

\* 60s have passed since the redirect.
ExpirePending ==
  /\ Happens
  /\ pending # None /\ pending.live
  /\ pending' = [pending EXCEPT !.live = FALSE]
  /\ UNCHANGED <<pageVars, messages, stateVars, interrupted, dormant, changed, setup, lastRun, nav,
                 confirm, apply, starting>>

-----------------------------------------------------------------------------
(* Setup mode, dormancy, the worker *)

\* startSetupOnTab: not while a run is being started or reports progress.
SetupStart ==
  /\ Happens
  /\ starting = "idle" /\ ~setup
  /\ Load
  /\ apply.pc = "idle" /\ ~Running(Loaded)
  /\ starting' = "mark"
  /\ UNCHANGED <<pageVars, messages, interrupted, pending, dormant, changed, setup, lastRun, nav,
                 confirm, apply>>

SetupMark ==
  /\ starting = "mark"
  /\ setup' = TRUE
  /\ starting' = "clear"
  /\ UNCHANGED <<pageVars, messages, stateVars, interrupted, pending, dormant, changed, events,
                 lastRun, nav, confirm, apply>>

\* Everything shopper mode had on the tab goes, detection in flight included.
SetupClear ==
  /\ starting = "clear"
  /\ nav' = BumpVersion(nav)
  /\ ClearState
  /\ starting' = "take"
  /\ UNCHANGED <<pageVars, messages, interrupted, pending, modeVars, lastRun, confirm, apply>>

SetupTake ==
  /\ starting = "take"
  /\ pending' = None
  /\ starting' = "idle"
  /\ UNCHANGED <<pageVars, messages, stateVars, interrupted, modeVars, lastRun, nav, confirm,
                 apply>>

\* Setup ends on the tab; resumeShopperMode is a Rescan.
SetupStop ==
  /\ setup /\ starting = "idle"
  /\ setup' = FALSE
  /\ UNCHANGED <<pageVars, messages, stateVars, interrupted, pending, dormant, changed, events,
                 lastRun, nav, confirm, apply, starting>>

\* A status check changes storage.local.dormant ...
ChangeDormant ==
  /\ Happens
  /\ changed = "none"
  /\ dormant' = ~dormant
  /\ changed' = IF dormant THEN "detect" ELSE "clear"
  /\ UNCHANGED <<pageVars, messages, stateVars, interrupted, pending, setup, lastRun, nav, confirm,
                 apply, starting>>

\* ... and the listener goes through the tabs.
DormantChanged(h) ==
  /\ \/ changed = "clear" /\ ClearState /\ UNCHANGED nav
     \/ /\ changed = "detect" /\ nav[h].pc = "idle"
        /\ nav' = [nav EXCEPT ![h] = [NavIdle EXCEPT !.pc = "detect", !.page = page]]
        /\ UNCHANGED stateVars
  /\ changed' = "none"
  /\ UNCHANGED <<pageVars, messages, interrupted, pending, dormant, setup, events, lastRun, confirm,
                 apply, starting>>

AllIdle ==
  /\ \A h \in Handler : nav[h].pc = "idle"
  /\ confirm.pc = "idle" /\ apply.pc = "idle" /\ starting = "idle" /\ changed = "none"

\* Chrome ends the idle worker.
Recycle ==
  /\ Happens
  /\ AllIdle /\ messages = <<>>
  /\ memory # None \/ interrupted
  /\ memory' = None /\ interrupted' = FALSE
  /\ UNCHANGED <<pageVars, messages, saved, pending, dormant, changed, setup, lastRun, nav, confirm,
                 apply, starting>>

-----------------------------------------------------------------------------

NavStep(h) ==
  NavLoad(h) \/ NavPeek(h) \/ NavClear(h) \/ NavDetect(h) \/ NavInject(h) \/ DormantChanged(h)

MessageStep ==
  \/ ConfirmStart \/ ConfirmUrl \/ ConfirmLoad \/ ConfirmSave \/ ConfirmTake \/ ConfirmDone
  \/ HandleProgress \/ HandleResult

ApplyStep ==
  ApplyLoad \/ ApplyReset \/ ApplyResolve \/ ApplyAttribute \/ ApplyRedirect \/ ApplyInject

SetupStep == SetupMark \/ SetupClear \/ SetupTake

Next ==
  \/ \E h \in Handler : NavStep(h) \/ Rescan(h)
  \/ \E h \in Handler, p \in Page : Navigate(h, p) \/ ChangeRoute(h, p)
  \/ FindCheckout \/ TellProgress \/ TellResult
  \/ MessageStep \/ ApplyStep \/ PressApply \/ ExpirePending
  \/ SetupStart \/ SetupStep \/ SetupStop
  \/ ChangeDormant \/ Recycle

Spec == Init /\ [][Next]_vars

-----------------------------------------------------------------------------
(* Properties *)

\* No late or repeated message of the tab undoes a finished run (docs/extension-reliability.md:
\* "stale updates cannot overwrite a completed run"): with a result shown, a message leaves
\* the state alone or brings a result of the same run.
ResultStays ==
  [][/\ messages' # messages
     /\ saved # None /\ saved.result # None
     => saved' = saved \/ (saved' # None /\ saved'.run = saved.run /\ saved'.result # None)]_vars

\* The popup does not stay at testing: once nothing works for the tab any more, the document
\* the state names shows no unfinished progress.  Progress is only taken from a run whose
\* result will be taken too (1107, 1145), however often the shopper pressed Apply.
TestingEnds ==
  AllIdle /\ messages = <<>> /\ applier = None /\ Loaded # None /\ Loaded.doc = doc
    => ~Running(Loaded)

\* A redirected run is resumed once (docs/extension-reliability.md): while it goes on, its
\* continuation is gone.
ResumesOnce == apply.pc # "idle" /\ apply.continuing => pending = None
=============================================================================
