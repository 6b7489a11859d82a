----------------------------- MODULE KioskAgent -----------------------------
(***************************************************************************)
(* The Windows agent of a kiosk: the periodic cycle that re-checks the     *)
(* device, keeps the flag the native host consults before handing out the  *)
(* device token, and puts announcements on the screen of whoever is logged *)
(* in (apps/agent/src/main.ts, lib/status-sync.ts, lib/announcements.ts,   *)
(* lib/announcement-state.ts, lib/overlay.ts).                             *)
(*                                                                         *)
(* The agent runs as SYSTEM and has no desktop.  It writes a script, has   *)
(* Task Scheduler run it in the user's session, and waits for a receipt    *)
(* file.  The overlay process is another actor: it may start late, paint   *)
(* after the agent stopped waiting, fail, lose its receipt, or be killed   *)
(* at logoff while its lock file stays.  Receipt, lock and script are one  *)
(* file each, shared by all attempts.                                      *)
(***************************************************************************)
EXTENDS Naturals, FiniteSets, Sequences

CONSTANTS Feed,                  \* the active announcements, in the order the backend sends them
          Policy,                \* their repeat policies
          maxDisplayCount,       \* and the counts of MAX_N_TIMES
          MAX_DISPLAY_ATTEMPTS,  \* 3 in the code
          Slots,                 \* bound: overlay processes at one time
          None

Announcements == {Feed[i] : i \in 1..Len(Feed)}

ASSUME FeedAssumption ==
    /\ Feed \in Seq(Announcements) /\ None \notin Announcements
    /\ Policy \in [Announcements -> {"EVERY_LOGIN", "ONCE", "MAX_N_TIMES"}]
    /\ maxDisplayCount \in [Announcements -> Nat]
    /\ MAX_DISPLAY_ATTEMPTS \in Nat \ {0}
    /\ IsFiniteSet(Slots)

\* newAttemptId: unique, so it only has to differ from the ids still about.
Ids == 1..(Cardinality(Slots) + 2)
NoAttempt == [id |-> 0, ann |-> None]
NoReceipt == [id |-> 0, status |-> "none"]
NoProcess == [st |-> "off", id |-> 0, ann |-> None]

VARIABLES enabled,   \* backend: kiosk ACTIVE and device active
          user,      \* someone is logged in at the console
          pc,        \* the agent: "off" "idle" "poll" "show" "wait" "record"
          todo,      \* what is left of the announcements of this cycle
          attempt,   \* the attempt the agent waits for
          failed,    \* in memory: failedAttempts
          session,   \* in memory: sessionShownIds
          shown,     \* announcement-state.json: shownCount
          active,    \* agent-status file: "none" (no check yet) "on" "off"
          result,    \* the receipt file
          lock,      \* the lock file: "none" "fresh" "stale"
          process,   \* the overlay processes; one that is launching holds what
                     \* the script file says, which it has yet to read
          \* History, read by the properties only:
          painted,   \* the attempt the agent waits for has painted
          seen,      \* how often an announcement was on screen (persisted
                     \* policies, up to the limit)
          lost,      \* those some showing of which was not recorded
          tries,     \* dispatches of this agent run that were not recorded
          unlocked   \* processes the lock file does not stand for: they could
                     \* not write it, or another one removed it

memory == <<todo, attempt, failed, session>>
files == <<shown, active, result, lock>>
history == <<painted, seen, lost, tries, unlocked>>
vars == <<enabled, user, pc, memory, files, process, history>>

TypeOK ==
    /\ enabled \in BOOLEAN /\ user \in BOOLEAN
    /\ pc \in {"off", "idle", "poll", "show", "wait", "record"}
    /\ todo \in Seq(Announcements)
    /\ attempt \in [id : Ids, ann : Announcements] \cup {NoAttempt}
    /\ failed \in [Announcements -> 0..MAX_DISPLAY_ATTEMPTS]
    /\ session \subseteq {a \in Announcements : Policy[a] = "EVERY_LOGIN"}
    /\ shown \in [Announcements -> Nat]
    /\ active \in {"none", "on", "off"}
    /\ result \in [id : Ids, status : {"rendered", "failed"}] \cup {NoReceipt}
    /\ lock \in {"none", "fresh", "stale"}
    /\ process \in [Slots -> [st : {"off", "launching", "locked", "open", "blank"},
                              id : Ids \cup {0}, ann : Announcements \cup {None}]]
    /\ pc \in {"wait", "record"} <=> attempt # NoAttempt
    /\ unlocked \subseteq {s \in Slots : process[s].st # "off"}
    /\ painted \in BOOLEAN /\ (painted => attempt # NoAttempt)
    /\ pc \in {"wait", "record"} => todo # <<>> /\ Head(todo) = attempt.ann

Init ==
    /\ enabled = TRUE /\ user = TRUE
    /\ pc = "idle" /\ todo = <<>> /\ attempt = NoAttempt
    /\ failed = [a \in Announcements |-> 0] /\ session = {}
    /\ shown = [a \in Announcements |-> 0] /\ active = "none"
    /\ result = NoReceipt /\ lock = "none"
    /\ process = [s \in Slots |-> NoProcess]
    /\ painted = FALSE /\ seen = [a \in Announcements |-> 0] /\ lost = {}
    /\ tries = [a \in Announcements |-> 0] /\ unlocked = {}

-----------------------------------------------------------------------------
(* What the agent's steps are decided by.                                  *)

\* The count up to which shouldShowAnnouncement shows a persisted policy.
Limit(a) == IF Policy[a] = "ONCE" THEN 1 ELSE maxDisplayCount[a]
Persisted(a) == Policy[a] # "EVERY_LOGIN"

\* Seeded fault of shouldShowAnnouncement: one showing too many.
shouldShowAnnouncement_Fault(a) ==
    /\ failed[a] < MAX_DISPLAY_ATTEMPTS
    /\ IF Persisted(a) THEN shown[a] <= Limit(a) ELSE a \notin session

shouldShowAnnouncement(a) ==
    /\ failed[a] < MAX_DISPLAY_ATTEMPTS
    /\ IF Persisted(a) THEN shown[a] < Limit(a) ELSE a \notin session

\* Seeded fault of isOverlayShowing: a lock is never given up.
isOverlayShowing_NeverStale == lock # "none"
isOverlayShowing == lock = "fresh"

\* Seeded fault of readOverlayReceipt: whatever lies in the file is taken.
readOverlayReceipt_AnyAttempt ==
    IF result # NoReceipt THEN result.status ELSE "none"

\* The receipt of the attempt the agent waits for, "none" if there is none.
readOverlayReceipt == IF result.id = attempt.id THEN result.status ELSE "none"

newAttemptId ==
    CHOOSE i \in Ids : i # result.id /\ \A s \in Slots : process[s].id # i

OnScreen == {s \in Slots : process[s].st \in {"open", "blank"}}
Running == {s \in Slots : process[s].st # "off"}

-----------------------------------------------------------------------------
(* The cycle.                                                              *)

\* runStatusSync, when the check throws: the network fails, or the backend
\* refuses the token of a disabled device.  The flag goes off.
Unreachable ==
    /\ pc = "idle" /\ active' = "off"
    /\ UNCHANGED <<enabled, user, pc, memory, shown, result, lock, process, history>>

\* runStatusSync, when the check is answered (the guard answers active devices only).
runStatusSync ==
    /\ pc = "idle" /\ enabled
    /\ active' = "on" /\ pc' = "poll"
    /\ UNCHANGED <<enabled, user, memory, shown, result, lock, process, history>>

\* fetchActiveAnnouncements answers, or the cycle ends with it.
fetchActiveAnnouncements ==
    /\ pc = "poll" /\ enabled
    /\ pc' = "show" /\ todo' = Feed
    /\ UNCHANGED <<enabled, user, attempt, failed, session, files, process, history>>

PollFails ==
    /\ pc = "poll" /\ pc' = "idle"
    /\ UNCHANGED <<enabled, user, memory, files, process, history>>

\* The loop moves on: not due, nobody there, or a window still open.
Skip ==
    /\ pc = "show" /\ todo # <<>>
    /\ \/ ~shouldShowAnnouncement(Head(todo))
       \/ ~user
       \/ isOverlayShowing
    /\ todo' = Tail(todo)
    /\ UNCHANGED <<enabled, user, pc, attempt, failed, session, files, process, history>>

CycleEnds ==
    /\ pc = "show" /\ todo = <<>> /\ pc' = "idle"
    /\ UNCHANGED <<enabled, user, memory, files, process, history>>

recordDisplayAttemptFailed(a) ==
    /\ failed' = [failed EXCEPT ![a] = @ + 1]
    /\ todo' = Tail(todo) /\ pc' = "show" /\ attempt' = NoAttempt /\ painted' = FALSE

\* History: showings that cannot be recorded any more.
Unrecorded(as) == {a \in as : Persisted(a)}

\* What /create /f and /run of the relay task may come to.  With a process
\* already there Task Scheduler may also do nothing, or stack a second one.
\* Processes that are launching will read the script as it is now.
Rewritten(script) ==
    [s \in Slots |-> IF process[s].st = "launching"
                     THEN [st |-> "launching", id |-> script.id, ann |-> script.ann]
                     ELSE process[s]]
Launched(script) == \E s \in Slots \ Running :
    process' = [Rewritten(script) EXCEPT ![s] =
                  [st |-> "launching", id |-> script.id, ann |-> script.ann]]
Ignored(script) == Running # {} /\ process' = Rewritten(script)

\* showAnnouncementOverlay up to the wait.  Removing the last receipt is best-effort.
Dispatch ==
    /\ pc = "show" /\ todo # <<>> /\ user
    /\ shouldShowAnnouncement(Head(todo)) /\ ~isOverlayShowing
    /\ result' \in {result, NoReceipt}
    /\ tries' = [tries EXCEPT ![Head(todo)] =
                   IF @ > MAX_DISPLAY_ATTEMPTS THEN @ ELSE @ + 1]
    /\ LET script == [id |-> newAttemptId, ann |-> Head(todo)]
       IN  \/ /\ Launched(script) \/ Ignored(script)
              /\ attempt' = script /\ pc' = "wait"
              /\ painted' = FALSE /\ UNCHANGED <<todo, failed>>
           \/ /\ process' = Rewritten(script)
              /\ recordDisplayAttemptFailed(Head(todo))
    /\ UNCHANGED <<enabled, user, session, shown, active, lock, seen, lost, unlocked>>

\* The receipt is there and says rendered: pollAndDisplayAnnouncements records.
ReceiptRendered ==
    /\ pc = "wait" /\ readOverlayReceipt = "rendered"
    /\ pc' = "record"
    /\ UNCHANGED <<enabled, user, memory, files, process, history>>

\* It says failed, or the render timeout passed without one.
AttemptFails ==
    /\ pc = "wait" /\ readOverlayReceipt # "rendered"
    /\ recordDisplayAttemptFailed(attempt.ann)
    /\ UNCHANGED <<enabled, user, session, files, process, seen, lost, tries, unlocked>>

\* recordAnnouncementShown.
recordAnnouncementShown ==
    /\ pc = "record"
    /\ IF Persisted(attempt.ann)
         THEN shown' = [shown EXCEPT ![attempt.ann] = @ + 1] /\ session' = session
         ELSE session' = session \cup {attempt.ann} /\ shown' = shown
    /\ tries' = [tries EXCEPT ![attempt.ann] = @ - 1]
    /\ pc' = "show" /\ todo' = Tail(todo) /\ attempt' = NoAttempt /\ painted' = FALSE
    /\ UNCHANGED <<enabled, user, failed, active, result, lock, process,
                   seen, lost, unlocked>>

\* The state file cannot be written: caught, and counted as a failed attempt.
RecordFails ==
    /\ pc = "record" /\ Persisted(attempt.ann)
    /\ recordDisplayAttemptFailed(attempt.ann)
    /\ lost' = lost \cup {attempt.ann}
    /\ UNCHANGED <<enabled, user, session, files, process, seen, tries, unlocked>>

\* The process ends.  What it knew of this run is gone; a write of the state
\* file may be cut short, and an unreadable file is read as an empty one.
AgentDies ==
    /\ pc # "off" /\ pc' = "off"
    /\ todo' = <<>> /\ attempt' = NoAttempt
    /\ failed' = [a \in Announcements |-> 0] /\ session' = {}
    /\ tries' = [a \in Announcements |-> 0] /\ painted' = FALSE
    /\ \/ /\ shown' = shown
          /\ lost' = lost \cup Unrecorded(IF painted THEN {attempt.ann} ELSE {})
       \/ /\ pc = "record"
          /\ shown' = [a \in Announcements |-> 0] /\ lost' = Unrecorded(Announcements)
    /\ UNCHANGED <<enabled, user, active, result, lock, process,
                   seen, unlocked>>

-----------------------------------------------------------------------------
(* The overlay process, in the user's session.                             *)

\* Write-OverlayResult: one file for all attempts, last writer wins; the
\* write itself may fail silently.
Report(s, status) ==
    result' \in {result, [id |-> process[s].id, status |-> status]}

\* A rendered receipt the agent has not read yet is overwritten.
Overwritten == IF /\ pc = "wait" /\ result = [id |-> attempt.id, status |-> "rendered"]
                  /\ result' # result
               THEN Unrecorded({attempt.ann}) ELSE {}

\* The harness reads the script there is now and takes the lock, best-effort.
Start(s) ==
    /\ process[s].st = "launching"
    /\ process' = [process EXCEPT ![s].st = "locked"]
    /\ \/ lock' = "fresh" /\ unlocked' = unlocked
       \/ lock' = lock /\ unlocked' = unlocked \cup {s}
    /\ UNCHANGED <<enabled, user, pc, memory, shown, active, result,
                   painted, seen, lost, tries>>

\* NavigationCompleted: the announcement is on the screen.
Paint(s) ==
    /\ process[s].st = "locked"
    /\ process' = [process EXCEPT ![s].st = "open"]
    /\ Report(s, "rendered")
    /\ painted' = (painted \/ (pc = "wait" /\ attempt.id = process[s].id))
    /\ LET a == process[s].ann
           heard == /\ pc = "wait" /\ attempt.id = process[s].id
                    /\ result' = [id |-> attempt.id, status |-> "rendered"]
       IN  /\ seen' = [seen EXCEPT ![a] = IF Persisted(a) /\ @ < Limit(a) THEN @ + 1 ELSE @]
           /\ lost' = lost \cup Overwritten \cup Unrecorded(IF heard THEN {} ELSE {a})
    /\ UNCHANGED <<enabled, user, pc, memory, shown, active, lock, tries, unlocked>>

\* The harness's finally: whoever's lock it is, it is removed.
Ends(s) ==
    /\ process' = [process EXCEPT ![s] = NoProcess] /\ lock' = "none"
    /\ unlocked' = Running \ {s}

\* Initialisation or navigation fails: the script ends, or leaves a blank window.
RenderFails(s) ==
    /\ process[s].st = "locked"
    /\ Report(s, "failed") /\ lost' = lost \cup Overwritten
    /\ \/ Ends(s)
       \/ process' = [process EXCEPT ![s].st = "blank"] /\ UNCHANGED <<lock, unlocked>>
    /\ UNCHANGED <<enabled, user, pc, memory, shown, active, painted, seen, tries>>

\* Dismissed by the user or the timer: the harness removes the lock.
Dismiss(s) ==
    /\ process[s].st \in {"open", "blank"} /\ Ends(s)
    /\ UNCHANGED <<enabled, user, pc, memory, shown, active, result,
                   painted, seen, lost, tries>>

-----------------------------------------------------------------------------
(* The machine and the dashboard.                                          *)

\* The user's processes are killed; the lock file and the agent stay.
Logoff ==
    /\ user /\ user' = FALSE
    /\ process' = [s \in Slots |-> NoProcess] /\ unlocked' = {}
    /\ UNCHANGED <<enabled, pc, memory, files, painted, seen, lost, tries>>

\* The scheduled task starts the agent at logon unless it runs already.
Logon ==
    /\ ~user /\ user' = TRUE
    /\ pc' = IF pc = "off" THEN "idle" ELSE pc
    /\ UNCHANGED <<enabled, memory, files, process, history>>

\* OVERLAY_LOCK_STALE_MS passes; a cycle's waits are far shorter than that.
LockAges ==
    /\ lock = "fresh" /\ pc \in {"idle", "off"}
    /\ lock' = "stale"
    /\ UNCHANGED <<enabled, user, pc, memory, shown, active, result, process, history>>

\* The kill switch of the device, or the kiosk's status.
SetEnabled ==
    /\ enabled' = ~enabled
    /\ UNCHANGED <<user, pc, memory, files, process, history>>

Cycle == \/ runStatusSync \/ Unreachable \/ fetchActiveAnnouncements \/ PollFails
         \/ Skip \/ CycleEnds \/ Dispatch \/ ReceiptRendered \/ AttemptFails
         \/ recordAnnouncementShown \/ RecordFails

Next == \/ Cycle \/ AgentDies
        \/ \E s \in Slots : Start(s) \/ Paint(s) \/ RenderFails(s) \/ Dismiss(s)
        \/ Logoff \/ Logon \/ LockAges \/ SetEnabled

Spec == Init /\ [][Next]_vars

\* The timer runs the cycle, its waits end, the network is not down at every
\* poll, and the half hour of a lock passes.  Nothing is assumed of the
\* overlay process, of the user, or of a dead agent.
LiveSpec ==
    /\ Spec
    /\ WF_vars(Cycle) /\ WF_vars(runStatusSync) /\ SF_vars(fetchActiveAnnouncements)
    /\ SF_vars(LockAges)

-----------------------------------------------------------------------------
(* Properties.                                                             *)

\* A showing is recorded only if that very attempt painted its announcement,
\* whatever late receipts of other attempts lie in the file
\* (announcements.ts:30, overlay.ts:535).
RecordedWasSeen == [][recordAnnouncementShown => painted]_vars

Dispatched(a) == tries'[a] > tries[a]

\* An announcement that was on the screen as often as its policy allows is
\* sent there again only if a showing of it went unrecorded: painted after the
\* timeout, its receipt lost or overwritten, the agent gone or its file cut
\* short (announcement-state.ts:98).
NoShowingTooMany ==
    [][\A a \in Announcements :
          Dispatched(a) /\ Persisted(a) => seen[a] < Limit(a) \/ a \in lost]_vars

\* A kiosk that cannot render an announcement is asked MAX_DISPLAY_ATTEMPTS
\* times per run of the agent and no more (announcement-state.ts:24).
RetriesBounded == \A a \in Announcements : tries[a] <= MAX_DISPLAY_ATTEMPTS

\* An announcement is sent to the screen over an undismissed one only if the
\* lock file does not stand for that window or has gone stale (overlay.ts:654).
NothingStacked ==
    [][(\E a \in Announcements : Dispatched(a)) /\ OnScreen \ unlocked # {}
          => lock = "stale"]_vars

\* While the agent runs, the device stays enabled and somebody is there, each
\* announcement is settled: shown as often as it should, or given up for this
\* run.  A lock left by a killed overlay or one failing announcement does not
\* hold up the others for good (announcements.ts:24, overlay.ts:509).  Once the
\* device is disabled for good, a running agent withdraws the token from the
\* extension (status-sync.ts:28, native-host-mode.ts:34).
CatchesUp ==
    /\ <>[](pc # "off" /\ enabled /\ user)
          => <>[](\A a \in Announcements : ~shouldShowAnnouncement(a))
    /\ <>[](pc # "off" /\ ~enabled) => <>[](active = "off")
=============================================================================
