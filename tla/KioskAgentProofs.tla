-------------------------- MODULE KioskAgentProofs --------------------------
(***************************************************************************)
(* Proofs about KioskAgent, for any feed, policies and number of overlay   *)
(* processes: a showing is recorded only if it was painted, a kiosk that   *)
(* cannot render is not asked for ever, no window is stacked over one that *)
(* the lock file stands for, and what was shown often enough is not shown  *)
(* again unless a showing was lost.                                        *)
(***************************************************************************)
EXTENDS KioskAgent, FiniteSetTheorems, SequenceTheorems, TLAPS

\* What has been dispatched and not recorded has failed, or is being waited for.
Waiting(a) == IF attempt.ann = a THEN 1 ELSE 0
BudgetInv ==
  /\ tries \in [Announcements -> Nat]
  /\ \A a \in Announcements : tries[a] = failed[a] + Waiting(a)
  /\ attempt # NoAttempt => failed[attempt.ann] < MAX_DISPLAY_ATTEMPTS

\* A receipt that says the awaited attempt has painted is a true one.
ReceiptInv ==
  /\ pc = "record" => painted
  /\ pc = "wait" /\ result.id = attempt.id /\ result.status = "rendered" => painted

\* While a process past its start holds the lock, there is a lock file.
LockInv ==
  \A s \in Slots : process[s].st \in {"locked", "open", "blank"} /\ s \notin unlocked
                     => lock # "none"

\* The two halves of TypeOK: what the agent holds, and what is on the machine.
Attempt == [id : Ids, ann : Announcements]
AgentType ==
  /\ enabled \in BOOLEAN /\ user \in BOOLEAN
  /\ pc \in {"off", "idle", "poll", "show", "wait", "record"}
  /\ todo \in Seq(Announcements)
  /\ attempt \in Attempt \cup {NoAttempt}
  /\ failed \in [Announcements -> 0..MAX_DISPLAY_ATTEMPTS]
  /\ session \subseteq {a \in Announcements : Policy[a] = "EVERY_LOGIN"}
  /\ shown \in [Announcements -> Nat]
  /\ active \in {"none", "on", "off"}
  /\ pc \in {"wait", "record"} <=> attempt # NoAttempt
  /\ painted \in BOOLEAN /\ (painted => attempt # NoAttempt)
  /\ pc \in {"wait", "record"} => todo # <<>> /\ Head(todo) = attempt.ann
Process == [st : {"off", "launching", "locked", "open", "blank"},
            id : Ids \cup {0}, ann : Announcements \cup {None}]
Receipt == [id : Ids, status : {"rendered", "failed"}] \cup {NoReceipt}
MachineType ==
  /\ result \in Receipt
  /\ lock \in {"none", "fresh", "stale"}
  /\ process \in [Slots -> Process]
  /\ \A s \in Slots : process[s].st # "off" => process[s].id \in Ids
  /\ unlocked \subseteq Running

KioskInv == AgentType /\ MachineType /\ BudgetInv /\ ReceiptInv /\ LockInv

LEMMA KioskTypes == KioskInv => TypeOK
BY DEF KioskInv, AgentType, MachineType, TypeOK, Attempt, Process, Receipt, Running

-----------------------------------------------------------------------------
(* Facts about the operators *)

\* There is always a fresh id: more ids than a receipt and all processes can hold.
LEMMA FreshId ==
  ASSUME MachineType
  PROVE  /\ newAttemptId \in Ids /\ newAttemptId # result.id
         /\ \A s \in Slots : process[s].id # newAttemptId
<1> USE FeedAssumption
<1> DEFINE held == [s \in Slots |-> process[s].id]
           Held == {held[s] : s \in Slots}
           Taken == Held \cup {result.id}
<1>1. Cardinality(Slots) \in Nat
  BY FS_CardinalityType
<1>2. IsFiniteSet(Held) /\ Cardinality(Held) <= Cardinality(Slots)
  <2>1. held \in Surjection(Slots, Held)
    BY DEF Surjection
  <2> HIDE DEF held, Held
  <2> QED
    BY <2>1, FS_Surjection
<1>3. IsFiniteSet(Taken) /\ Cardinality(Taken) <= Cardinality(Slots) + 1
  <2> HIDE DEF Held
  <2>1. Cardinality(Held) \in Nat
    BY <1>2, FS_CardinalityType
  <2>2. /\ IsFiniteSet(Taken)
        /\ Cardinality(Taken) = IF result.id \in Held THEN Cardinality(Held)
                                                     ELSE Cardinality(Held) + 1
    BY <1>2, FS_AddElement
  <2> HIDE DEF Taken
  <2> QED
    BY <1>1, <1>2, <2>1, <2>2
<1>4. Cardinality(Ids) = Cardinality(Slots) + 2
  BY <1>1, FS_Interval DEF Ids
<1>5. \E i \in Ids : i \notin Taken
  <2> HIDE DEF Taken
  <2> SUFFICES ASSUME Ids \subseteq Taken PROVE FALSE
    OBVIOUS
  <2>1. Cardinality(Ids) <= Cardinality(Taken)
    BY <1>3, FS_Subset
  <2>2. Cardinality(Taken) \in Nat
    BY <1>3, FS_CardinalityType
  <2> QED
    BY <1>1, <1>3, <1>4, <2>1, <2>2
<1>6. \E i \in Ids : i # result.id /\ \A s \in Slots : process[s].id # i
  BY <1>5
<1> QED
  BY <1>6 DEF newAttemptId

LEMMA ZeroIsNoId == 0 \notin Ids
BY FeedAssumption, FS_CardinalityType DEF Ids

LEMMA AttemptPart ==
  ASSUME AgentType, pc \in {"wait", "record"}
  PROVE  /\ attempt \in Attempt
         /\ attempt.ann \in Announcements
         /\ todo # <<>>
BY DEF AgentType, Attempt

LEMMA TailTyped ==
  ASSUME AgentType, todo # <<>>
  PROVE  Head(todo) \in Announcements /\ Tail(todo) \in Seq(Announcements)
BY HeadTailProperties DEF AgentType

\* No attempt is for no announcement.
LEMMA NobodyWaits ==
  ASSUME NEW a \in Announcements
  PROVE  /\ attempt = NoAttempt => Waiting(a) = 0
         /\ attempt' = NoAttempt => Waiting(a)' = 0
BY FeedAssumption DEF Waiting, NoAttempt

\* One more failed attempt.
LEMMA FailedOnce ==
  ASSUME failed \in [Announcements -> 0..MAX_DISPLAY_ATTEMPTS],
         NEW a \in Announcements, failed[a] < MAX_DISPLAY_ATTEMPTS,
         recordDisplayAttemptFailed(a)
  PROVE  /\ failed' \in [Announcements -> 0..MAX_DISPLAY_ATTEMPTS]
         /\ failed'[a] = failed[a] + 1 /\ failed[a] \in Nat
         /\ \A b \in Announcements \ {a} : failed'[b] = failed[b]
<1>1. failed[a] \in Nat /\ failed[a] + 1 \in 0..MAX_DISPLAY_ATTEMPTS
  BY FeedAssumption
<1>2. failed' = [failed EXCEPT ![a] = failed[a] + 1]
  BY DEF recordDisplayAttemptFailed
<1> QED
  BY <1>1, <1>2

-----------------------------------------------------------------------------
(* The agent's half *)

Agent == <<enabled, user, pc, todo, attempt, failed, session, shown, active, painted, tries>>

LEMMA FailedAttempt ==
  ASSUME AgentType, BudgetInv, pc \in {"wait", "record"},
         recordDisplayAttemptFailed(attempt.ann),
         UNCHANGED <<enabled, user, session, shown, active, tries>>
  PROVE  AgentType' /\ BudgetInv'
<1> USE FeedAssumption
<1>1. attempt.ann \in Announcements /\ Tail(todo) \in Seq(Announcements) /\ attempt # NoAttempt
  BY AttemptPart, TailTyped DEF AgentType
<1>2. failed[attempt.ann] < MAX_DISPLAY_ATTEMPTS
  BY <1>1 DEF BudgetInv
<1>3. failed' \in [Announcements -> 0..MAX_DISPLAY_ATTEMPTS]
  BY <1>1, <1>2, FailedOnce DEF AgentType
<1>4. AgentType'
  BY <1>1, <1>3 DEF recordDisplayAttemptFailed, AgentType
<1>5. ASSUME NEW a \in Announcements
      PROVE  tries'[a] = failed'[a] + Waiting(a)'
  <2>1. attempt' = NoAttempt /\ tries' = tries
    BY DEF recordDisplayAttemptFailed
  <2>2. Waiting(a)' = 0 /\ tries[a] = failed[a] + Waiting(a)
    BY <2>1, NobodyWaits DEF BudgetInv
  <2>3. Waiting(a) = IF a = attempt.ann THEN 1 ELSE 0
    BY DEF Waiting
  <2>4. failed[a] \in Nat /\ failed'[a] \in Nat
    BY <1>3 DEF AgentType
  <2> QED
    BY <1>1, <1>2, <2>1, <2>2, <2>3, <2>4, FailedOnce DEF AgentType
<1> QED
  BY <1>4, <1>5 DEF BudgetInv, recordDisplayAttemptFailed

LEMMA DispatchAgent ==
  ASSUME AgentType, MachineType, BudgetInv, Dispatch
  PROVE  AgentType' /\ BudgetInv'
<1> USE FeedAssumption
<1> DEFINE h == Head(todo)
<1>1. h \in Announcements /\ Tail(todo) \in Seq(Announcements) /\ failed[h] < MAX_DISPLAY_ATTEMPTS
  BY TailTyped DEF Dispatch, shouldShowAnnouncement
<1>2. attempt = NoAttempt /\ tries[h] = failed[h]
  BY <1>1, NobodyWaits DEF Dispatch, AgentType, BudgetInv
<1>3. tries' = [tries EXCEPT ![h] = @ + 1]
  <2>1. failed[h] \in Nat /\ ~(tries[h] > MAX_DISPLAY_ATTEMPTS)
    BY <1>1, <1>2 DEF AgentType
  <2> QED
    BY <2>1 DEF Dispatch
<1>4. CASE /\ attempt' = [id |-> newAttemptId, ann |-> h] /\ pc' = "wait"
           /\ painted' = FALSE /\ UNCHANGED <<todo, failed>>
  <2>1. attempt' \in Attempt /\ attempt' # NoAttempt /\ attempt'.ann = h
    BY <1>1, <1>4, FreshId, ZeroIsNoId DEF Attempt, NoAttempt
  <2>2. AgentType'
    BY <1>4, <2>1 DEF AgentType, Dispatch
  <2>3. ASSUME NEW a \in Announcements
        PROVE  tries'[a] = failed'[a] + Waiting(a)'
    BY <1>1, <1>2, <1>3, <1>4, <2>1, NobodyWaits DEF BudgetInv, Waiting, AgentType
  <2>4. tries' \in [Announcements -> Nat]
    BY <1>1, <1>3 DEF BudgetInv
  <2> QED
    BY <1>1, <1>4, <2>1, <2>2, <2>3, <2>4 DEF BudgetInv
<1>5. CASE recordDisplayAttemptFailed(h)
  <2>1. failed' \in [Announcements -> 0..MAX_DISPLAY_ATTEMPTS]
    BY <1>1, <1>5, FailedOnce DEF AgentType
  <2>2. AgentType'
    BY <1>1, <1>5, <2>1 DEF recordDisplayAttemptFailed, AgentType, Dispatch
  <2>3. ASSUME NEW a \in Announcements
        PROVE  tries'[a] = failed'[a] + Waiting(a)'
    <3>1. Waiting(a) = 0 /\ Waiting(a)' = 0
      BY <1>2, <1>5, NobodyWaits DEF recordDisplayAttemptFailed
    <3>2. tries[a] = failed[a] /\ failed[a] \in Nat
      BY <3>1 DEF BudgetInv, AgentType
    <3>3. tries'[a] = IF a = h THEN tries[a] + 1 ELSE tries[a]
      BY <1>1, <1>3 DEF BudgetInv
    <3>4. failed'[a] = IF a = h THEN failed[a] + 1 ELSE failed[a]
      BY <1>1, <1>5, FailedOnce DEF AgentType
    <3> QED
      BY <3>1, <3>2, <3>3, <3>4
  <2>4. tries' \in [Announcements -> Nat]
    BY <1>1, <1>3 DEF BudgetInv
  <2> QED
    BY <1>5, <2>2, <2>3, <2>4 DEF BudgetInv, recordDisplayAttemptFailed
<1> QED
  BY <1>4, <1>5 DEF Dispatch

\* Steps that leave the attempt and its counters alone.
LEMMA QuietAgent ==
  ASSUME AgentType, BudgetInv, UNCHANGED <<attempt, failed, tries>>, AgentType'
  PROVE  BudgetInv'
BY DEF BudgetInv, Waiting

LEMMA AgentFrame ==
  ASSUME AgentType, BudgetInv, UNCHANGED Agent
  PROVE  AgentType' /\ BudgetInv'
BY DEF Agent, AgentType, BudgetInv, Waiting

LEMMA AgentSteps ==
  ASSUME KioskInv, [Next]_vars
  PROVE  AgentType' /\ BudgetInv'
<1> USE FeedAssumption DEF memory, files, history
<1> AgentType /\ MachineType /\ BudgetInv /\ ReceiptInv
  BY DEF KioskInv
<1>1. CASE Unreachable
  BY <1>1, QuietAgent DEF Unreachable, AgentType
<1>2. CASE runStatusSync
  BY <1>2, QuietAgent DEF runStatusSync, AgentType
<1>3. CASE fetchActiveAnnouncements
  BY <1>3, QuietAgent DEF fetchActiveAnnouncements, AgentType
<1>4. CASE PollFails \/ CycleEnds
  <2>1. /\ pc' = "idle" /\ pc \in {"poll", "show"}
        /\ UNCHANGED <<enabled, user, memory, active, shown, painted, tries>>
    BY <1>4 DEF PollFails, CycleEnds
  <2> QED
    BY <2>1, QuietAgent DEF AgentType
<1>5. CASE Skip
  BY <1>5, QuietAgent, TailTyped DEF Skip, AgentType
<1>6. CASE Dispatch
  BY <1>6, DispatchAgent
<1>7. CASE ReceiptRendered
  BY <1>7, QuietAgent DEF ReceiptRendered, AgentType
<1>8. CASE AttemptFails \/ RecordFails
  BY <1>8, FailedAttempt DEF AttemptFails, RecordFails
<1>9. CASE recordAnnouncementShown
  <2> DEFINE a == attempt.ann
  <2>1. a \in Announcements /\ Tail(todo) \in Seq(Announcements) /\ attempt # NoAttempt
    BY <1>9, AttemptPart, TailTyped DEF recordAnnouncementShown, AgentType
  <2>2. tries[a] = failed[a] + 1 /\ failed[a] \in Nat
    BY <2>1 DEF BudgetInv, Waiting, AgentType
  <2>3. /\ shown' \in [Announcements -> Nat]
        /\ session' \subseteq {b \in Announcements : Policy[b] = "EVERY_LOGIN"}
    <3>1. CASE Persisted(a)
      <4>1. shown' = [shown EXCEPT ![a] = @ + 1] /\ session' = session
        BY <1>9, <3>1 DEF recordAnnouncementShown
      <4> QED
        BY <2>1, <4>1 DEF AgentType
    <3>2. CASE ~Persisted(a)
      <4>1. shown' = shown /\ session' = session \cup {a}
        BY <1>9, <3>2 DEF recordAnnouncementShown
      <4> QED
        BY <2>1, <3>2, <4>1 DEF AgentType, Persisted
    <3> QED
      BY <3>1, <3>2
  <2>4. AgentType'
    BY <1>9, <2>1, <2>3 DEF recordAnnouncementShown, AgentType
  <2>5. tries' = [tries EXCEPT ![a] = failed[a]]
    <3>1. tries' = [tries EXCEPT ![a] = tries[a] - 1]
      BY <1>9 DEF recordAnnouncementShown
    <3>2. tries[a] - 1 = failed[a]
      BY <2>2
    <3> QED
      BY <3>1, <3>2
  <2>6. ASSUME NEW b \in Announcements
        PROVE  tries'[b] = failed'[b] + Waiting(b)'
    <3>1. attempt' = NoAttempt /\ failed' = failed
      BY <1>9 DEF recordAnnouncementShown
    <3>2. Waiting(b)' = 0 /\ tries[b] = failed[b] + Waiting(b)
      BY <3>1, NobodyWaits DEF BudgetInv
    <3>3. Waiting(b) = IF b = a THEN 1 ELSE 0
      BY DEF Waiting
    <3>4. tries'[b] = IF b = a THEN failed[a] ELSE tries[b]
      BY <2>1, <2>5 DEF BudgetInv
    <3>5. failed[b] \in Nat
      BY DEF AgentType
    <3> QED
      BY <3>1, <3>2, <3>3, <3>4, <3>5
  <2>7. tries' \in [Announcements -> Nat]
    BY <2>1, <2>2, <2>5 DEF BudgetInv
  <2> QED
    BY <1>9, <2>4, <2>6, <2>7 DEF BudgetInv, recordAnnouncementShown
<1>10. CASE AgentDies
  <2>1. shown' \in [Announcements -> Nat]
    BY <1>10 DEF AgentDies, AgentType
  <2>2. AgentType'
    <3>1. failed' \in [Announcements -> 0..MAX_DISPLAY_ATTEMPTS]
      BY <1>10 DEF AgentDies
    <3>2. /\ pc' = "off" /\ todo' = <<>> /\ attempt' = NoAttempt /\ session' = {}
          /\ painted' = FALSE
          /\ UNCHANGED <<enabled, user, active>>
      BY <1>10 DEF AgentDies
    <3>3. todo' \in Seq(Announcements)
      BY <3>2
    <3> QED
      BY <2>1, <3>1, <3>2, <3>3 DEF AgentType
  <2>3. attempt' = NoAttempt
    BY <1>10 DEF AgentDies
  <2> QED
    BY <1>10, <2>2, <2>3, NobodyWaits DEF AgentDies, BudgetInv
<1>11. ASSUME NEW s \in Slots, Paint(s)
       PROVE  AgentType' /\ BudgetInv'
  BY <1>11, QuietAgent DEF Paint, AgentType
<1>12. ASSUME NEW s \in Slots, Start(s) \/ RenderFails(s) \/ Dismiss(s)
       PROVE  AgentType' /\ BudgetInv'
  BY <1>12, QuietAgent DEF Start, RenderFails, Dismiss, AgentType
<1>13. CASE Logoff \/ LockAges \/ SetEnabled
  <2>1. CASE Logoff
    BY <2>1, QuietAgent DEF Logoff, AgentType
  <2>2. CASE SetEnabled
    BY <2>2, QuietAgent DEF SetEnabled, AgentType
  <2>3. CASE LockAges
    BY <2>3, AgentFrame DEF LockAges, Agent
  <2> QED
    BY <1>13, <2>1, <2>2, <2>3
<1>14. CASE Logon
  BY <1>14, QuietAgent DEF Logon, AgentType
<1>15. CASE UNCHANGED vars
  BY <1>15, QuietAgent DEF vars, AgentType
<1> QED
  BY <1>1, <1>2, <1>3, <1>4, <1>5, <1>6, <1>7, <1>8, <1>9, <1>10, <1>11, <1>12, <1>13,
     <1>14, <1>15 DEF Next, Cycle

-----------------------------------------------------------------------------
(* The machine's half *)

Machine == <<result, lock, process, unlocked>>

LEMMA RewrittenType ==
  ASSUME MachineType, NEW script \in Attempt
  PROVE  /\ Rewritten(script) \in [Slots -> Process]
         /\ \A s \in Slots :
              /\ Rewritten(script)[s].st = process[s].st
              /\ process[s].st # "off" => Rewritten(script)[s].id \in Ids
BY DEF MachineType, Rewritten, Process, Attempt

\* A new dispatch starts no window of its own: processes only get to launching.
LEMMA DispatchMachine ==
  ASSUME AgentType, MachineType, LockInv, Dispatch
  PROVE  MachineType' /\ LockInv'
<1> DEFINE script == [id |-> newAttemptId, ann |-> Head(todo)]
<1>1. script \in Attempt /\ script.id = newAttemptId /\ script.ann = Head(todo)
  BY FreshId, TailTyped DEF Dispatch, Attempt
<1> HIDE DEF script
<1>2. Launched(script) \/ Ignored(script) \/ process' = Rewritten(script)
  BY DEF Dispatch, script
<1>3. /\ process' \in [Slots -> Process]
      /\ \A s \in Slots : \/ process'[s].st = process[s].st
                          \/ process[s].st = "off" /\ process'[s].st = "launching"
      /\ \A s \in Slots : process'[s].st # "off" => process'[s].id \in Ids
  <2>1. CASE Launched(script)
    <3>1. PICK s \in Slots \ Running :
            process' = [Rewritten(script) EXCEPT ![s] =
                          [st |-> "launching", id |-> script.id, ann |-> script.ann]]
      BY <2>1 DEF Launched
    <3>2. [st |-> "launching", id |-> script.id, ann |-> script.ann] \in Process
      BY <1>1 DEF Process, Attempt
    <3>3. process[s].st = "off" /\ script.id \in Ids
      BY <1>1 DEF Running, Attempt
    <3> DEFINE old == Rewritten(script)
               new == [st |-> "launching", id |-> script.id, ann |-> script.ann]
    <3>4. /\ old \in [Slots -> Process]
          /\ \A t \in Slots :
               old[t].st = process[t].st /\ (process[t].st # "off" => old[t].id \in Ids)
      BY <1>1, RewrittenType
    <3>5. new.st = "launching" /\ new.id \in Ids /\ new \in Process
      BY <3>2, <3>3
    <3>6. process' = [old EXCEPT ![s] = new]
      BY <3>1
    <3> HIDE DEF old, new
    <3>7. process' \in [Slots -> Process]
      BY <3>4, <3>5, <3>6
    <3>8. \A t \in Slots : process'[t] = IF t = s THEN new ELSE old[t]
      BY <3>4, <3>6
    <3> QED
      BY <3>3, <3>4, <3>5, <3>7, <3>8
  <2>2. CASE process' = Rewritten(script)
    BY <1>1, <2>2, RewrittenType
  <2> QED
    BY <1>2, <2>1, <2>2 DEF Ignored
<1>4. UNCHANGED <<lock, unlocked>> /\ result' \in Receipt
  BY DEF Dispatch, MachineType, Receipt
<1>5. unlocked \subseteq Running'
  <2>1. \A s \in Slots : s \in Running => process'[s].st # "off"
    BY <1>3 DEF Running
  <2> QED
    BY <2>1 DEF MachineType, Running
<1> QED
  BY <1>3, <1>4, <1>5 DEF MachineType, LockInv

\* One process changes; if it ends, the lock goes with it, whoever took it.
LEMMA ProcessSteps ==
  ASSUME MachineType, LockInv, NEW s \in Slots,
         Start(s) \/ Paint(s) \/ RenderFails(s) \/ Dismiss(s)
  PROVE  MachineType' /\ LockInv'
<1>1. process[s] \in Process
  BY DEF MachineType
<1>2. ASSUME NEW st \in {"locked", "open", "blank"}, process' = [process EXCEPT ![s].st = st],
             process[s].st # "off"
      PROVE  /\ process' \in [Slots -> Process]
             /\ process'[s].st = st /\ process'[s].id = process[s].id
             /\ \A t \in Slots \ {s} : process'[t] = process[t]
             /\ Running' = Running
  <2>1. [process[s] EXCEPT !.st = st] = [st |-> st, id |-> process[s].id, ann |-> process[s].ann]
    BY <1>1 DEF Process
  <2>2. [st |-> st, id |-> process[s].id, ann |-> process[s].ann] \in Process
    BY <1>1 DEF Process
  <2>3. process' = [process EXCEPT ![s] = [st |-> st, id |-> process[s].id, ann |-> process[s].ann]]
    BY <1>2, <2>1
  <2>4. \A t \in Slots : process'[t].st # "off" <=> process[t].st # "off"
    BY <1>2, <2>3 DEF MachineType
  <2> QED
    BY <1>2, <2>2, <2>3, <2>4 DEF MachineType, Running
<1>3. ASSUME NEW status \in {"rendered", "failed"}, process[s].st = "locked",
             Report(s, status), process[s].id \in Ids
      PROVE  result' \in Receipt
  BY <1>3 DEF Report, Receipt, MachineType
<1>4. ASSUME Ends(s)
      PROVE  /\ process' \in [Slots -> Process] /\ process'[s].st = "off"
             /\ \A t \in Slots \ {s} : process'[t] = process[t]
             /\ lock' = "none" /\ unlocked' \subseteq Running'
             /\ LockInv'
  <2>1. NoProcess \in Process /\ NoProcess.st = "off"
    BY DEF NoProcess, Process
  <2>2. process' = [process EXCEPT ![s] = NoProcess] /\ lock' = "none" /\ unlocked' = Running \ {s}
    BY <1>4 DEF Ends
  <2> HIDE DEF NoProcess
  <2> QED
    BY <2>1, <2>2 DEF MachineType, Running, LockInv
<1>5. CASE Start(s)
  <2>1. process'[s].st = "locked" /\ process' \in [Slots -> Process] /\ Running' = Running
        /\ \A t \in Slots \ {s} : process'[t] = process[t]
    BY <1>2, <1>5 DEF Start
  <2>2. s \in Running /\ result' = result
    BY <1>5 DEF Start, Running
  <2> QED
    BY <1>5, <2>1, <2>2 DEF Start, MachineType, LockInv
<1>6. CASE Paint(s)
  <2>1. /\ process' \in [Slots -> Process] /\ process'[s].st = "open" /\ Running' = Running
        /\ process'[s].id = process[s].id
        /\ \A t \in Slots \ {s} : process'[t] = process[t]
    BY <1>2, <1>6 DEF Paint
  <2>2. result' \in Receipt /\ process[s].id \in Ids
    BY <1>3, <1>6 DEF Paint, MachineType
  <2>3. UNCHANGED <<lock, unlocked>> /\ process[s].st = "locked"
    BY <1>6 DEF Paint
  <2> QED
    BY <2>1, <2>2, <2>3 DEF MachineType, LockInv
<1>7. CASE RenderFails(s)
  <2>1. result' \in Receipt /\ process[s].st = "locked" /\ process[s].id \in Ids
    BY <1>3, <1>7 DEF RenderFails, MachineType
  <2>2. CASE Ends(s)
    BY <1>4, <2>1, <2>2 DEF MachineType
  <2>3. CASE process' = [process EXCEPT ![s].st = "blank"] /\ UNCHANGED <<lock, unlocked>>
    <3>1. /\ process' \in [Slots -> Process] /\ process'[s].st = "blank" /\ Running' = Running
          /\ process'[s].id = process[s].id
          /\ \A t \in Slots \ {s} : process'[t] = process[t]
      BY <1>2, <2>1, <2>3
    <3> QED
      BY <2>1, <2>3, <3>1 DEF MachineType, LockInv
  <2> QED
    BY <1>7, <2>2, <2>3 DEF RenderFails
<1>8. CASE Dismiss(s)
  BY <1>4, <1>8 DEF Dismiss, MachineType
<1> QED
  BY <1>5, <1>6, <1>7, <1>8

LEMMA MachineSteps ==
  ASSUME KioskInv, [Next]_vars
  PROVE  MachineType' /\ LockInv'
<1> USE DEF memory, files, history
<1> AgentType /\ MachineType /\ LockInv
  BY DEF KioskInv
<1>1. CASE Dispatch
  BY <1>1, DispatchMachine
<1>2. ASSUME NEW s \in Slots, Start(s) \/ Paint(s) \/ RenderFails(s) \/ Dismiss(s)
      PROVE  MachineType' /\ LockInv'
  BY <1>2, ProcessSteps
<1>3. CASE Logoff
  <2>1. NoProcess \in Process /\ NoProcess.st = "off"
    BY DEF NoProcess, Process
  <2>2. process' = [s \in Slots |-> NoProcess] /\ unlocked' = {} /\ UNCHANGED <<result, lock>>
    BY <1>3 DEF Logoff
  <2> HIDE DEF NoProcess
  <2> QED
    BY <2>1, <2>2 DEF MachineType, LockInv
<1>4. CASE LockAges
  BY <1>4 DEF LockAges, MachineType, LockInv, Running
<1>5. CASE UNCHANGED Machine
  BY <1>5 DEF Machine, MachineType, LockInv, Running
<1>6. CASE \/ Unreachable \/ runStatusSync \/ fetchActiveAnnouncements \/ PollFails \/ CycleEnds
           \/ Skip \/ ReceiptRendered \/ AttemptFails
  BY <1>5, <1>6 DEF Unreachable, runStatusSync, fetchActiveAnnouncements, PollFails, CycleEnds,
       Skip, ReceiptRendered, AttemptFails, Machine
<1>7. CASE \/ recordAnnouncementShown \/ RecordFails \/ AgentDies \/ SetEnabled \/ Logon
           \/ UNCHANGED vars
  BY <1>5, <1>7 DEF recordAnnouncementShown, RecordFails, AgentDies, SetEnabled, Logon,
       Machine, vars
<1> QED
  BY <1>1, <1>2, <1>3, <1>4, <1>6, <1>7 DEF Next, Cycle

-----------------------------------------------------------------------------
(* Receipts *)

LEMMA ReceiptSteps ==
  ASSUME KioskInv, [Next]_vars
  PROVE  ReceiptInv'
<1> USE DEF memory, files, history
<1> AgentType /\ MachineType /\ ReceiptInv
  BY DEF KioskInv
<1>1. CASE Dispatch
  <2>1. pc' = "wait" => attempt'.id = newAttemptId
    BY <1>1 DEF Dispatch, recordDisplayAttemptFailed
  <2>2. result' \in {result, NoReceipt} /\ pc' # "record"
    BY <1>1 DEF Dispatch, recordDisplayAttemptFailed
  <2>3. NoReceipt.id = 0
    BY DEF NoReceipt
  <2> QED
    BY <2>1, <2>2, <2>3, FreshId, ZeroIsNoId DEF ReceiptInv
<1>2. ASSUME NEW s \in Slots, Paint(s)
      PROVE  ReceiptInv'
  <2>1. /\ UNCHANGED <<pc, attempt>>
        /\ result' \in {result, [id |-> process[s].id, status |-> "rendered"]}
        /\ painted' = (painted \/ (pc = "wait" /\ attempt.id = process[s].id))
    BY <1>2 DEF Paint, Report
  <2> QED
    <3>1. CASE result' = result
      BY <2>1, <3>1 DEF ReceiptInv
    <3>2. CASE result' = [id |-> process[s].id, status |-> "rendered"]
      <4>1. result'.id = process[s].id
        BY <3>2
      <4> QED
        BY <2>1, <4>1 DEF ReceiptInv
    <3> QED
      BY <2>1, <3>1, <3>2
<1>3. ASSUME NEW s \in Slots, RenderFails(s)
      PROVE  ReceiptInv'
  <2>1. /\ UNCHANGED <<pc, attempt, painted>>
        /\ result' \in {result, [id |-> process[s].id, status |-> "failed"]}
    BY <1>3 DEF RenderFails, Report
  <2> QED
    BY <2>1 DEF ReceiptInv
<1>4. CASE ReceiptRendered
  <2>1. result.id = attempt.id /\ result.status = "rendered" /\ pc = "wait"
    BY <1>4 DEF ReceiptRendered, readOverlayReceipt
  <2> QED
    BY <1>4, <2>1 DEF ReceiptRendered, ReceiptInv
<1>5. CASE pc' \notin {"wait", "record"}
  BY <1>5 DEF ReceiptInv
<1>6. CASE UNCHANGED <<pc, attempt, painted, result>>
  BY <1>6 DEF ReceiptInv
<1>7. CASE \/ Unreachable \/ runStatusSync \/ fetchActiveAnnouncements \/ PollFails \/ CycleEnds
           \/ Skip
  BY <1>5, <1>6, <1>7 DEF Unreachable, runStatusSync, fetchActiveAnnouncements, PollFails,
       CycleEnds, Skip
<1>8. CASE recordAnnouncementShown \/ AttemptFails \/ RecordFails \/ AgentDies
  BY <1>5, <1>8 DEF recordAnnouncementShown, AttemptFails, RecordFails, AgentDies,
       recordDisplayAttemptFailed
<1>9. ASSUME NEW s \in Slots, Start(s) \/ Dismiss(s)
      PROVE  ReceiptInv'
  BY <1>6, <1>9 DEF Start, Dismiss
<1>10. CASE Logoff \/ LockAges \/ SetEnabled \/ UNCHANGED vars
  BY <1>6, <1>10 DEF Logoff, LockAges, SetEnabled, vars
<1>11. CASE Logon
  BY <1>5, <1>6, <1>11 DEF Logon
<1> QED
  BY <1>1, <1>2, <1>3, <1>4, <1>7, <1>8, <1>9, <1>10, <1>11 DEF Next, Cycle

-----------------------------------------------------------------------------
(* The invariant *)

LEMMA KioskInitial == Init => KioskInv
<1> USE FeedAssumption
<1> SUFFICES ASSUME Init PROVE KioskInv
  OBVIOUS
<1>1. AgentType
  <2>1. failed \in [Announcements -> 0..MAX_DISPLAY_ATTEMPTS] /\ todo \in Seq(Announcements)
    BY DEF Init
  <2>2. shown \in [Announcements -> Nat]
    BY DEF Init
  <2> QED
    BY <2>1, <2>2 DEF Init, AgentType
<1>2. MachineType
  <2>1. NoProcess \in Process /\ NoProcess.st = "off"
    BY DEF NoProcess, Process
  <2> QED
    BY <2>1 DEF Init, MachineType, Receipt
<1>3. BudgetInv
  <2>1. attempt = NoAttempt
    BY DEF Init
  <2> QED
    BY <2>1, NobodyWaits DEF Init, BudgetInv
<1>4. ReceiptInv /\ LockInv
  BY DEF Init, ReceiptInv, LockInv, NoProcess
<1> QED
  BY <1>1, <1>2, <1>3, <1>4 DEF KioskInv

LEMMA KioskInvariant == LiveSpec => []KioskInv
<1>1. KioskInv /\ [Next]_vars => KioskInv'
  BY AgentSteps, MachineSteps, ReceiptSteps DEF KioskInv
<1> QED
  BY <1>1, KioskInitial, PTL DEF LiveSpec, Spec

-----------------------------------------------------------------------------
(* Theorems *)

\* The variables keep their types; in particular an id is always free.
THEOREM KioskTypeCorrect == LiveSpec => []TypeOK
BY KioskInvariant, KioskTypes, PTL

\* However many overlay processes start late, paint after the timeout or fail, only
\* an attempt that painted is recorded as shown (announcements.ts:30, overlay.ts:535).
THEOREM RecordsAreTrue == LiveSpec => RecordedWasSeen
<1>1. KioskInv => (recordAnnouncementShown => painted)
  BY DEF KioskInv, ReceiptInv, recordAnnouncementShown
<1>2. KioskInv /\ [Next]_vars => [recordAnnouncementShown => painted]_vars
  BY <1>1
<1> QED
  BY <1>2, KioskInvariant, PTL DEF LiveSpec, Spec, RecordedWasSeen

\* Between two starts of the agent an announcement is dispatched at most
\* MAX_DISPLAY_ATTEMPTS times without success, whatever fails: the launch, the
\* rendering, or the write of the state file (announcement-state.ts:24).
THEOREM RetriesAreBounded == LiveSpec => []RetriesBounded
<1>1. KioskInv => RetriesBounded
  <2> SUFFICES ASSUME KioskInv, NEW a \in Announcements
               PROVE  tries[a] <= MAX_DISPLAY_ATTEMPTS
    BY DEF RetriesBounded
  <2>1. tries[a] = failed[a] + Waiting(a) /\ failed[a] \in 0..MAX_DISPLAY_ATTEMPTS
    BY DEF KioskInv, BudgetInv, AgentType
  <2>2. CASE attempt = NoAttempt
    BY <2>1, <2>2, NobodyWaits, FeedAssumption
  <2>3. CASE attempt # NoAttempt
    <3>1. failed[attempt.ann] < MAX_DISPLAY_ATTEMPTS
      BY <2>3 DEF KioskInv, BudgetInv
    <3>2. Waiting(a) = IF a = attempt.ann THEN 1 ELSE 0
      BY DEF Waiting
    <3> QED
      BY <2>1, <3>1, <3>2, FeedAssumption
  <2> QED
    BY <2>2, <2>3
<1> QED
  BY <1>1, KioskInvariant, PTL

\* Only a dispatch makes tries grow.
LEMMA OnlyDispatch ==
  ASSUME KioskInv, [Next]_vars, NEW a \in Announcements, Dispatched(a)
  PROVE  Dispatch
<1> USE DEF memory, files, history
<1>1. tries[a] \in Nat
  BY DEF KioskInv, BudgetInv
<1>2. CASE tries' = tries
  BY <1>1, <1>2 DEF Dispatched
<1>3. CASE recordAnnouncementShown
  <2>1. tries' = [tries EXCEPT ![attempt.ann] = @ - 1]
    BY <1>3 DEF recordAnnouncementShown
  <2>2. attempt.ann \in Announcements
    BY <1>3, AttemptPart DEF recordAnnouncementShown, KioskInv
  <2>3. tries' [a] = IF a = attempt.ann THEN tries[a] - 1 ELSE tries[a]
    BY <2>1, <2>2 DEF KioskInv, BudgetInv
  <2> QED
    BY <1>1, <2>3 DEF Dispatched
<1>4. CASE AgentDies
  BY <1>1, <1>4 DEF AgentDies, Dispatched
<1>5. CASE \/ Unreachable \/ runStatusSync \/ fetchActiveAnnouncements \/ PollFails \/ CycleEnds
           \/ Skip \/ ReceiptRendered \/ AttemptFails \/ RecordFails
  BY <1>2, <1>5 DEF Unreachable, runStatusSync, fetchActiveAnnouncements, PollFails, CycleEnds,
       Skip, ReceiptRendered, AttemptFails, RecordFails
<1>6. ASSUME NEW s \in Slots, Start(s) \/ Paint(s) \/ RenderFails(s) \/ Dismiss(s)
      PROVE  tries' = tries
  BY <1>6 DEF Start, Paint, RenderFails, Dismiss
<1>7. CASE Logoff \/ Logon \/ LockAges \/ SetEnabled \/ UNCHANGED vars
  BY <1>2, <1>7 DEF Logoff, Logon, LockAges, SetEnabled, vars
<1> QED
  BY <1>2, <1>3, <1>4, <1>5, <1>6, <1>7 DEF Next, Cycle

\* For any number of overlay processes, an announcement is dispatched over an open
\* window only if the window has no lock file of its own left, or a stale one
\* (overlay.ts:654).
THEOREM WindowsAreKept == LiveSpec => NothingStacked
<1>1. ASSUME KioskInv, [Next]_vars, NEW a \in Announcements, Dispatched(a),
             OnScreen \ unlocked # {}
      PROVE  lock = "stale"
  <2>1. lock # "fresh"
    BY <1>1, OnlyDispatch DEF Dispatch, isOverlayShowing
  <2>2. lock # "none"
    BY <1>1 DEF KioskInv, LockInv, OnScreen
  <2> QED
    BY <1>1, <2>1, <2>2 DEF KioskInv, MachineType
<1>2. KioskInv /\ [Next]_vars
        => [(\E a \in Announcements : Dispatched(a)) /\ OnScreen \ unlocked # {}
               => lock = "stale"]_vars
  BY <1>1
<1> QED
  BY <1>2, KioskInvariant, PTL DEF LiveSpec, Spec, NothingStacked
-----------------------------------------------------------------------------
(* No showing too many                                                     *)

\* Either Task Scheduler never stacks a second overlay process on one that runs, or no policy
\* shows an announcement more than once.
Counted ==
  \/ \E s : Slots = {s}
  \/ \A a \in Announcements : Persisted(a) => Limit(a) <= 1

\* A process works for the script it was given.  If no other can paint for the same attempt, it
\* has not painted while it starts.
ScriptOf(s) ==
  /\ process[s].st # "off" => process[s].ann \in Announcements
  /\ attempt # NoAttempt /\ process[s].st # "off" /\ process[s].id = attempt.id
       => process[s].ann = attempt.ann
  /\ Slots = {s} /\ process[s].st \in {"launching", "locked"} /\ process[s].id = attempt.id
       => ~painted
ScriptInv == \A s \in Slots : ScriptOf(s)

\* A painted attempt has its receipt in the file until the agent reads it, or is lost.
HeardInv ==
  pc = "wait" /\ painted /\ Persisted(attempt.ann) /\ attempt.ann \notin lost
    => result = [id |-> attempt.id, status |-> "rendered"]

\* What was seen has been recorded, but for the attempt that is about to be.
Credit(a) == IF painted /\ attempt.ann = a THEN 1 ELSE 0
SeenInv ==
  /\ seen \in [Announcements -> Nat]
  /\ \A a \in Announcements : Persisted(a) => seen[a] <= Limit(a)
  /\ \A a \in Announcements : Persisted(a) /\ a \notin lost => seen[a] <= shown[a] + Credit(a)

ShowingInv == ScriptInv /\ HeardInv /\ SeenInv

\* Processes that get on without painting, or end.
Calm(s) ==
  \/ process'[s] = process[s]
  \/ process'[s].st = "off"
  \/ /\ process'[s].st \in {"locked", "blank"} /\ process[s].st \in {"launching", "locked"}
     /\ process'[s].id = process[s].id /\ process'[s].ann = process[s].ann

\* They keep their scripts.
LEMMA CalmScripts ==
  ASSUME ScriptInv, UNCHANGED <<attempt, painted>>, \A s \in Slots : Calm(s)
  PROVE  ScriptInv'
<1> SUFFICES ASSUME NEW s \in Slots PROVE ScriptOf(s)'
  BY DEF ScriptInv
<1>1. ScriptOf(s) /\ Calm(s)
  BY DEF ScriptInv
<1> QED
  BY <1>1 DEF ScriptOf, Calm

\* Steps that leave the showings alone.
LEMMA ShowingFrame ==
  ASSUME ShowingInv, pc' = "wait" => pc = "wait",
         UNCHANGED <<attempt, painted, shown, seen, lost, result>>,
         \A s \in Slots : Calm(s)
  PROVE  ShowingInv'
<1>1. ScriptInv'
  BY CalmScripts DEF ShowingInv
<1> QED
  BY <1>1 DEF ShowingInv, HeardInv, SeenInv, Credit, Persisted, Limit

\* One process gets on.
LEMMA GetsOn ==
  ASSUME MachineType, NEW s \in Slots, NEW st, process' = [process EXCEPT ![s].st = st]
  PROVE  /\ process'[s].st = st /\ process'[s].id = process[s].id
         /\ process'[s].ann = process[s].ann
         /\ \A t \in Slots \ {s} : process'[t] = process[t]
<1>1. process[s] \in Process /\ process \in [Slots -> Process]
  BY DEF MachineType
<1>2. [process[s] EXCEPT !.st = st] = [st |-> st, id |-> process[s].id, ann |-> process[s].ann]
  BY <1>1 DEF Process
<1>3. process' = [process EXCEPT ![s] = [st |-> st, id |-> process[s].id, ann |-> process[s].ann]]
  BY <1>2
<1> QED
  BY <1>1, <1>3

\* A process that ends leaves the others alone.
LEMMA EndsCalm ==
  ASSUME MachineType, NEW s \in Slots, Ends(s)
  PROVE  \A t \in Slots : Calm(t)
<1>1. \A t \in Slots : process'[t] = IF t = s THEN NoProcess ELSE process[t]
  BY DEF Ends, MachineType
<1>2. NoProcess.st = "off"
  BY DEF NoProcess
<1> HIDE DEF NoProcess
<1> QED
  BY <1>1, <1>2 DEF Calm

\* A new attempt has painted nothing, and its process, if there is one, has its script.
LEMMA DispatchShowing ==
  ASSUME KioskInv, ShowingInv, Dispatch
  PROVE  ShowingInv'
<1> DEFINE script == [id |-> newAttemptId, ann |-> Head(todo)]
<1> AgentType /\ MachineType
  BY DEF KioskInv
<1>1. script \in Attempt /\ script.id = newAttemptId /\ script.ann = Head(todo)
  BY FreshId, TailTyped DEF Dispatch, Attempt
<1>2. script.ann \in Announcements
  BY <1>1, TailTyped DEF Dispatch
<1>3. ~painted /\ painted' = FALSE /\ UNCHANGED <<seen, shown, lost>>
  BY DEF Dispatch, AgentType, recordDisplayAttemptFailed
<1>4. \/ attempt' = script /\ (Launched(script) \/ Ignored(script))
      \/ attempt' = NoAttempt /\ process' = Rewritten(script)
  BY DEF Dispatch, recordDisplayAttemptFailed
<1> HIDE DEF script
<1>5. ASSUME NEW s \in Slots
      PROVE  ScriptOf(s)'
  <2>1. process[s].st # "off" /\ process[s].st # "launching" => process[s].id # script.id
    BY <1>1, FreshId
  <2>2. /\ Rewritten(script)[s].st = "launching" =>
             Rewritten(script)[s].id = script.id /\ Rewritten(script)[s].ann = script.ann
        /\ Rewritten(script)[s].st # "launching" => Rewritten(script)[s] = process[s]
    BY DEF Rewritten, MachineType, Process
  <2>3. \/ process'[s] = Rewritten(script)[s]
        \/ /\ process'[s].st = "launching"
           /\ process'[s].id = script.id /\ process'[s].ann = script.ann
    <3>1. CASE Launched(script)
      <4>1. PICK t \in Slots \ Running :
              process' = [Rewritten(script) EXCEPT ![t] =
                            [st |-> "launching", id |-> script.id, ann |-> script.ann]]
        BY <3>1 DEF Launched
      <4>2. DOMAIN Rewritten(script) = Slots
        BY DEF Rewritten
      <4>3. t = s => process'[s] = [st |-> "launching", id |-> script.id, ann |-> script.ann]
        BY <4>1, <4>2
      <4>4. t # s => process'[s] = Rewritten(script)[s]
        BY <4>1, <4>2
      <4> QED
        BY <4>3, <4>4
    <3>2. CASE process' = Rewritten(script)
      BY <3>2
    <3> QED
      BY <1>4, <3>1, <3>2 DEF Ignored
  <2> QED
    BY <1>2, <1>3, <1>4, <2>1, <2>2, <2>3 DEF ShowingInv, ScriptInv, ScriptOf
<1>6. ScriptInv'
  BY <1>5 DEF ScriptInv
<1>7. SeenInv'
  BY <1>3 DEF ShowingInv, SeenInv, Credit, Persisted, Limit
<1> QED
  BY <1>3, <1>6, <1>7 DEF ShowingInv, HeardInv

\* Painting is heard, or lost.
LEMMA PaintShowing ==
  ASSUME Counted, NEW s \in Slots, KioskInv, ShowingInv, Paint(s)
  PROVE  ShowingInv'
<1> DEFINE a == process[s].ann
           mine == pc = "wait" /\ attempt.id = process[s].id
           told == [id |-> process[s].id, status |-> "rendered"]
           heard == mine /\ result' = [id |-> attempt.id, status |-> "rendered"]
<1> AgentType /\ MachineType /\ ReceiptInv
  BY DEF KioskInv
<1>1. /\ process[s].st = "locked" /\ process'[s].st = "open"
      /\ process'[s].id = process[s].id /\ process'[s].ann = a
      /\ \A t \in Slots \ {s} : process'[t] = process[t]
  BY GetsOn DEF Paint
<1>2. /\ UNCHANGED <<pc, attempt, shown>>
      /\ painted' = (painted \/ mine) /\ result' \in {result, told}
      /\ seen' = [seen EXCEPT ![a] = IF Persisted(a) /\ @ < Limit(a) THEN @ + 1 ELSE @]
      /\ lost' = lost \cup Overwritten \cup Unrecorded(IF heard THEN {} ELSE {a})
  BY DEF Paint, Report, memory
<1>3. /\ a \in Announcements
      /\ mine => a = attempt.ann /\ (Slots = {s} => ~painted)
  BY <1>1 DEF ShowingInv, ScriptInv, ScriptOf, AgentType
<1>4. ScriptInv'
  <2> SUFFICES ASSUME NEW t \in Slots PROVE ScriptOf(t)'
    BY DEF ScriptInv
  <2>1. ScriptOf(t) /\ ScriptOf(s)
    BY DEF ShowingInv, ScriptInv
  <2>2. CASE t = s
    BY <1>1, <1>2, <2>1, <2>2 DEF ScriptOf
  <2>3. CASE t # s
    BY <1>1, <1>2, <2>1, <2>3 DEF ScriptOf
  <2> QED
    BY <2>2, <2>3
<1>5. Persisted(a) /\ ~heard => a \in lost'
  BY <1>2 DEF Unrecorded
<1>6. /\ lost \subseteq lost'
      /\ Persisted(attempt.ann) /\ pc = "wait" /\ result' # result
         /\ result = [id |-> attempt.id, status |-> "rendered"] => attempt.ann \in lost'
  BY <1>2 DEF Overwritten, Unrecorded
<1>7. HeardInv'
  <2> SUFFICES ASSUME pc' = "wait", painted', Persisted(attempt.ann)', attempt.ann' \notin lost'
               PROVE  (result = [id |-> attempt.id, status |-> "rendered"])'
    BY DEF HeardInv
  <2>1. CASE mine
    BY <1>2, <1>3, <1>5, <2>1 DEF Persisted
  <2>2. CASE ~mine
    <3>1. painted /\ attempt.ann \notin lost /\ Persisted(attempt.ann)
      BY <1>2, <1>6, <2>2 DEF Persisted
    <3>2. result = [id |-> attempt.id, status |-> "rendered"]
      BY <1>2, <3>1 DEF ShowingInv, HeardInv
    <3> QED
      BY <1>2, <1>6, <3>1, <3>2
  <2> QED
    BY <2>1, <2>2
<1>8. SeenInv'
  <2>1. seen[a] \in Nat /\ seen \in [Announcements -> Nat]
    BY <1>3 DEF ShowingInv, SeenInv
  <2>2. seen' \in [Announcements -> Nat] /\ seen'[a] \in {seen[a], seen[a] + 1}
    BY <1>2, <1>3, <2>1
  <2>3. ASSUME NEW b \in Announcements, Persisted(b)
        PROVE  seen'[b] <= Limit(b)
    <3>1. seen[b] <= Limit(b) /\ Limit(b) \in Nat /\ seen[b] \in Nat
      BY <2>1, <2>3, FeedAssumption DEF ShowingInv, SeenInv, Limit
    <3>2. seen'[b] = IF b = a /\ seen[b] < Limit(b) THEN seen[b] + 1 ELSE seen[b]
      BY <1>2, <2>1, <2>3
    <3> QED
      BY <3>1, <3>2
  <2>4. ASSUME NEW b \in Announcements, Persisted(b), b \notin lost'
        PROVE  seen'[b] <= shown'[b] + Credit(b)'
    <3>1. seen[b] <= shown[b] + Credit(b) /\ shown[b] \in Nat /\ seen[b] \in Nat
      BY <1>6, <2>4 DEF ShowingInv, SeenInv, AgentType
    <3>2. Credit(b) \in {0, 1} /\ Credit(b)' \in {0, 1}
      BY DEF Credit
    <3>3. CASE b = a
      <4>1. heard
        BY <1>5, <2>4, <3>3
      <4>2. Credit(b)' = 1
        BY <1>2, <1>3, <3>3, <4>1 DEF Credit
      <4>3. CASE Limit(b) <= 1
        <5>1. seen'[b] <= Limit(b) /\ Limit(b) \in Nat /\ seen'[b] \in Nat
          BY <2>2, <2>3, <2>4, FeedAssumption DEF Limit
        <5> QED
          BY <1>2, <3>1, <4>2, <4>3, <5>1
      <4>4. CASE Slots = {s}
        <5>1. Credit(b) = 0
          BY <1>3, <4>1, <4>4 DEF Credit
        <5> QED
          BY <1>2, <2>2, <3>1, <3>3, <4>2, <5>1
      <4> QED
        BY <2>4, <4>3, <4>4 DEF Counted
    <3>4. CASE b # a
      <4>1. seen'[b] = seen[b]
        BY <1>2, <2>1, <3>4
      <4>2. Credit(b)' = Credit(b)
        BY <1>2, <1>3, <3>4 DEF Credit
      <4> QED
        BY <1>2, <3>1, <4>1, <4>2
    <3> QED
      BY <3>3, <3>4
  <2> QED
    BY <2>2, <2>3, <2>4 DEF SeenInv, Persisted, Limit
<1> QED
  BY <1>4, <1>7, <1>8 DEF ShowingInv

\* An attempt that fails to render loses a receipt it overwrites.
LEMMA RenderFailsShowing ==
  ASSUME NEW s \in Slots, KioskInv, ShowingInv, RenderFails(s)
  PROVE  ShowingInv'
<1> AgentType /\ MachineType
  BY DEF KioskInv
<1>1. /\ UNCHANGED <<pc, attempt, shown, painted, seen>>
      /\ lost' = lost \cup Overwritten
  BY DEF RenderFails, memory
<1>2. /\ lost \subseteq lost'
      /\ Persisted(attempt.ann) /\ pc = "wait" /\ result' # result
         /\ result = [id |-> attempt.id, status |-> "rendered"] => attempt.ann \in lost'
  BY <1>1 DEF Overwritten, Unrecorded
<1>3. \A t \in Slots : Calm(t)
  <2>1. CASE Ends(s)
    BY <2>1, EndsCalm
  <2>2. CASE process' = [process EXCEPT ![s].st = "blank"]
    BY <2>2, GetsOn DEF RenderFails, Calm
  <2> QED
    BY <2>1, <2>2 DEF RenderFails
<1>4. ScriptInv'
  BY <1>1, <1>3, CalmScripts DEF ShowingInv
<1>5. HeardInv' /\ SeenInv'
  BY <1>1, <1>2 DEF ShowingInv, HeardInv, SeenInv, Credit, Persisted, Limit
<1> QED
  BY <1>4, <1>5 DEF ShowingInv

\* An attempt that is over, and what it showed recorded or lost.
LEMMA OverShowing ==
  ASSUME KioskInv, ShowingInv,
         AttemptFails \/ RecordFails \/ recordAnnouncementShown \/ AgentDies
  PROVE  ShowingInv'
<1> AgentType /\ MachineType /\ ReceiptInv
  BY DEF KioskInv
<1>1. /\ pc' # "wait" /\ attempt' = NoAttempt /\ painted' = FALSE
      /\ UNCHANGED <<seen, process>>
  BY DEF AttemptFails, RecordFails, recordAnnouncementShown, AgentDies, recordDisplayAttemptFailed
<1>2. ASSUME NEW a \in Announcements, Persisted(a), a \notin lost'
      PROVE  seen[a] <= shown'[a]
  <2>1. lost \subseteq lost' => seen[a] <= shown[a] + Credit(a)
    BY <1>2 DEF ShowingInv, SeenInv
  <2>2. shown[a] \in Nat /\ seen[a] \in Nat /\ Credit(a) \in {0, 1}
    BY DEF AgentType, ShowingInv, SeenInv, Credit
  <2>3. CASE AttemptFails
    <3>1. lost' = lost /\ shown' = shown /\ pc = "wait" /\ readOverlayReceipt # "rendered"
      BY <2>3 DEF AttemptFails, files
    <3>2. result # [id |-> attempt.id, status |-> "rendered"]
      BY <3>1 DEF readOverlayReceipt
    <3>3. Credit(a) = 0
      BY <1>2, <3>1, <3>2 DEF ShowingInv, HeardInv, Credit
    <3> QED
      BY <2>1, <2>2, <3>1, <3>3
  <2>4. CASE RecordFails
    <3>1. lost' = lost \cup {attempt.ann} /\ shown' = shown
      BY <2>4 DEF RecordFails, files
    <3>2. Credit(a) = 0
      BY <1>2, <3>1 DEF Credit
    <3> QED
      BY <2>1, <2>2, <3>1, <3>2
  <2>5. CASE recordAnnouncementShown
    <3>1. lost' = lost /\ (a # attempt.ann => Credit(a) = 0)
      BY <2>5 DEF recordAnnouncementShown, Credit
    <3>2. shown'[a] = IF a = attempt.ann THEN shown[a] + 1 ELSE shown[a]
      <4>1. shown \in [Announcements -> Nat]
        BY DEF AgentType
      <4> QED
        BY <1>2, <2>5, <4>1 DEF recordAnnouncementShown
    <3> QED
      BY <2>1, <2>2, <3>1, <3>2
  <2>6. CASE AgentDies
    <3>1. lost' # Unrecorded(Announcements)
      BY <1>2 DEF Unrecorded
    <3>2. shown' = shown /\ lost' = lost \cup Unrecorded(IF painted THEN {attempt.ann} ELSE {})
      BY <2>6, <3>1 DEF AgentDies
    <3>3. Credit(a) = 0
      BY <1>2, <3>2 DEF Credit, Unrecorded
    <3> QED
      BY <2>1, <2>2, <3>2, <3>3
  <2> QED
    BY <2>3, <2>4, <2>5, <2>6
<1>3. \A a \in Announcements : Credit(a)' = 0
  BY <1>1 DEF Credit
<1>4. shown' \in [Announcements -> Nat] /\ seen \in [Announcements -> Nat]
  BY AgentSteps DEF Next, Cycle, AgentType, ShowingInv, SeenInv
<1>5. SeenInv'
  BY <1>1, <1>2, <1>3, <1>4 DEF ShowingInv, SeenInv, Persisted, Limit
<1>6. ScriptInv'
  BY <1>1 DEF ShowingInv, ScriptInv, ScriptOf
<1> QED
  BY <1>1, <1>5, <1>6 DEF ShowingInv, HeardInv

\* Every step keeps the account of what was seen.
LEMMA ShowingSteps ==
  ASSUME Counted, KioskInv, ShowingInv, [Next]_vars
  PROVE  ShowingInv'
<1> USE DEF memory, files, history
<1> AgentType /\ MachineType
  BY DEF KioskInv
<1>1. CASE Dispatch
  BY <1>1, DispatchShowing
<1>2. ASSUME NEW s \in Slots, Paint(s) PROVE ShowingInv'
  BY <1>2, PaintShowing
<1>3. ASSUME NEW s \in Slots, RenderFails(s) PROVE ShowingInv'
  BY <1>3, RenderFailsShowing
<1>4. CASE AttemptFails \/ RecordFails \/ recordAnnouncementShown \/ AgentDies
  BY <1>4, OverShowing
<1>5. ASSUME NEW s \in Slots, Start(s) PROVE ShowingInv'
  <2>1. \A t \in Slots : Calm(t)
    BY <1>5, GetsOn DEF Start, Calm
  <2> QED
    BY <1>5, <2>1, ShowingFrame DEF Start
<1>6. ASSUME NEW s \in Slots, Dismiss(s) PROVE ShowingInv'
  <2>1. \A t \in Slots : Calm(t)
    BY <1>6, EndsCalm DEF Dismiss
  <2> QED
    BY <1>6, <2>1, ShowingFrame DEF Dismiss
<1>7. CASE Logoff
  <2>1. \A t \in Slots : Calm(t)
    BY <1>7 DEF Logoff, NoProcess, Calm
  <2> QED
    BY <1>7, <2>1, ShowingFrame DEF Logoff
<1>8. CASE \/ Unreachable \/ runStatusSync \/ fetchActiveAnnouncements \/ PollFails \/ CycleEnds
           \/ Skip \/ ReceiptRendered \/ Logon \/ LockAges \/ SetEnabled \/ UNCHANGED vars
  <2>1. /\ UNCHANGED <<attempt, painted, shown, seen, lost, result, process>>
        /\ pc' = "wait" => pc = "wait"
    BY <1>8 DEF Unreachable, runStatusSync, fetchActiveAnnouncements, PollFails, CycleEnds, Skip,
         ReceiptRendered, Logon, LockAges, SetEnabled, vars
  <2>2. \A t \in Slots : Calm(t)
    BY <2>1 DEF Calm
  <2> QED
    BY <2>1, <2>2, ShowingFrame
<1> QED
  BY <1>1, <1>2, <1>3, <1>4, <1>5, <1>6, <1>7, <1>8 DEF Next, Cycle

\* An announcement that was on the screen as often as its policy allows is dispatched again only
\* if a showing of it went unrecorded (announcement-state.ts:98), as long as there is one overlay
\* process at a time or no policy shows an announcement more than once.
THEOREM ShownNoMoreThanAllowed ==
  ASSUME Counted
  PROVE  LiveSpec => NoShowingTooMany
<1>1. Init => ShowingInv
  <2> SUFFICES ASSUME Init PROVE ShowingInv
    OBVIOUS
  <2>1. ScriptInv
    BY DEF Init, ScriptInv, ScriptOf, NoProcess
  <2>2. \A a \in Announcements : Limit(a) \in Nat
    BY FeedAssumption DEF Limit
  <2> QED
    BY <2>1, <2>2 DEF Init, ShowingInv, HeardInv, SeenInv, Credit
<1>2. ASSUME KioskInv, ShowingInv, [Next]_vars,
             NEW a \in Announcements, Dispatched(a), Persisted(a), a \notin lost
      PROVE  seen[a] < Limit(a)
  <2>1. Dispatch
    BY <1>2, OnlyDispatch
  <2>2. a = Head(todo)
    <3>1. Head(todo) # a => tries'[a] = tries[a]
      BY <2>1 DEF Dispatch, KioskInv, BudgetInv
    <3> QED
      BY <1>2, <3>1 DEF Dispatched, KioskInv, BudgetInv
  <2>3. shown[a] < Limit(a)
    BY <1>2, <2>1, <2>2 DEF Dispatch, shouldShowAnnouncement
  <2>4. ~painted
    BY <1>2, <2>1 DEF Dispatch, KioskInv, AgentType
  <2>5. seen[a] <= shown[a] /\ seen[a] \in Nat /\ shown[a] \in Nat
    BY <1>2, <2>4 DEF ShowingInv, SeenInv, Credit, KioskInv, AgentType
  <2>6. Limit(a) \in Nat
    BY FeedAssumption DEF Limit
  <2> QED
    BY <2>3, <2>5, <2>6
<1>3. KioskInv /\ ShowingInv /\ [Next]_vars
        => [\A a \in Announcements :
              Dispatched(a) /\ Persisted(a) => seen[a] < Limit(a) \/ a \in lost]_vars
  BY <1>2
<1>4. KioskInv /\ ShowingInv /\ [Next]_vars => ShowingInv'
  BY ShowingSteps
<1> QED
  BY <1>1, <1>3, <1>4, KioskInvariant, PTL DEF LiveSpec, Spec, NoShowingTooMany
=============================================================================
