------------------------------ MODULE SetupFlow ------------------------------
(***************************************************************************)
(* The guided steps of store setup                                         *)
(* (apps/extension/src/lib/setup-flow.ts, setup-test.ts,                   *)
(* setup-template.ts): the admin points at the parts of a checkout, the    *)
(* panel learns from a made-up and from a working code, tests the recipe   *)
(* and sends it.                                                           *)
(*                                                                         *)
(* Progress lives in the panel and is sent to the service worker after     *)
(* every change; a page load ends the panel, and the next one carries on   *)
(* from what the worker holds.  The flow waits for each save, but the page *)
(* may be gone before it arrives.                                          *)
(*                                                                         *)
(* A chosen part is the number of an element, 0 for none: the first one    *)
(* chosen for the part is 1, and 2 is another.  Choices the panel rejects  *)
(* or the admin cancels leave the screen as it was and are not steps.      *)
(***************************************************************************)
EXTENDS Naturals, FiniteSets

CONSTANTS
  MaxRedo,  \* how many parts are ever chosen anew
  MaxLoads, \* page loads and stops
  None

ASSUME BoundsAssumption == MaxRedo \in Nat /\ MaxLoads \in Nat

Key == {"revealLink", "promoField", "applyButton", "cartTotal", "failureMessage",
        "successMessage", "removeControl"}
Element == 1..2

VARIABLES
  progress, \* SetupProgress in the panel
  saved,    \* the copy in the tab's record
  saving,   \* the panel waits for its save
  pc,       \* where the flow is
  key,      \* the part the current pickStep asks for
  result,   \* the final test's result, local to its step
  proven,   \* the control last seen to restore the total (history)
  anew,     \* the parts that were thrown away and chosen again (history)
  loads     \* how often the page was loaded

vars == <<progress, saved, saving, pc, key, result, proven, anew, loads>>
bounds == <<anew, loads>>

initialProgress ==
  [step |-> 0, pattern |-> FALSE, reveal |-> None, picks |-> [k \in Key |-> 0],
   noFailure |-> FALSE, pendingTest |-> FALSE, pendingReal |-> FALSE, pendingFinal |-> FALSE,
   realCode |-> None, applyMode |-> FALSE, stillApplied |-> FALSE, submitted |-> FALSE]

Progress ==
  [step : 0..8, pattern : BOOLEAN, reveal : {None, "visible", "link"},
   picks : [Key -> {0} \cup Element],
   noFailure : BOOLEAN, pendingTest : BOOLEAN, pendingReal : BOOLEAN, pendingFinal : BOOLEAN,
   realCode : {None, "skipped", "done"}, applyMode : BOOLEAN, stillApplied : BOOLEAN,
   submitted : BOOLEAN]

Recipe == [Key -> {0} \cup Element]

ASSUME NoneAssumption ==
  /\ None \notin {"visible", "link", "skipped", "done"} \cup Key
  /\ None \notin [recipe : Recipe, passed : BOOLEAN]

\* SETUP_STEPS: the screen each step opens with, and the part the picking steps ask for.
SETUP_STEPS == <<"intro", "page", "reveal", "pick", "pick", "pick", "fail", "real", "final">>
StepKey == [s \in {3, 4, 5} |-> CASE s = 3 -> "promoField" [] s = 4 -> "applyButton"
                                  [] s = 5 -> "cartTotal"]

TypeOK ==
  /\ progress \in Progress /\ saved \in Progress /\ saving \in BOOLEAN
  /\ pc \in {"intro", "page", "reveal", "pick", "fail", "real", "final", "enter", "next", "back",
             "goto", "matched", "learn", "testing", "answer", "try", "apply", "judge",
             "confirmSuccess", "confirmRemove", "remove", "ask", "attempt", "result", "sending",
             "stopped"}
  /\ IF pc = "pick" THEN key \in Key ELSE key = None
  /\ result \in {None} \cup [recipe : Recipe, passed : BOOLEAN]
  /\ proven \in {0} \cup Element
  /\ anew \subseteq Key /\ Cardinality(anew) <= MaxRedo /\ loads \in 0..MaxLoads

Init ==
  /\ progress = initialProgress /\ saved = initialProgress /\ saving = FALSE
  /\ pc = "enter" /\ key = None /\ result = None /\ proven = 0
  /\ anew = {} /\ loads = 0

-----------------------------------------------------------------------------
(* The panel's moves *)

At(where) == pc = where /\ ~saving

\* Change progress, save it, and go on once it is saved.
Keep(p, where) ==
  progress' = p /\ saving' = TRUE /\ pc' = where

\* Go on without a save.
Goto(where) ==
  pc' = where /\ UNCHANGED <<progress, saving>>

Pick(p, k, e) == [p EXCEPT !.picks[k] = e]

\* The findings of the working code are chosen anew together.
Findings(k) == IF k = "successMessage" THEN "removeControl" ELSE k

\* An element the admin may choose.
Choice(k) == IF Findings(k) \in anew THEN Element ELSE {1}

ThrowAway(k) ==
  /\ anew' = anew \cup {Findings(k)} /\ Cardinality(anew') <= MaxRedo
  /\ UNCHANGED loads

\* recipeSoFar and buildRecipe need these parts.
HasRecipe(p) ==
  p.pattern /\ \A k \in {"promoField", "applyButton", "cartTotal"} : p.picks[k] # 0

\* buildRecipe: the reveal link and the remove control only where they are used.
buildRecipe(p) ==
  [k \in Key |-> IF \/ k = "revealLink" /\ p.reveal # "link"
                    \/ k = "removeControl" /\ ~p.applyMode
                 THEN 0 ELSE p.picks[k]]

\* The worker stored the progress and answered.
Saved ==
  /\ saving /\ saving' = FALSE
  /\ saved' = progress
  /\ UNCHANGED <<progress, pc, key, result, proven, bounds>>

\* A step begins.
Enter ==
  /\ At("enter")
  /\ Goto(SETUP_STEPS[progress.step + 1])
  /\ key' = IF progress.step \in {3, 4, 5} THEN StepKey[progress.step] ELSE None
  /\ UNCHANGED <<saved, result, proven, bounds>>

\* The step for the first part the template couldn't fill in.
FirstStepToDo(p) ==
  IF ~p.pattern THEN 1
  ELSE IF p.reveal = None THEN 2
  ELSE IF p.picks["promoField"] = 0 THEN 3
  ELSE IF p.picks["applyButton"] = 0 THEN 4
  ELSE IF p.picks["cartTotal"] = 0 THEN 5
  ELSE 6

\* Seeded fault of StepResult: the final test's result is remembered across steps.
StepResult_KeepsResult ==
  /\ pc \in {"next", "back", "goto"} /\ ~saving
  /\ LET n == CASE pc = "next" -> progress.step + 1
                [] pc = "back" -> IF progress.step = 0 THEN 0 ELSE progress.step - 1
                [] pc = "goto" -> FirstStepToDo(progress)
     IN Keep([progress EXCEPT !.step = IF n > 8 THEN 8 ELSE n], "enter")
  /\ UNCHANGED <<saved, key, result, proven, bounds>>

\* runSetupFlow moves on; what was local to the step is gone.
StepResult ==
  /\ pc \in {"next", "back", "goto"} /\ ~saving
  /\ LET n == CASE pc = "next" -> progress.step + 1
                [] pc = "back" -> IF progress.step = 0 THEN 0 ELSE progress.step - 1
                [] pc = "goto" -> FirstStepToDo(progress)
     IN Keep([progress EXCEPT !.step = IF n > 8 THEN 8 ELSE n], "enter")
  /\ result' = None
  /\ UNCHANGED <<saved, key, proven, bounds>>

\* The page is loaded again: a new panel starts from the saved progress.  A save on its way
\* arrives first or is lost with the page.
Reload ==
  /\ pc # "stopped" /\ loads < MaxLoads
  /\ \E p \in {saved} \cup (IF saving THEN {progress} ELSE {}) : saved' = p /\ progress' = p
  /\ saving' = FALSE /\ pc' = "enter" /\ key' = None /\ result' = None
  /\ loads' = loads + 1
  /\ UNCHANGED <<proven, anew>>

\* Setup ends on the tab and its record goes; the extension's popup can start it anew.
Stopped ==
  /\ saved' = initialProgress /\ progress' = initialProgress
  /\ saving' = FALSE /\ pc' = "stopped" /\ key' = None /\ result' = None
  /\ UNCHANGED <<proven, bounds>>

\* The panel's close button, at any moment.
Stop == pc # "stopped" /\ Stopped

Start ==
  /\ pc = "stopped" /\ loads < MaxLoads
  /\ pc' = "enter" /\ loads' = loads + 1
  /\ UNCHANGED <<progress, saved, saving, key, result, proven, anew>>

-----------------------------------------------------------------------------
(* One "click this part" step, pickStep *)

\* A pick ends: the question it came from, the next finding, or on through the steps.
PickDone(how) ==
  /\ pc' = CASE key = "revealLink"    -> IF how = "next" THEN "next" ELSE "reveal"
             [] key = "successMessage" -> "confirmRemove"
             [] key = "removeControl"  -> "remove"
             [] OTHER                  -> how
  /\ key' = None
  /\ UNCHANGED <<progress, saving, saved, result, proven, bounds>>

\* Continue, once something is chosen; Back, always.
PickNext == At("pick") /\ progress.picks[key] # 0 /\ PickDone("next")
PickBack == At("pick") /\ PickDone("back")

\* The admin clicks an element, or accepts the suggested one.
PickOne ==
  /\ At("pick") /\ progress.picks[key] = 0
  /\ \E e \in Choice(key) : Keep(Pick(progress, key, e), "pick")
  /\ UNCHANGED <<saved, key, result, proven, bounds>>

\* Choose again.
PickRedo ==
  /\ At("pick") /\ progress.picks[key] # 0
  /\ ThrowAway(key)
  /\ Keep(Pick(progress, key, 0), "pick")
  /\ UNCHANGED <<saved, key, result, proven>>

PickStep == PickNext \/ PickBack \/ PickOne \/ PickRedo

-----------------------------------------------------------------------------
(* Introduction, checkout page and promo link *)

Rest == UNCHANGED <<saved, key, result, proven, bounds>>

\* What a platform's template may recognise: the link and the box together, the apply button
\* only next to a box.
TemplateMatch ==
  {m \in [pattern : BOOLEAN, reveal : {None, "visible", "link"}, button : BOOLEAN,
          total : BOOLEAN] : m.button => m.reveal # None}

\* Start: only a setup not yet begun is filled in from the platform's template.
IntroStart ==
  /\ At("intro")
  /\ \/ Goto("next")
     \/ /\ ~progress.pattern /\ \A k \in Key : progress.picks[k] = 0
        /\ \E m \in TemplateMatch :
             Keep([progress EXCEPT
                     !.pattern = m.pattern, !.reveal = m.reveal,
                     !.picks = [k \in Key |->
                       IF \/ k = "promoField" /\ m.reveal # None
                          \/ k = "revealLink" /\ m.reveal = "link"
                          \/ k = "applyButton" /\ m.button
                          \/ k = "cartTotal" /\ m.total
                       THEN 1 ELSE 0]], "matched")
  /\ Rest

IntroContinue == At("matched") /\ Goto("goto") /\ Rest

\* "Set it up by clicking instead".
IntroManual ==
  /\ At("matched")
  /\ Keep([progress EXCEPT !.pattern = FALSE, !.reveal = None, !.picks = [k \in Key |-> 0]],
          "next")
  /\ Rest

PageStep ==
  /\ At("page")
  /\ \/ Goto("back")
     \/ Keep([progress EXCEPT !.pattern = TRUE], "next")
  /\ Rest

RevealVisible ==
  /\ At("reveal")
  /\ \/ Goto("back")
     \/ Keep([progress EXCEPT !.reveal = "visible", !.picks["revealLink"] = 0], "next")
  /\ Rest

RevealLink ==
  /\ At("reveal")
  /\ Keep([progress EXCEPT !.reveal = "link"], "pick")
  /\ key' = "revealLink"
  /\ UNCHANGED <<saved, result, proven, bounds>>

IntroSteps ==
  IntroStart \/ IntroContinue \/ IntroManual \/ PageStep \/ RevealVisible \/ RevealLink

-----------------------------------------------------------------------------
(* The message for a rejected code *)

Chosen == progress.picks["failureMessage"] # 0

\* A message is chosen, or the admin went on without one.
FailShown ==
  /\ At("fail") /\ (Chosen \/ progress.noFailure)
  /\ \E how \in {"next", "back"} : Goto(how)
  /\ Rest

\* Test again.
FailAgain ==
  /\ At("fail") /\ (Chosen \/ progress.noFailure)
  /\ ThrowAway("failureMessage")
  /\ Keep(IF Chosen THEN Pick(progress, "failureMessage", 0)
          ELSE [progress EXCEPT !.noFailure = FALSE], "fail")
  /\ UNCHANGED <<saved, key, result, proven>>

\* A marker of a test code submitted just now: the page was loaded to answer it.  An older
\* one is dropped.
FailLook ==
  /\ At("fail") /\ ~Chosen /\ ~progress.noFailure
  /\ IF ~HasRecipe(progress) THEN Goto("back")
     ELSE \/ /\ progress.pendingTest
             /\ Keep([progress EXCEPT !.pendingTest = FALSE], "answer")
          \/ /\ progress' = [progress EXCEPT !.pendingTest = FALSE]
             /\ pc' = "learn" /\ UNCHANGED saving
  /\ Rest

\* Seeded fault of TryTestCode: the code is submitted without waiting for the save.
TryTestCode_NoWait ==
  /\ At("learn")
  /\ \/ Goto("back")
     \/ /\ progress' = [progress EXCEPT !.pendingTest = TRUE]
        /\ pc' = "testing" /\ UNCHANGED saving
  /\ Rest

\* Try a test code: remembered first, then typed in and submitted.
TryTestCode ==
  /\ At("learn")
  /\ \/ Goto("back")
     \/ Keep([progress EXCEPT !.pendingTest = TRUE], "testing")
  /\ Rest

\* The store answered, or the test could not be made.
TestAnswered ==
  /\ At("testing")
  /\ \E where \in {"answer", "fail"} : Keep([progress EXCEPT !.pendingTest = FALSE], where)
  /\ Rest

\* The best candidate accepted, or tried again; without one, skipped.
FailAnswer ==
  /\ At("answer")
  /\ \/ \E e \in Choice("failureMessage") : Keep(Pick(progress, "failureMessage", e), "fail")
     \/ Goto("fail")
     \/ Keep([progress EXCEPT !.noFailure = TRUE], "fail")
  /\ Rest

\* The admin points at the message.
FailPick ==
  /\ At("answer")
  /\ Goto("pick") /\ key' = "failureMessage"
  /\ UNCHANGED <<saved, result, proven, bounds>>

FailSteps ==
  FailShown \/ FailAgain \/ FailLook \/ TryTestCode \/ TestAnswered \/ FailAnswer \/ FailPick

-----------------------------------------------------------------------------
(* A working code, and how it is removed *)

RealShown ==
  /\ At("real") /\ progress.realCode # None
  /\ \E how \in {"next", "back"} : Goto(how)
  /\ Rest

\* Seeded fault of RealAgain: whether codes can be removed is not forgotten.
RealAgain_KeepsMode ==
  /\ At("real") /\ progress.realCode # None
  /\ ThrowAway("removeControl")
  /\ Keep([progress EXCEPT !.realCode = None, !.stillApplied = FALSE,
                           !.picks["successMessage"] = 0, !.picks["removeControl"] = 0], "real")
  /\ UNCHANGED <<saved, key, result, proven>>

\* Try a code again: everything learned from the last is forgotten.
RealAgain ==
  /\ At("real") /\ progress.realCode # None
  /\ ThrowAway("removeControl")
  /\ Keep([progress EXCEPT !.realCode = None, !.applyMode = FALSE, !.stillApplied = FALSE,
                           !.picks["successMessage"] = 0, !.picks["removeControl"] = 0], "real")
  /\ UNCHANGED <<saved, key, result, proven>>

\* A code the admin was applying when the page was loaded is judged on this page, unless it
\* is long ago.
RealLook ==
  /\ At("real") /\ progress.realCode = None
  /\ IF ~HasRecipe(progress) THEN Goto("back")
     ELSE \/ progress.pendingReal /\ Goto("judge")
          \/ /\ progress' = [progress EXCEPT !.pendingReal = FALSE]
             /\ pc' = "try" /\ UNCHANGED saving
  /\ Rest

\* Skip; or start, once the order total before can be read.
RealTry ==
  /\ At("try")
  /\ \/ Goto("back") \/ Goto("real")
     \/ Keep([progress EXCEPT !.realCode = "skipped"], "real")
     \/ Keep([progress EXCEPT !.pendingReal = TRUE], "apply")
  /\ Rest

\* The admin has applied the code, or cancels.
RealApplied ==
  /\ At("apply")
  /\ \/ Goto("judge")
     \/ Keep([progress EXCEPT !.pendingReal = FALSE], "real")
  /\ Rest

\* The total went down, or it did not.
RealJudge ==
  /\ At("judge")
  /\ \E where \in {"confirmSuccess", "real"} :
       Keep([progress EXCEPT !.pendingReal = FALSE], where)
  /\ Rest

\* confirmFinding: the best candidate, one the admin points at, or none.
ConfirmFinding(k, next) ==
  \/ /\ \/ \E e \in Choice(k) : Keep(Pick(progress, k, e), next)
        \/ Goto(next)
     /\ Rest
  \/ /\ Goto("pick") /\ key' = k
     /\ UNCHANGED <<saved, result, proven, bounds>>

RealConfirm ==
  \/ At("confirmSuccess") /\ ConfirmFinding("successMessage", "confirmRemove")
  \/ At("confirmRemove") /\ ConfirmFinding("removeControl", "remove")

\* resetCart: only a removal seen to restore the total counts.
RealRemove ==
  LET e == progress.picks["removeControl"] IN
  /\ At("remove")
  /\ \/ /\ e # 0
        /\ proven' = e
        /\ Keep([progress EXCEPT !.applyMode = TRUE, !.stillApplied = FALSE,
                                 !.realCode = "done"], "real")
     \/ /\ Keep([progress EXCEPT !.applyMode = FALSE, !.stillApplied = TRUE,
                                 !.realCode = "done", !.picks["removeControl"] = 0], "real")
        /\ UNCHANGED proven
  /\ UNCHANGED <<saved, key, result, bounds>>

RealSteps ==
  RealShown \/ RealAgain \/ RealLook \/ RealTry \/ RealApplied \/ RealJudge \/ RealConfirm
    \/ RealRemove

-----------------------------------------------------------------------------
(* The final test, and sending *)

Result(passed) == [recipe |-> buildRecipe(progress), passed |-> passed]

\* The draft has been sent: test and send again, or back.
SentShown ==
  /\ At("final") /\ HasRecipe(progress) /\ progress.submitted
  /\ \/ Goto("back") /\ UNCHANGED result
     \/ Keep([progress EXCEPT !.submitted = FALSE], "final") /\ result' = None
  /\ UNCHANGED <<saved, key, proven, bounds>>

\* What the step shows: the result there is; a failed one, when a test was cut short just
\* now by a page load; otherwise the question.
FinalLook ==
  /\ At("final") /\ ~(HasRecipe(progress) /\ progress.submitted)
  /\ IF ~HasRecipe(progress) THEN Goto("back") /\ UNCHANGED result
     ELSE IF result # None THEN Goto("result") /\ UNCHANGED result
     ELSE \/ /\ progress.pendingFinal
             /\ Keep([progress EXCEPT !.pendingFinal = FALSE], "result")
             /\ result' = Result(FALSE)
          \/ /\ progress' = [progress EXCEPT !.pendingFinal = FALSE]
             /\ pc' = "ask" /\ UNCHANGED <<saving, result>>
  /\ UNCHANGED <<saved, key, proven, bounds>>

\* runFinalTest up to the attempt: the test code is only submitted when there is a message
\* to recognise and the box and button are usable.
RunTest ==
  /\ At("ask")
  /\ \/ Goto("back") /\ UNCHANGED result
     \/ Goto("result") /\ result' = Result(FALSE)
     \/ /\ progress.picks["failureMessage"] # 0
        /\ Keep([progress EXCEPT !.pendingFinal = TRUE], "attempt")
        /\ UNCHANGED result
  /\ UNCHANGED <<saved, key, proven, bounds>>

\* The attempt is over.
TestEnds ==
  /\ At("attempt")
  /\ \E passed \in BOOLEAN : result' = Result(passed)
  /\ Keep([progress EXCEPT !.pendingFinal = FALSE], "result")
  /\ UNCHANGED <<saved, key, proven, bounds>>

\* Send, test again, or back.
ResultShown ==
  /\ At("result")
  /\ \/ Goto("back") /\ UNCHANGED result
     \/ Goto("final") /\ result' = None
     \/ Goto("sending") /\ UNCHANGED result
  /\ UNCHANGED <<saved, key, proven, bounds>>

\* The backend takes the draft, and its answer may be lost.
Submit ==
  /\ At("sending")
  /\ \/ Keep([progress EXCEPT !.submitted = TRUE], "final")
     \/ Goto("final")
  /\ UNCHANGED <<saved, key, result, proven, bounds>>

\* It refuses it, or the session has ended and the panel closes.
SubmitFails ==
  /\ At("sending")
  /\ \/ Goto("final") /\ UNCHANGED <<saved, key, result, proven, bounds>>
     \/ Stopped

FinalSteps ==
  SentShown \/ FinalLook \/ RunTest \/ TestEnds \/ ResultShown \/ Submit \/ SubmitFails

Next ==
  \/ Saved \/ Enter \/ StepResult \/ Reload \/ Stop \/ Start
  \/ PickStep \/ IntroSteps \/ FailSteps \/ RealSteps \/ FinalSteps

Spec == Init /\ [][Next]_vars

-----------------------------------------------------------------------------
(* Properties *)

\* "Comparing codes is only switched on once removing one was seen to restore the total"
\* (setup-test.ts:29): whatever was tried again, interrupted by a page load or gone back over,
\* a recipe that removes codes names the control last seen to do so.
RemovalProven ==
  \A p \in {progress, saved} : buildRecipe(p)["removeControl"] \in {0, proven}

\* What is sent to the dashboard is the recipe its test result is about, although parts can be
\* changed between a test and sending; a passed one has a message for a rejected code.
SentIsTested ==
  pc = "sending" => /\ result.recipe = buildRecipe(progress)
                    /\ result.passed => progress.picks["failureMessage"] # 0

\* While a code is being submitted, which may load the page, the worker already holds the
\* marker that tells the next panel so ("Set before submitting", setup-flow.ts:75).
ReloadRemembered ==
  ~saving => /\ pc = "testing" => saved.pendingTest
             /\ pc = "apply" => saved.pendingReal
             /\ pc = "attempt" => saved.pendingFinal

\* What the steps before step n ask for.
Done(p, n) ==
  /\ n > 1 => p.pattern
  /\ n > 2 => p.reveal # None /\ (p.reveal = "link" => p.picks["revealLink"] # 0)
  /\ n > 3 => p.picks["promoField"] # 0
  /\ n > 4 => p.picks["applyButton"] # 0
  /\ n > 5 => p.picks["cartTotal"] # 0
  /\ n > 6 => p.picks["failureMessage"] # 0 \/ p.noFailure
  /\ n > 7 => p.realCode # None

\* Nobody gets past a step without what it asks for, by any mixture of template, Back, choosing
\* again and page loads: the defensive returns for a missing recipe are never needed.
StepsComplete == \A p \in {progress, saved} : Done(p, p.step)
=============================================================================
