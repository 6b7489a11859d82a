--------------------------- MODULE SetupFlowProofs ---------------------------
(***************************************************************************)
(* Proofs about SetupFlow, for any number of parts chosen anew and of page *)
(* loads.  The saved copy trails the panel's by one save, so each fact is  *)
(* kept for both; a fact about a screen rests on how the flow came there.  *)
(***************************************************************************)
EXTENDS SetupFlow, FiniteSetTheorems, TLAPS

\* Where the flow is in its steps, and what it found out on the way there.
ScreenInv ==
  /\ pc \in {"intro", "matched", "goto"} => progress.step = 0
  /\ pc = "page" => progress.step = 1
  /\ pc = "reveal" => progress.step = 2
  /\ pc \in {"fail", "learn", "testing", "answer"} => progress.step = 6
  /\ pc \in {"real", "try", "apply", "judge", "confirmSuccess", "confirmRemove", "remove"} =>
       progress.step = 7
  /\ pc \in {"final", "ask", "attempt", "result", "sending"} => progress.step = 8
  /\ pc = "pick" =>
       \/ key = "revealLink" /\ progress.step = 2 /\ progress.reveal = "link"
       \/ key = "promoField" /\ progress.step = 3
       \/ key = "applyButton" /\ progress.step = 4
       \/ key = "cartTotal" /\ progress.step = 5
       \/ key = "failureMessage" /\ progress.step = 6
       \/ key \in {"successMessage", "removeControl"} /\ progress.step = 7
            /\ progress.realCode = None
  /\ pc \in {"try", "apply", "judge", "confirmSuccess", "confirmRemove", "remove"} =>
       progress.realCode = None
  /\ pc = "next" => progress.step < 8 /\ Done(progress, progress.step + 1)
  /\ pc \in {"matched", "goto"} /\ progress.reveal = "link" => progress.picks["revealLink"] # 0

\* The save that follows every change that matters: only the pending flags are dropped
\* without one.
SyncInv ==
  /\ ~saving => saved.picks = progress.picks /\ saved.applyMode = progress.applyMode
  /\ pc = "testing" => progress.pendingTest
  /\ pc = "apply" => progress.pendingReal
  /\ pc = "attempt" => progress.pendingFinal

\* Codes are compared only after a working code was removed.
ModeInv == \A p \in {progress, saved} : p.realCode # "done" => ~p.applyMode

\* A result is about the recipe on the screens that show it, and gone anywhere else.
ResultInv ==
  /\ result # None => /\ pc \in {"final", "result", "sending", "back"}
                      /\ result.recipe = buildRecipe(progress)
                      /\ result.passed => progress.picks["failureMessage"] # 0
  /\ pc \in {"result", "sending"} => result # None
  /\ pc = "attempt" => progress.picks["failureMessage"] # 0

FlowInv ==
  /\ TypeOK /\ ScreenInv /\ SyncInv /\ ModeInv /\ ResultInv
  /\ StepsComplete /\ RemovalProven /\ ReloadRemembered

-----------------------------------------------------------------------------
(* What the larger screens do to the progress *)

LEMMA InitialProgress == initialProgress \in Progress
BY DEF initialProgress, Progress, Element

LEMMA ChoiceType ==
  ASSUME NEW k \in Key
  PROVE  Choice(k) \subseteq Element
BY DEF Choice, Element

LEMMA FlagType ==
  ASSUME NEW p \in Progress, NEW b \in BOOLEAN
  PROVE  /\ [p EXCEPT !.pattern = b] \in Progress
         /\ [p EXCEPT !.noFailure = b] \in Progress
         /\ [p EXCEPT !.pendingTest = b] \in Progress
         /\ [p EXCEPT !.pendingReal = b] \in Progress
         /\ [p EXCEPT !.pendingFinal = b] \in Progress
         /\ [p EXCEPT !.submitted = b] \in Progress
BY DEF Progress

LEMMA PickType ==
  ASSUME NEW p \in Progress, NEW k \in Key, NEW e \in {0} \cup Choice(k)
  PROVE  Pick(p, k, e) \in Progress
<1> DEFINE f == [p.picks EXCEPT ![k] = e]
<1>1. f \in [Key -> {0} \cup Element]
  BY ChoiceType DEF Progress
<1>2. Pick(p, k, e) = [p EXCEPT !.picks = f]
  BY DEF Pick
<1> HIDE DEF f
<1> QED
  BY <1>1, <1>2 DEF Progress

LEMMA RecipeType ==
  ASSUME NEW p \in Progress
  PROVE  buildRecipe(p) \in Recipe /\ p.picks["removeControl"] \in {0} \cup Element
BY DEF Progress, Recipe, buildRecipe, Key

LEMMA ResultType ==
  ASSUME TypeOK, NEW passed \in BOOLEAN
  PROVE  Result(passed) \in [recipe : Recipe, passed : BOOLEAN]
BY RecipeType DEF TypeOK, Result

LEMMA FlagRecipe ==
  ASSUME NEW p \in Progress, NEW b \in BOOLEAN
  PROVE  /\ buildRecipe([p EXCEPT !.pendingFinal = b]) = buildRecipe(p)
         /\ buildRecipe([p EXCEPT !.submitted = b]) = buildRecipe(p)
         /\ [p EXCEPT !.pendingFinal = b].picks = p.picks
         /\ [p EXCEPT !.submitted = b].picks = p.picks
         /\ [p EXCEPT !.pendingFinal = b].step = p.step
BY DEF Progress, buildRecipe

LEMMA ThrowAwayType ==
  ASSUME TypeOK, NEW k \in Key, ThrowAway(k)
  PROVE  anew' \subseteq Key /\ Cardinality(anew') <= MaxRedo /\ loads' \in 0..MaxLoads
BY DEF TypeOK, ThrowAway, Findings, Key

LEMMA ScreenNames ==
  ASSUME NEW n \in 0..8
  PROVE  /\ SETUP_STEPS[n + 1] \in {"intro", "page", "reveal", "pick", "fail", "real", "final"}
         /\ SETUP_STEPS[n + 1] = "pick" <=> n \in {3, 4, 5}
         /\ n \in {3, 4, 5} => StepKey[n] \in Key
<1>1. /\ n = 0 => SETUP_STEPS[n + 1] = "intro"
      /\ n = 1 => SETUP_STEPS[n + 1] = "page"
      /\ n = 2 => SETUP_STEPS[n + 1] = "reveal"
      /\ n \in {3, 4, 5} => SETUP_STEPS[n + 1] = "pick"
      /\ n = 6 => SETUP_STEPS[n + 1] = "fail"
      /\ n = 7 => SETUP_STEPS[n + 1] = "real"
      /\ n = 8 => SETUP_STEPS[n + 1] = "final"
  BY DEF SETUP_STEPS
<1>2. n \in {3, 4, 5} => StepKey[n] \in Key
  BY DEF StepKey, Key
<1> QED
  BY <1>1, <1>2

\* "Visible": no link is kept.
LEMMA RevealEffect ==
  ASSUME FlowInv, RevealVisible
  PROVE  /\ progress' \in Progress /\ progress'.step = 2 /\ progress'.pattern = progress.pattern
         /\ progress'.realCode = progress.realCode /\ progress'.applyMode = progress.applyMode
         /\ \A k \in Key \ {"revealLink"} : progress'.picks[k] = progress.picks[k]
         /\ \/ UNCHANGED <<progress, saving>> /\ pc' = "back"
            \/ progress'.reveal = "visible" /\ pc' = "next" /\ saving'
<1> DEFINE f == [progress.picks EXCEPT !["revealLink"] = 0]
<1>1. /\ progress \in Progress /\ progress.step = 2 /\ f \in [Key -> {0} \cup Element]
      /\ \A k \in Key \ {"revealLink"} : f[k] = progress.picks[k]
  BY DEF FlowInv, TypeOK, ScreenInv, RevealVisible, At, Progress
<1>2. CASE /\ progress' = [progress EXCEPT !.reveal = "visible", !.picks = f]
           /\ saving' /\ pc' = "next"
  <2> HIDE DEF f
  <2> QED
    BY <1>1, <1>2 DEF Progress
<1>3. CASE UNCHANGED <<progress, saving>> /\ pc' = "back"
  BY <1>1, <1>3
<1> QED
  BY <1>2, <1>3 DEF RevealVisible, Keep, Goto

\* The template fills in the link together with the box, and no removal.
LEMMA TemplateEffect ==
  ASSUME FlowInv, IntroStart
  PROVE  /\ progress' \in Progress /\ progress'.step = 0
         /\ progress'.realCode = progress.realCode /\ progress'.applyMode = progress.applyMode
         /\ \/ UNCHANGED <<progress, saving>> /\ pc' = "next"
            \/ /\ progress'.picks["removeControl"] = 0 /\ pc' = "matched" /\ saving'
               /\ progress'.reveal = "link" => progress'.picks["revealLink"] # 0
<1> DEFINE f(m) == [k \in Key |-> IF \/ k = "promoField" /\ m.reveal # None
                                     \/ k = "revealLink" /\ m.reveal = "link"
                                     \/ k = "applyButton" /\ m.button
                                     \/ k = "cartTotal" /\ m.total
                                  THEN 1 ELSE 0]
           filled(m) == [progress EXCEPT !.pattern = m.pattern, !.reveal = m.reveal,
                                         !.picks = f(m)]
<1>1. progress \in Progress /\ progress.step = 0
  BY DEF FlowInv, TypeOK, ScreenInv, IntroStart, At
<1>2. CASE \E m \in TemplateMatch : Keep(filled(m), "matched")
  <2>1. PICK m \in TemplateMatch : Keep(filled(m), "matched")
    BY <1>2
  <2> DEFINE picks == f(m)
  <2>2. /\ picks \in [Key -> {0} \cup Element] /\ picks["removeControl"] = 0
        /\ m.reveal = "link" => picks["revealLink"] = 1
    BY DEF Key, Element
  <2>3. /\ progress' = [progress EXCEPT !.pattern = m.pattern, !.reveal = m.reveal,
                                        !.picks = picks]
        /\ saving' /\ pc' = "matched"
    BY <2>1 DEF Keep
  <2>4. m.pattern \in BOOLEAN /\ m.reveal \in {None, "visible", "link"}
    BY DEF TemplateMatch
  <2> HIDE DEF f, picks
  <2>5. progress' \in Progress
    BY <1>1, <2>2, <2>3, <2>4 DEF Progress
  <2>6. /\ progress'.step = 0 /\ progress'.realCode = progress.realCode
        /\ progress'.applyMode = progress.applyMode
        /\ progress'.picks = picks /\ progress'.reveal = m.reveal
    BY <1>1, <2>3 DEF Progress
  <2> QED
    BY <2>2, <2>3, <2>5, <2>6
<1>3. CASE Goto("next")
  BY <1>1, <1>3 DEF Goto
<1> QED
  BY <1>2, <1>3 DEF IntroStart

\* Setting up by clicking forgets the template.
LEMMA ManualEffect ==
  ASSUME FlowInv, IntroManual
  PROVE  /\ progress' \in Progress /\ progress'.step = 0
         /\ progress'.realCode = progress.realCode /\ progress'.applyMode = progress.applyMode
         /\ progress'.picks["removeControl"] = 0 /\ pc' = "next" /\ saving'
<1> DEFINE f == [k \in Key |-> 0]
<1>1. progress \in Progress /\ progress.step = 0 /\ f \in [Key -> {0} \cup Element]
      /\ f["removeControl"] = 0
  BY DEF FlowInv, TypeOK, ScreenInv, IntroManual, At, Key
<1>2. /\ progress' = [progress EXCEPT !.pattern = FALSE, !.reveal = None, !.picks = f]
      /\ saving' /\ pc' = "next"
  BY DEF IntroManual, Keep
<1> HIDE DEF f
<1>3. progress' \in Progress
  BY <1>1, <1>2 DEF Progress
<1>4. /\ progress'.step = 0 /\ progress'.realCode = progress.realCode
      /\ progress'.applyMode = progress.applyMode /\ progress'.picks = f
  BY <1>1, <1>2 DEF Progress
<1> QED
  BY <1>1, <1>2, <1>3, <1>4

\* Trying a code again forgets what the last one showed.
LEMMA AgainEffect ==
  ASSUME FlowInv, RealAgain
  PROVE  /\ progress' \in Progress /\ progress'.step = 7 /\ progress'.pattern = progress.pattern
         /\ progress'.reveal = progress.reveal /\ progress'.noFailure = progress.noFailure
         /\ progress'.realCode = None /\ progress'.applyMode = FALSE
         /\ \A k \in Key \ {"successMessage", "removeControl"} :
              progress'.picks[k] = progress.picks[k]
BY DEF FlowInv, TypeOK, ScreenInv, At, Progress, Key, RealAgain, Keep

\* Codes are only compared when the control chosen was seen to restore the total.
LEMMA RemoveEffect ==
  ASSUME FlowInv, RealRemove
  PROVE  /\ progress' \in Progress /\ progress'.step = 7 /\ progress'.pattern = progress.pattern
         /\ progress'.reveal = progress.reveal /\ progress'.noFailure = progress.noFailure
         /\ progress'.realCode = "done" /\ ~progress.applyMode
         /\ \A k \in Key \ {"removeControl"} : progress'.picks[k] = progress.picks[k]
         /\ progress'.applyMode => progress'.picks["removeControl"] = proven'
<1> DEFINE f == [progress.picks EXCEPT !["removeControl"] = 0]
<1>1. /\ progress \in Progress /\ progress.step = 7 /\ ~progress.applyMode
      /\ f \in [Key -> {0} \cup Element]
      /\ \A k \in Key \ {"removeControl"} : f[k] = progress.picks[k]
  BY NoneAssumption DEF FlowInv, TypeOK, ScreenInv, ModeInv, RealRemove, At, Progress
<1>2. CASE /\ progress' = [progress EXCEPT !.applyMode = TRUE, !.stillApplied = FALSE,
                                           !.realCode = "done"]
           /\ proven' = progress.picks["removeControl"]
  <2>1. progress' \in Progress
    BY <1>1, <1>2 DEF Progress
  <2>2. /\ progress'.step = progress.step /\ progress'.pattern = progress.pattern
        /\ progress'.reveal = progress.reveal /\ progress'.noFailure = progress.noFailure
        /\ progress'.realCode = "done" /\ progress'.picks = progress.picks
    BY <1>1, <1>2 DEF Progress
  <2> QED
    BY <1>1, <1>2, <2>1, <2>2
<1>3. CASE progress' = [progress EXCEPT !.applyMode = FALSE, !.stillApplied = TRUE,
                                        !.realCode = "done", !.picks = f]
  <2> HIDE DEF f
  <2>1. progress' \in Progress /\ progress'.applyMode = FALSE
    BY <1>1, <1>3 DEF Progress
  <2>2. /\ progress'.step = progress.step /\ progress'.pattern = progress.pattern
        /\ progress'.reveal = progress.reveal /\ progress'.noFailure = progress.noFailure
        /\ progress'.realCode = "done" /\ progress'.picks = f
    BY <1>1, <1>3 DEF Progress
  <2> QED
    BY <1>1, <2>1, <2>2
<1> QED
  BY <1>1, <1>2, <1>3 DEF RealRemove, Keep

-----------------------------------------------------------------------------
(* Types *)

\* The panel's progress keeps its shape.
LEMMA ProgressSteps ==
  ASSUME FlowInv, [Next]_vars
  PROVE  progress' \in Progress
<1>1. CASE Saved \/ Enter \/ Start \/ Reload \/ Stop
  BY <1>1, InitialProgress DEF FlowInv, TypeOK, Key, Saved, Enter, At, Goto, Start, Reload,
     Stop, Stopped
<1>2. CASE StepResult
  BY <1>2 DEF FlowInv, TypeOK, Progress, StepResult, FirstStepToDo, Keep
<1>3. CASE PickNext \/ PickBack
  BY <1>3, PickType DEF FlowInv, TypeOK, Key, PickNext, At, PickDone, PickBack
<1>4. CASE PickOne
  <2>1. progress \in Progress /\ key \in Key
    BY <1>4 DEF FlowInv, TypeOK, PickOne, PickRedo, At
  <2>2. \A e \in {0} \cup Choice(key) : Pick(progress, key, e) \in Progress
    BY <2>1, PickType
  <2> QED
    BY <1>4, <2>2 DEF PickOne, PickRedo, Keep
<1>5. CASE PickRedo
  <2>1. progress \in Progress /\ key \in Key
    BY <1>5 DEF FlowInv, TypeOK, PickOne, PickRedo, At
  <2>2. \A e \in {0} \cup Choice(key) : Pick(progress, key, e) \in Progress
    BY <2>1, PickType
  <2> QED
    BY <1>5, <2>2 DEF PickOne, PickRedo, Keep
<1>6. CASE IntroContinue \/ PageStep
  BY <1>6, FlagType DEF FlowInv, TypeOK, Key, IntroContinue, At, Goto, PageStep, Keep
<1>7. CASE IntroStart
  BY <1>7, TemplateEffect
<1>8. CASE IntroManual
  BY <1>8, ManualEffect
<1>9. CASE RevealVisible
  BY <1>9, RevealEffect
<1>10. CASE RevealLink
  BY <1>10 DEF FlowInv, TypeOK, Progress, RevealLink, Keep
<1>11. CASE FailShown \/ FailPick \/ FailLook \/ TryTestCode \/ TestAnswered
  BY <1>11, FlagType, PickType DEF FlowInv, TypeOK, Key, FailShown, At, Goto, FailPick,
     FailLook, Keep, TryTestCode, TestAnswered
<1>12. CASE FailAgain
  <2>1. progress \in Progress /\ "failureMessage" \in Key
    BY DEF FlowInv, TypeOK, Key
  <2>2. \A e \in {0} \cup Choice("failureMessage") :
           Pick(progress, "failureMessage", e) \in Progress
    BY <2>1, PickType
  <2> QED
    BY <1>12, <2>1, <2>2, FlagType DEF FailAgain, FailAnswer, Keep, Goto
<1>13. CASE FailAnswer
  <2>1. progress \in Progress /\ "failureMessage" \in Key
    BY DEF FlowInv, TypeOK, Key
  <2>2. \A e \in {0} \cup Choice("failureMessage") :
           Pick(progress, "failureMessage", e) \in Progress
    BY <2>1, PickType
  <2> QED
    BY <1>13, <2>1, <2>2, FlagType DEF FailAgain, FailAnswer, Keep, Goto
<1>14. CASE RealShown \/ RealLook \/ RealApplied \/ RealJudge
  BY <1>14, FlagType, PickType DEF FlowInv, TypeOK, Key, RealShown, At, Goto, RealLook,
     RealApplied, Keep, RealJudge
<1>15. CASE RealConfirm
  BY <1>15, FlagType, PickType DEF FlowInv, TypeOK, Key, RealConfirm, At, ConfirmFinding,
     Keep, Goto
<1>16. CASE RealAgain
  BY <1>16, AgainEffect
<1>17. CASE RealTry
  <2>1. [progress EXCEPT !.realCode = "skipped"] \in Progress
    BY DEF FlowInv, TypeOK, Progress
  <2> QED
    BY <1>17, <2>1, FlagType DEF FlowInv, TypeOK, RealTry, Keep, Goto
<1>18. CASE RealRemove
  BY <1>18, RemoveEffect
<1>19. CASE FinalSteps
  BY <1>19, FlagType, InitialProgress DEF FlowInv, TypeOK, Key, FinalSteps, SentShown, At,
     Keep, Goto, FinalLook, RunTest, TestEnds, ResultShown, Submit, SubmitFails, Stopped
<1>20. CASE UNCHANGED vars
  BY <1>20 DEF FlowInv, TypeOK, Key, vars, bounds
<1> QED
  BY <1>1, <1>2, <1>3, <1>4, <1>5, <1>6, <1>7, <1>8, <1>9, <1>10, <1>11, <1>12, <1>13, <1>14,
     <1>15, <1>16, <1>17, <1>18, <1>19, <1>20 DEF Next, PickStep, IntroSteps, FailSteps,
     RealSteps, FinalSteps

\* What is saved was the panel's progress.
LEMMA SavedSteps ==
  ASSUME FlowInv, [Next]_vars
  PROVE  saved' \in Progress /\ saving' \in BOOLEAN
<1>1. CASE Saved \/ Enter \/ StepResult \/ Reload \/ Stop \/ Start
  BY <1>1, InitialProgress DEF FlowInv, TypeOK, Saved, bounds, Enter, At, Goto, StepResult,
     Keep, Reload, Stop, Stopped, Start
<1>2. CASE PickStep
  BY <1>2 DEF FlowInv, TypeOK, PickStep, PickNext, At, PickDone, bounds, PickBack, PickOne,
     Keep, PickRedo, ThrowAway
<1>3. CASE IntroSteps
  BY <1>3 DEF FlowInv, TypeOK, IntroSteps, IntroStart, At, Keep, Goto, Rest, bounds,
     IntroContinue, IntroManual, PageStep, RevealVisible, RevealLink
<1>4. CASE FailSteps
  BY <1>4 DEF FlowInv, TypeOK, FailSteps, FailShown, At, Goto, Rest, bounds, FailAgain, Keep,
     ThrowAway, FailLook, TryTestCode, TestAnswered, FailAnswer, FailPick
<1>5. CASE RealSteps
  BY <1>5 DEF FlowInv, TypeOK, RealSteps, RealShown, At, Goto, Rest, bounds, RealAgain, Keep,
     ThrowAway, RealLook, RealTry, RealApplied, RealJudge, RealConfirm, ConfirmFinding,
     RealRemove
<1>6. CASE SentShown \/ FinalLook \/ RunTest
  BY <1>6, InitialProgress DEF FlowInv, TypeOK, SentShown, At, Keep, Goto, bounds, FinalLook,
     RunTest
<1>7. CASE TestEnds \/ ResultShown \/ Submit
  BY <1>7, InitialProgress DEF FlowInv, TypeOK, TestEnds, At, Keep, bounds, ResultShown, Goto,
     Submit
<1>8. CASE SubmitFails
  BY <1>8, InitialProgress DEF FlowInv, TypeOK, SubmitFails, At, Goto, Stopped, bounds
<1>9. CASE UNCHANGED vars
  BY <1>9 DEF FlowInv, TypeOK, vars, bounds
<1> QED
  BY <1>1, <1>2, <1>3, <1>4, <1>5, <1>6, <1>7, <1>8, <1>9 DEF Next, PickStep, IntroSteps,
     FailSteps, RealSteps, FinalSteps

\* The flow is at a screen or between two, and asks for a part only where one is picked.
LEMMA PlaceSteps ==
  ASSUME FlowInv, [Next]_vars
  PROVE  /\ pc' \in {"intro", "page", "reveal", "pick", "fail", "real", "final", "enter", "next",
                 "back", "goto", "matched", "learn", "testing", "answer", "try", "apply", "judge",
                 "confirmSuccess", "confirmRemove", "remove", "ask", "attempt", "result",
                 "sending", "stopped"}
         /\ IF pc' = "pick" THEN key' \in Key ELSE key' = None
<1>1. CASE Saved \/ StepResult \/ Reload \/ Stop \/ Start
  BY <1>1 DEF FlowInv, TypeOK, Key, Saved, bounds, StepResult, Keep, Reload, Stop, Stopped,
     Start
<1>2. CASE Enter
  BY <1>2, ScreenNames DEF FlowInv, TypeOK, Progress, Enter, Goto
<1>3. CASE PickStep
  BY <1>3 DEF FlowInv, TypeOK, Key, PickStep, PickNext, At, PickDone, bounds, PickBack,
     PickOne, Keep, PickRedo, ThrowAway
<1>4. CASE IntroSteps
  BY <1>4 DEF FlowInv, TypeOK, Key, IntroSteps, IntroStart, At, Keep, Goto, Rest, bounds,
     IntroContinue, IntroManual, PageStep, RevealVisible, RevealLink
<1>5. CASE FailSteps
  BY <1>5 DEF FlowInv, TypeOK, Key, FailSteps, FailShown, At, Goto, Rest, bounds, FailAgain,
     Keep, ThrowAway, FailLook, TryTestCode, TestAnswered, FailAnswer, FailPick
<1>6. CASE RealSteps
  BY <1>6 DEF FlowInv, TypeOK, Key, RealSteps, RealShown, At, Goto, Rest, bounds, RealAgain,
     Keep, ThrowAway, RealLook, RealTry, RealApplied, RealJudge, RealConfirm, ConfirmFinding,
     RealRemove
<1>7. CASE FinalSteps
  BY <1>7 DEF FlowInv, TypeOK, Key, FinalSteps, SentShown, At, Keep, Goto, bounds, FinalLook,
     RunTest, TestEnds, ResultShown, Submit, SubmitFails, Stopped
<1>8. CASE UNCHANGED vars
  BY <1>8 DEF FlowInv, TypeOK, Key, vars, bounds
<1> QED
  BY <1>1, <1>2, <1>3, <1>4, <1>5, <1>6, <1>7, <1>8 DEF Next, PickStep, IntroSteps, FailSteps,
     RealSteps, FinalSteps

\* A result is about a recipe.
LEMMA ResultSteps ==
  ASSUME FlowInv, [Next]_vars
  PROVE  result' \in {None} \cup [recipe : Recipe, passed : BOOLEAN]
<1>1. CASE Saved \/ Enter \/ StepResult \/ Reload \/ Stop \/ Start
  BY <1>1 DEF FlowInv, TypeOK, Saved, bounds, Enter, At, Goto, StepResult, Keep, Reload, Stop,
     Stopped, Start
<1>2. CASE PickStep
  BY <1>2 DEF FlowInv, TypeOK, PickStep, PickNext, At, PickDone, bounds, PickBack, PickOne,
     Keep, PickRedo, ThrowAway
<1>3. CASE IntroSteps
  BY <1>3 DEF FlowInv, TypeOK, IntroSteps, IntroStart, At, Keep, Goto, Rest, bounds,
     IntroContinue, IntroManual, PageStep, RevealVisible, RevealLink
<1>4. CASE FailSteps
  BY <1>4 DEF FlowInv, TypeOK, FailSteps, FailShown, At, Goto, Rest, bounds, FailAgain, Keep,
     ThrowAway, FailLook, TryTestCode, TestAnswered, FailAnswer, FailPick
<1>5. CASE RealSteps
  BY <1>5 DEF FlowInv, TypeOK, RealSteps, RealShown, At, Goto, Rest, bounds, RealAgain, Keep,
     ThrowAway, RealLook, RealTry, RealApplied, RealJudge, RealConfirm, ConfirmFinding,
     RealRemove
<1>6. CASE SentShown \/ ResultShown \/ Submit \/ SubmitFails
  BY <1>6 DEF FlowInv, TypeOK, SentShown, At, Keep, Goto, bounds, ResultShown, Submit,
     SubmitFails, Stopped
<1>7. CASE FinalLook
  <2>1. TypeOK
    BY DEF FlowInv
  <2> QED
    BY <1>7, <2>1, ResultType DEF TypeOK, FinalLook, RunTest, TestEnds
<1>8. CASE RunTest
  <2>1. TypeOK
    BY DEF FlowInv
  <2> QED
    BY <1>8, <2>1, ResultType DEF TypeOK, FinalLook, RunTest, TestEnds
<1>9. CASE TestEnds
  <2>1. TypeOK
    BY DEF FlowInv
  <2> QED
    BY <1>9, <2>1, ResultType DEF TypeOK, FinalLook, RunTest, TestEnds
<1>10. CASE UNCHANGED vars
  BY <1>10 DEF FlowInv, TypeOK, vars, bounds
<1> QED
  BY <1>1, <1>2, <1>3, <1>4, <1>5, <1>6, <1>7, <1>8, <1>9, <1>10 DEF Next, PickStep,
     IntroSteps, FailSteps, RealSteps, FinalSteps

\* The history stays within its bounds.
LEMMA HistorySteps ==
  ASSUME FlowInv, [Next]_vars
  PROVE  /\ proven' \in {0} \cup Element /\ anew' \subseteq Key /\ Cardinality(anew') <= MaxRedo
         /\ loads' \in 0..MaxLoads
<1>1. CASE Saved \/ Enter \/ StepResult \/ Reload \/ Stop \/ Start
  BY <1>1, BoundsAssumption DEF FlowInv, TypeOK, Saved, bounds, Enter, At, Goto, StepResult,
     Keep, Reload, Stop, Stopped, Key, Start
<1>2. CASE PickNext \/ PickBack \/ PickOne
  BY <1>2 DEF FlowInv, TypeOK, PickNext, At, PickDone, bounds, PickBack, PickOne, Keep,
     Findings
<1>3. CASE PickRedo
  <2>1. TypeOK /\ key \in Key
    BY <1>3 DEF FlowInv, TypeOK, PickRedo, At
  <2> QED
    BY <1>3, <2>1, ThrowAwayType DEF TypeOK, PickRedo
<1>4. CASE IntroSteps
  BY <1>4 DEF FlowInv, TypeOK, IntroSteps, IntroStart, At, Keep, Goto, Rest, Key, bounds,
     IntroContinue, IntroManual, PageStep, RevealVisible, RevealLink
<1>5. CASE FailShown \/ FailLook \/ TryTestCode \/ TestAnswered \/ FailAnswer \/ FailPick
  BY <1>5 DEF FlowInv, TypeOK, FailShown, At, Goto, Rest, bounds, FailLook, Keep, TryTestCode,
     TestAnswered, FailAnswer, Findings, FailPick
<1>6. CASE FailAgain
  <2>1. TypeOK /\ {"failureMessage", "removeControl"} \subseteq Key
    BY DEF FlowInv, Key
  <2> QED
    BY <1>6, <2>1, ThrowAwayType DEF TypeOK, FailAgain, RealAgain
<1>7. CASE RealShown \/ RealLook \/ RealTry \/ RealApplied \/ RealJudge
  BY <1>7 DEF FlowInv, TypeOK, RealShown, At, Goto, Rest, bounds, RealLook, RealTry, Keep,
     RealApplied, RealJudge
<1>8. CASE RealAgain
  <2>1. TypeOK /\ {"failureMessage", "removeControl"} \subseteq Key
    BY DEF FlowInv, Key
  <2> QED
    BY <1>8, <2>1, ThrowAwayType DEF TypeOK, FailAgain, RealAgain
<1>9. CASE RealConfirm
  BY <1>9 DEF FlowInv, TypeOK, RealConfirm, At, ConfirmFinding, Keep, Goto, Rest, bounds,
     Findings
<1>10. CASE RealRemove
  BY <1>10, RecipeType DEF FlowInv, TypeOK, RealRemove, At, Keep, bounds
<1>11. CASE FinalSteps
  BY <1>11 DEF FlowInv, TypeOK, FinalSteps, SentShown, At, Keep, Goto, bounds, FinalLook, Key,
     RunTest, TestEnds, ResultShown, Submit, SubmitFails, Stopped
<1>12. CASE UNCHANGED vars
  BY <1>12 DEF FlowInv, TypeOK, vars, bounds
<1> QED
  BY <1>1, <1>2, <1>3, <1>4, <1>5, <1>6, <1>7, <1>8, <1>9, <1>10, <1>11, <1>12 DEF Next,
     PickStep, IntroSteps, FailSteps, RealSteps, FinalSteps

LEMMA Types ==
  ASSUME FlowInv, [Next]_vars
  PROVE  TypeOK'
BY ProgressSteps, SavedSteps, PlaceSteps, ResultSteps, HistorySteps DEF TypeOK

-----------------------------------------------------------------------------
(* Screens, saves and results *)

\* A screen is only reached at its step.
LEMMA ScreenSteps ==
  ASSUME FlowInv, [Next]_vars
  PROVE  ScreenInv'
<1>1. CASE Saved \/ Enter \/ StepResult \/ Reload \/ Stop \/ Start
  BY <1>1 DEF FlowInv, TypeOK, Progress, Key, ScreenInv, StepsComplete, Done, Saved, bounds,
     Enter, At, Goto, SETUP_STEPS, StepKey, StepResult, Keep, FirstStepToDo, Reload, Stop,
     Stopped, initialProgress, Start
<1>2. CASE PickBack \/ PickOne \/ PickRedo
  BY <1>2 DEF FlowInv, TypeOK, Progress, Key, ScreenInv, StepsComplete, Done, PickBack, At,
     PickDone, bounds, PickOne, Keep, Pick, Choice, Findings, Element, PickRedo, ThrowAway
<1>3. CASE PickNext
  <2>1. At("pick") /\ progress.picks[key] # 0 /\ PickDone("next")
    BY <1>3 DEF PickNext
  <2>2. CASE key = "revealLink"
    BY <2>1, <2>2, NoneAssumption DEF FlowInv, ScreenInv, StepsComplete, Done, PickDone, At
  <2>3. CASE key \in {"successMessage", "removeControl"}
    BY <2>1, <2>3 DEF FlowInv, ScreenInv, PickDone, At
  <2>4. CASE key \in {"promoField", "applyButton", "cartTotal", "failureMessage"}
    BY <2>1, <2>4 DEF FlowInv, ScreenInv, StepsComplete, Done, PickDone, At
  <2> QED
    BY <2>1, <2>2, <2>3, <2>4 DEF FlowInv, ScreenInv, At
<1>4. CASE IntroContinue \/ PageStep \/ RevealLink
  BY <1>4 DEF FlowInv, TypeOK, Progress, Key, ScreenInv, StepsComplete, Done, IntroContinue,
     At, Goto, Rest, bounds, PageStep, Keep, RevealLink
<1>5. CASE IntroStart
  BY <1>5, TemplateEffect DEF ScreenInv, Done
<1>6. CASE IntroManual
  BY <1>6, ManualEffect DEF ScreenInv, Done
<1>7. CASE RevealVisible
  BY <1>7, RevealEffect, NoneAssumption DEF FlowInv, ScreenInv, StepsComplete, Done,
     RevealVisible, At
<1>8. CASE FailAgain \/ FailLook \/ TryTestCode \/ TestAnswered \/ FailAnswer \/ FailPick
  BY <1>8 DEF FlowInv, TypeOK, Progress, Key, ScreenInv, StepsComplete, Done, FailAgain, At,
     Keep, Pick, ThrowAway, Chosen, Findings, FailLook, Goto, Rest, HasRecipe, bounds,
     TryTestCode, TestAnswered, FailAnswer, Choice, Element, FailPick
<1>9. CASE FailShown
  BY <1>9 DEF FlowInv, TypeOK, Progress, Key, ScreenInv, StepsComplete, Done, FailShown, At,
     Goto, Rest, Chosen, bounds
<1>10. CASE RealLook \/ RealTry \/ RealApplied \/ RealJudge \/ RealConfirm
  BY <1>10 DEF FlowInv, TypeOK, Progress, Key, ScreenInv, StepsComplete, Done, RealLook, At,
     Goto, Rest, HasRecipe, bounds, RealTry, Keep, RealApplied, RealJudge, RealConfirm,
     ConfirmFinding, Pick, Choice, Findings, Element
<1>11. CASE RealShown
  BY <1>11 DEF FlowInv, TypeOK, Progress, Key, ScreenInv, StepsComplete, Done, RealShown, At,
     Goto, Rest, bounds
<1>12. CASE RealAgain
  BY <1>12, AgainEffect DEF FlowInv, TypeOK, Progress, Key, ScreenInv, StepsComplete, Done,
     RealAgain, Keep, Goto, Rest, bounds, At, ThrowAway
<1>13. CASE RealRemove
  BY <1>13, RemoveEffect DEF FlowInv, TypeOK, Progress, Key, ScreenInv, StepsComplete, Done,
     RealRemove, Keep, Goto, Rest, bounds, At, ThrowAway
<1>14. CASE FinalSteps
  BY <1>14 DEF FlowInv, TypeOK, Progress, Key, ScreenInv, StepsComplete, Done, FinalSteps,
     SentShown, At, Keep, Goto, HasRecipe, bounds, FinalLook, Result, buildRecipe, RunTest,
     TestEnds, ResultShown, Submit, SubmitFails, Stopped, initialProgress
<1>15. CASE UNCHANGED vars
  BY <1>15 DEF FlowInv, TypeOK, Progress, Key, ScreenInv, StepsComplete, Done, vars, bounds
<1> QED
  BY <1>1, <1>2, <1>3, <1>4, <1>5, <1>6, <1>7, <1>8, <1>9, <1>10, <1>11, <1>12, <1>13, <1>14,
     <1>15 DEF Next, PickStep, IntroSteps, FailSteps, RealSteps, FinalSteps

\* What is not saved is only a pending flag that was dropped.
LEMMA SyncSteps ==
  ASSUME FlowInv, [Next]_vars
  PROVE  SyncInv'
<1>1. CASE Saved \/ Enter \/ Start
  BY <1>1 DEF FlowInv, TypeOK, Progress, Key, SyncInv, Saved, bounds, Enter, At, Goto,
     SETUP_STEPS, StepKey, Start
<1>2. CASE StepResult
  BY <1>2 DEF FlowInv, TypeOK, Progress, Key, SyncInv, StepResult, Keep, FirstStepToDo, bounds
<1>3. CASE Reload
  BY <1>3 DEF FlowInv, TypeOK, Progress, Key, SyncInv, Reload
<1>4. CASE Stop
  BY <1>4 DEF FlowInv, TypeOK, Progress, Key, SyncInv, Stop, Stopped, bounds, initialProgress
<1>5. CASE PickStep
  BY <1>5 DEF FlowInv, TypeOK, Progress, Key, SyncInv, PickStep, PickNext, At, PickDone,
     bounds, PickBack, PickOne, Keep, Pick, Choice, Findings, Element, PickRedo, ThrowAway
<1>6. CASE IntroSteps
  BY <1>6 DEF FlowInv, TypeOK, Progress, Key, SyncInv, IntroSteps, IntroStart, At, Keep, Goto,
     Rest, TemplateMatch, bounds, IntroContinue, IntroManual, PageStep, RevealVisible, RevealLink
<1>7. CASE FailSteps
  BY <1>7 DEF FlowInv, TypeOK, Progress, Key, SyncInv, FailSteps, FailShown, At, Goto, Rest,
     Chosen, bounds, FailAgain, Keep, Pick, ThrowAway, Findings, FailLook, HasRecipe,
     TryTestCode, TestAnswered, FailAnswer, Choice, Element, FailPick
<1>8. CASE RealSteps
  BY <1>8 DEF FlowInv, TypeOK, Progress, Key, SyncInv, RealSteps, RealShown, At, Goto, Rest,
     bounds, RealAgain, Keep, ThrowAway, Findings, RealLook, HasRecipe, RealTry, RealApplied,
     RealJudge, RealConfirm, ConfirmFinding, Pick, Choice, Element, RealRemove
<1>9. CASE FinalSteps
  BY <1>9 DEF FlowInv, TypeOK, Progress, Key, SyncInv, FinalSteps, SentShown, At, Keep, Goto,
     HasRecipe, bounds, FinalLook, Result, buildRecipe, RunTest, TestEnds, ResultShown, Submit,
     SubmitFails, Stopped, initialProgress
<1>10. CASE UNCHANGED vars
  BY <1>10 DEF FlowInv, TypeOK, Progress, Key, SyncInv, vars, bounds
<1> QED
  BY <1>1, <1>2, <1>3, <1>4, <1>5, <1>6, <1>7, <1>8, <1>9, <1>10 DEF Next, PickStep,
     IntroSteps, FailSteps, RealSteps, FinalSteps

\* Comparing codes is only switched on by a removal.
LEMMA ModeSteps ==
  ASSUME FlowInv, [Next]_vars
  PROVE  ModeInv'
<1>1. CASE Saved \/ Enter \/ StepResult \/ Reload \/ Stop \/ Start
  BY <1>1, NoneAssumption DEF FlowInv, TypeOK, Progress, Key, ModeInv, ScreenInv, Saved,
     bounds, Enter, At, Goto, SETUP_STEPS, StepKey, StepResult, Keep, FirstStepToDo, Reload,
     Stop, Stopped, initialProgress, Start
<1>2. CASE PickStep
  BY <1>2, NoneAssumption DEF FlowInv, TypeOK, Progress, Key, ModeInv, ScreenInv, PickStep,
     PickNext, At, PickDone, bounds, PickBack, PickOne, Keep, Pick, Choice, Findings, Element,
     PickRedo, ThrowAway
<1>3. CASE IntroContinue \/ PageStep \/ RevealLink
  BY <1>3, NoneAssumption DEF FlowInv, TypeOK, Progress, Key, ModeInv, ScreenInv,
     IntroContinue, At, Goto, Rest, bounds, PageStep, Keep, RevealLink
<1>4. CASE IntroStart
  BY <1>4, NoneAssumption, TemplateEffect DEF FlowInv, ModeInv, IntroStart, Rest
<1>5. CASE IntroManual
  BY <1>5, NoneAssumption, ManualEffect DEF FlowInv, ModeInv, IntroManual, Rest
<1>6. CASE RevealVisible
  BY <1>6, NoneAssumption, RevealEffect DEF FlowInv, ModeInv, RevealVisible, Rest
<1>7. CASE FailSteps
  BY <1>7, NoneAssumption DEF FlowInv, TypeOK, Progress, Key, ModeInv, ScreenInv, FailSteps,
     FailShown, At, Goto, Rest, Chosen, bounds, FailAgain, Keep, Pick, ThrowAway, Findings,
     FailLook, HasRecipe, TryTestCode, TestAnswered, FailAnswer, Choice, Element, FailPick
<1>8. CASE RealShown \/ RealLook \/ RealApplied \/ RealJudge \/ RealConfirm
  BY <1>8, NoneAssumption DEF FlowInv, TypeOK, Progress, Key, ModeInv, ScreenInv, RealShown,
     At, Goto, Rest, bounds, RealLook, HasRecipe, RealApplied, Keep, RealJudge, RealConfirm,
     ConfirmFinding, Pick, Choice, Findings, Element
<1>9. CASE RealAgain
  BY <1>9, NoneAssumption, AgainEffect DEF FlowInv, ModeInv, RealAgain
<1>10. CASE RealTry
  BY <1>10, NoneAssumption DEF FlowInv, TypeOK, Progress, Key, ModeInv, ScreenInv, RealTry,
     At, Keep, Goto, Rest, bounds
<1>11. CASE RealRemove
  BY <1>11, NoneAssumption, RemoveEffect DEF FlowInv, ModeInv, RealRemove
<1>12. CASE FinalSteps
  BY <1>12, NoneAssumption DEF FlowInv, TypeOK, Progress, Key, ModeInv, ScreenInv, FinalSteps,
     SentShown, At, Keep, Goto, HasRecipe, bounds, FinalLook, Result, buildRecipe, RunTest,
     TestEnds, ResultShown, Submit, SubmitFails, Stopped, initialProgress
<1>13. CASE UNCHANGED vars
  BY <1>13 DEF FlowInv, TypeOK, Progress, Key, ModeInv, ScreenInv, vars, bounds
<1> QED
  BY <1>1, <1>2, <1>3, <1>4, <1>5, <1>6, <1>7, <1>8, <1>9, <1>10, <1>11, <1>12, <1>13 DEF
     Next, PickStep, IntroSteps, FailSteps, RealSteps, FinalSteps

\* A result goes with the screens that show it.
LEMMA ResultInvSteps ==
  ASSUME FlowInv, [Next]_vars
  PROVE  ResultInv'
<1>1. CASE Saved \/ Enter \/ StepResult \/ Reload \/ Stop \/ Start
  BY <1>1 DEF FlowInv, TypeOK, Progress, Key, ResultInv, ScreenInv, Saved, bounds, Enter, At,
     Goto, SETUP_STEPS, StepKey, StepResult, Keep, FirstStepToDo, Reload, Stop, Stopped,
     initialProgress, Start
<1>2. CASE PickStep
  BY <1>2 DEF FlowInv, TypeOK, Progress, Key, ResultInv, ScreenInv, PickStep, PickNext, At,
     PickDone, bounds, PickBack, PickOne, Keep, Pick, Choice, Findings, Element, PickRedo,
     ThrowAway
<1>3. CASE IntroSteps
  BY <1>3 DEF FlowInv, TypeOK, Progress, Key, ResultInv, ScreenInv, IntroSteps, IntroStart,
     At, Keep, Goto, Rest, TemplateMatch, bounds, IntroContinue, IntroManual, PageStep,
     RevealVisible, RevealLink
<1>4. CASE FailSteps
  BY <1>4 DEF FlowInv, TypeOK, Progress, Key, ResultInv, ScreenInv, FailSteps, FailShown, At,
     Goto, Rest, Chosen, bounds, FailAgain, Keep, Pick, ThrowAway, Findings, FailLook, HasRecipe,
     TryTestCode, TestAnswered, FailAnswer, Choice, Element, FailPick
<1>5. CASE RealSteps
  BY <1>5 DEF FlowInv, TypeOK, Progress, Key, ResultInv, ScreenInv, RealSteps, RealShown, At,
     Goto, Rest, bounds, RealAgain, Keep, ThrowAway, Findings, RealLook, HasRecipe, RealTry,
     RealApplied, RealJudge, RealConfirm, ConfirmFinding, Pick, Choice, Element, RealRemove
<1>6. CASE SentShown \/ ResultShown
  BY <1>6 DEF FlowInv, TypeOK, Progress, Key, ResultInv, ScreenInv, SentShown, At, Keep, Goto,
     HasRecipe, bounds, ResultShown
<1>7. CASE FinalLook
  <2>1. progress \in Progress /\ ResultInv /\ TypeOK
    BY DEF FlowInv, TypeOK
  <2>2. \A b \in BOOLEAN : /\ Result(b) # None /\ Result(b).passed = b
                          /\ Result(b).recipe = buildRecipe(progress)
    BY <2>1, ResultType, NoneAssumption DEF Result
  <2>3. \A b \in BOOLEAN :
          /\ buildRecipe([progress EXCEPT !.pendingFinal = b]) = buildRecipe(progress)
          /\ [progress EXCEPT !.pendingFinal = b].picks = progress.picks
    BY <2>1, FlagRecipe
  <2>4. CASE /\ UNCHANGED <<progress, result>>
             /\ pc' = "back" \/ (pc' = "result" /\ result # None)
    BY <2>1, <2>4 DEF ResultInv
  <2>5. CASE /\ progress' = [progress EXCEPT !.pendingFinal = FALSE]
             /\ pc' = "result" /\ result' = Result(FALSE)
    BY <2>2, <2>3, <2>5 DEF ResultInv
  <2>6. CASE result = None /\ UNCHANGED result /\ pc' = "ask"
    BY <2>6 DEF ResultInv
  <2> QED
    BY <1>7, <2>4, <2>5, <2>6 DEF FinalLook, Keep, Goto
<1>8. CASE RunTest
  <2>1. progress \in Progress /\ ResultInv /\ TypeOK
    BY DEF FlowInv, TypeOK
  <2>2. \A b \in BOOLEAN : /\ Result(b) # None /\ Result(b).passed = b
                          /\ Result(b).recipe = buildRecipe(progress)
    BY <2>1, ResultType, NoneAssumption DEF Result
  <2>3. \A b \in BOOLEAN :
          /\ buildRecipe([progress EXCEPT !.pendingFinal = b]) = buildRecipe(progress)
          /\ [progress EXCEPT !.pendingFinal = b].picks = progress.picks
    BY <2>1, FlagRecipe
  <2>4. result = None
    BY <1>8, <2>1 DEF RunTest, At, ResultInv
  <2>5. CASE UNCHANGED result
    <3>1. CASE progress.picks["failureMessage"] # 0 /\
               Keep([progress EXCEPT !.pendingFinal = TRUE], "attempt")
      <4>1. progress'.picks = progress.picks /\ pc' = "attempt"
        BY <2>3, <3>1 DEF Keep
      <4> QED
        BY <2>4, <2>5, <3>1, <4>1 DEF ResultInv
    <3>2. CASE Goto("back")
      BY <2>4, <2>5, <3>2 DEF Goto, ResultInv
    <3> QED
      BY <1>8, <2>2, <2>4, <2>5, <3>1, <3>2 DEF RunTest
  <2>6. CASE Goto("result") /\ result' = Result(FALSE)
    BY <2>2, <2>6 DEF Goto, ResultInv
  <2> QED
    BY <1>8, <2>5, <2>6 DEF RunTest
<1>9. CASE TestEnds
  <2>1. progress \in Progress /\ ResultInv /\ TypeOK
    BY DEF FlowInv, TypeOK
  <2>2. \A b \in BOOLEAN : /\ Result(b) # None /\ Result(b).passed = b
                          /\ Result(b).recipe = buildRecipe(progress)
    BY <2>1, ResultType, NoneAssumption DEF Result
  <2>3. \A b \in BOOLEAN :
          /\ buildRecipe([progress EXCEPT !.pendingFinal = b]) = buildRecipe(progress)
          /\ [progress EXCEPT !.pendingFinal = b].picks = progress.picks
    BY <2>1, FlagRecipe
  <2>4. PICK passed \in BOOLEAN : result' = Result(passed)
    BY <1>9 DEF TestEnds
  <2>5. /\ progress' = [progress EXCEPT !.pendingFinal = FALSE] /\ pc' = "result"
        /\ progress.picks["failureMessage"] # 0
    BY <1>9, <2>1 DEF TestEnds, Keep, At, ResultInv
  <2> QED
    BY <2>2, <2>3, <2>4, <2>5 DEF ResultInv
<1>10. CASE Submit
  <2>1. progress \in Progress /\ ResultInv
    BY DEF FlowInv, TypeOK
  <2> QED
    BY <1>10, <2>1, FlagRecipe DEF ResultInv, Submit, At, Keep, Goto
<1>11. CASE SubmitFails
  BY <1>11 DEF FlowInv, TypeOK, Progress, Key, ResultInv, ScreenInv, SubmitFails, At, Goto,
     Stopped, bounds, initialProgress
<1>12. CASE UNCHANGED vars
  BY <1>12 DEF FlowInv, TypeOK, Progress, Key, ResultInv, ScreenInv, vars, bounds
<1> QED
  BY <1>1, <1>2, <1>3, <1>4, <1>5, <1>6, <1>7, <1>8, <1>9, <1>10, <1>11, <1>12 DEF Next,
     PickStep, IntroSteps, FailSteps, RealSteps, FinalSteps

-----------------------------------------------------------------------------
(* What the panel promises *)

\* The parts of the steps gone through are chosen.
LEMMA CompleteSteps ==
  ASSUME FlowInv, [Next]_vars
  PROVE  StepsComplete'
<1>1. CASE Saved \/ Enter \/ StepResult \/ Reload \/ Stop \/ Start
  BY <1>1 DEF FlowInv, TypeOK, Progress, Key, StepsComplete, Done, ScreenInv, Saved, bounds,
     Enter, At, Goto, SETUP_STEPS, StepKey, StepResult, Keep, FirstStepToDo, Reload, Stop,
     Stopped, initialProgress, Start
<1>2. CASE PickStep
  BY <1>2 DEF FlowInv, TypeOK, Progress, Key, StepsComplete, Done, ScreenInv, PickStep,
     PickNext, At, PickDone, bounds, PickBack, PickOne, Keep, Pick, Choice, Findings, Element,
     PickRedo, ThrowAway
<1>3. CASE IntroContinue \/ PageStep \/ RevealLink
  BY <1>3 DEF FlowInv, TypeOK, Progress, Key, StepsComplete, Done, ScreenInv, IntroContinue,
     At, Goto, Rest, bounds, PageStep, Keep, RevealLink
<1>4. CASE IntroStart
  <2>1. UNCHANGED saved /\ StepsComplete
    BY <1>4 DEF IntroStart, Rest, FlowInv
  <2> QED
    BY <1>4, <2>1, TemplateEffect DEF StepsComplete, Done
<1>5. CASE IntroManual
  BY <1>5, ManualEffect DEF FlowInv, StepsComplete, Done, IntroManual, Rest
<1>6. CASE RevealVisible
  BY <1>6, RevealEffect DEF FlowInv, ScreenInv, StepsComplete, Done, RevealVisible, Rest, At
<1>7. CASE FailSteps
  BY <1>7 DEF FlowInv, TypeOK, Progress, Key, StepsComplete, Done, ScreenInv, FailSteps,
     FailShown, At, Goto, Rest, Chosen, bounds, FailAgain, Keep, Pick, ThrowAway, Findings,
     FailLook, HasRecipe, TryTestCode, TestAnswered, FailAnswer, Choice, Element, FailPick
<1>8. CASE RealShown \/ RealLook \/ RealTry \/ RealApplied \/ RealJudge \/ RealConfirm
  BY <1>8 DEF FlowInv, TypeOK, Progress, Key, StepsComplete, Done, ScreenInv, RealShown, At,
     Goto, Rest, bounds, RealLook, HasRecipe, RealTry, Keep, RealApplied, RealJudge, RealConfirm,
     ConfirmFinding, Pick, Choice, Findings, Element
<1>9. CASE RealAgain
  <2>1. UNCHANGED saved /\ StepsComplete /\ progress.step = 7
    BY <1>9 DEF RealAgain, FlowInv, ScreenInv, At
  <2>2. Done(progress, 7)
    BY <2>1 DEF StepsComplete
  <2>3. Done(progress', 7) /\ progress'.step = 7
    BY <1>9, <2>2, AgainEffect DEF Done, Key
  <2> QED
    BY <2>1, <2>3 DEF StepsComplete
<1>10. CASE RealRemove
  BY <1>10, RemoveEffect DEF FlowInv, ScreenInv, StepsComplete, Done, RealRemove, At, Key
<1>11. CASE FinalSteps
  BY <1>11 DEF FlowInv, TypeOK, Progress, Key, StepsComplete, Done, ScreenInv, FinalSteps,
     SentShown, At, Keep, Goto, HasRecipe, bounds, FinalLook, Result, buildRecipe, RunTest,
     TestEnds, ResultShown, Submit, SubmitFails, Stopped, initialProgress
<1>12. CASE UNCHANGED vars
  BY <1>12 DEF FlowInv, TypeOK, Progress, Key, StepsComplete, Done, ScreenInv, vars, bounds
<1> QED
  BY <1>1, <1>2, <1>3, <1>4, <1>5, <1>6, <1>7, <1>8, <1>9, <1>10, <1>11, <1>12 DEF Next,
     PickStep, IntroSteps, FailSteps, RealSteps, FinalSteps

\* The removal a recipe names was proven.
LEMMA ProvenSteps ==
  ASSUME FlowInv, [Next]_vars
  PROVE  RemovalProven'
<1>1. CASE Saved \/ Enter \/ StepResult \/ Reload \/ Stop \/ Start
  BY <1>1, NoneAssumption DEF FlowInv, TypeOK, Progress, Key, RemovalProven, buildRecipe,
     ModeInv, ScreenInv, SyncInv, Saved, bounds, Enter, At, Goto, SETUP_STEPS, StepKey,
     StepResult, Keep, FirstStepToDo, Reload, Stop, Stopped, initialProgress, Start
<1>2. CASE PickNext \/ PickBack \/ PickRedo
  BY <1>2, NoneAssumption DEF FlowInv, TypeOK, Progress, Key, RemovalProven, buildRecipe,
     ModeInv, ScreenInv, SyncInv, PickNext, At, PickDone, bounds, PickBack, PickRedo, Keep, Pick,
     ThrowAway, Findings
<1>3. CASE PickOne
  BY <1>3, NoneAssumption DEF FlowInv, TypeOK, Progress, Key, RemovalProven, buildRecipe,
     ModeInv, ScreenInv, SyncInv, PickOne, At, Keep, Pick, Choice, bounds, Findings, Element
<1>4. CASE IntroContinue \/ PageStep \/ RevealLink
  BY <1>4, NoneAssumption DEF FlowInv, TypeOK, Progress, Key, RemovalProven, buildRecipe,
     ModeInv, ScreenInv, SyncInv, IntroContinue, At, Goto, Rest, bounds, PageStep, Keep,
     RevealLink
<1>5. CASE IntroStart
  BY <1>5, NoneAssumption, TemplateEffect DEF FlowInv, RemovalProven, buildRecipe, Key,
     IntroStart, Rest
<1>6. CASE IntroManual
  BY <1>6, NoneAssumption, ManualEffect DEF FlowInv, RemovalProven, buildRecipe, Key,
     IntroManual, Rest
<1>7. CASE RevealVisible
  BY <1>7, NoneAssumption, RevealEffect DEF FlowInv, RemovalProven, buildRecipe, Key,
     RevealVisible, Rest
<1>8. CASE FailSteps
  BY <1>8, NoneAssumption DEF FlowInv, TypeOK, Progress, Key, RemovalProven, buildRecipe,
     ModeInv, ScreenInv, SyncInv, FailSteps, FailShown, At, Goto, Rest, Chosen, bounds,
     FailAgain, Keep, Pick, ThrowAway, Findings, FailLook, HasRecipe, TryTestCode, TestAnswered,
     FailAnswer, Choice, Element, FailPick
<1>9. CASE RealShown \/ RealLook \/ RealTry \/ RealApplied \/ RealJudge
  BY <1>9, NoneAssumption DEF FlowInv, TypeOK, Progress, Key, RemovalProven, buildRecipe,
     ModeInv, ScreenInv, SyncInv, RealShown, At, Goto, Rest, bounds, RealLook, HasRecipe,
     RealTry, Keep, RealApplied, RealJudge
<1>10. CASE RealAgain
  BY <1>10, NoneAssumption, AgainEffect DEF FlowInv, RemovalProven, buildRecipe, RealAgain,
     Key
<1>11. CASE RealConfirm
  BY <1>11, NoneAssumption DEF FlowInv, TypeOK, Progress, Key, RemovalProven, buildRecipe,
     ModeInv, ScreenInv, SyncInv, RealConfirm, At, ConfirmFinding, Keep, Goto, Pick, Rest,
     Choice, bounds, Findings, Element
<1>12. CASE RealRemove
  BY <1>12, NoneAssumption, RemoveEffect DEF FlowInv, RemovalProven, ModeInv, SyncInv,
     buildRecipe, RealRemove, At, Key
<1>13. CASE FinalSteps
  BY <1>13, NoneAssumption DEF FlowInv, TypeOK, Progress, Key, RemovalProven, buildRecipe,
     ModeInv, ScreenInv, SyncInv, FinalSteps, SentShown, At, Keep, Goto, HasRecipe, bounds,
     FinalLook, Result, RunTest, TestEnds, ResultShown, Submit, SubmitFails, Stopped,
     initialProgress
<1>14. CASE UNCHANGED vars
  BY <1>14 DEF FlowInv, TypeOK, Progress, Key, RemovalProven, buildRecipe, ModeInv, ScreenInv,
     SyncInv, vars, bounds
<1> QED
  BY <1>1, <1>2, <1>3, <1>4, <1>5, <1>6, <1>7, <1>8, <1>9, <1>10, <1>11, <1>12, <1>13, <1>14
     DEF Next, PickStep, IntroSteps, FailSteps, RealSteps, FinalSteps

\* The marker of a code being submitted is saved before.
LEMMA RememberSteps ==
  ASSUME FlowInv, [Next]_vars
  PROVE  ReloadRemembered'
<1>1. CASE Saved \/ Enter \/ StepResult \/ Reload \/ Stop \/ Start
  BY <1>1 DEF FlowInv, TypeOK, Progress, Key, SyncInv, ReloadRemembered, Saved, bounds, Enter,
     At, Goto, SETUP_STEPS, StepKey, StepResult, Keep, FirstStepToDo, Reload, Stop, Stopped,
     initialProgress, Start
<1>2. CASE PickStep
  BY <1>2 DEF FlowInv, TypeOK, Progress, Key, SyncInv, ReloadRemembered, PickStep, PickNext,
     At, PickDone, bounds, PickBack, PickOne, Keep, Pick, Choice, Findings, Element, PickRedo,
     ThrowAway
<1>3. CASE IntroSteps
  BY <1>3 DEF FlowInv, TypeOK, Progress, Key, SyncInv, ReloadRemembered, IntroSteps,
     IntroStart, At, Keep, Goto, Rest, TemplateMatch, bounds, IntroContinue, IntroManual,
     PageStep, RevealVisible, RevealLink
<1>4. CASE FailSteps
  BY <1>4 DEF FlowInv, TypeOK, Progress, Key, SyncInv, ReloadRemembered, FailSteps, FailShown,
     At, Goto, Rest, Chosen, bounds, FailAgain, Keep, Pick, ThrowAway, Findings, FailLook,
     HasRecipe, TryTestCode, TestAnswered, FailAnswer, Choice, Element, FailPick
<1>5. CASE RealSteps
  BY <1>5 DEF FlowInv, TypeOK, Progress, Key, SyncInv, ReloadRemembered, RealSteps, RealShown,
     At, Goto, Rest, bounds, RealAgain, Keep, ThrowAway, Findings, RealLook, HasRecipe, RealTry,
     RealApplied, RealJudge, RealConfirm, ConfirmFinding, Pick, Choice, Element, RealRemove
<1>6. CASE FinalSteps
  BY <1>6 DEF FlowInv, TypeOK, Progress, Key, SyncInv, ReloadRemembered, FinalSteps,
     SentShown, At, Keep, Goto, HasRecipe, bounds, FinalLook, Result, buildRecipe, RunTest,
     TestEnds, ResultShown, Submit, SubmitFails, Stopped, initialProgress
<1>7. CASE UNCHANGED vars
  BY <1>7 DEF FlowInv, TypeOK, Progress, Key, SyncInv, ReloadRemembered, vars, bounds
<1> QED
  BY <1>1, <1>2, <1>3, <1>4, <1>5, <1>6, <1>7 DEF Next, PickStep, IntroSteps, FailSteps,
     RealSteps, FinalSteps

-----------------------------------------------------------------------------
(* The theorems *)

LEMMA FlowInitial == Init => FlowInv
<1> SUFFICES ASSUME Init
             PROVE  FlowInv
  OBVIOUS
<1>1. TypeOK
  <2>1. Cardinality({}) <= MaxRedo
    BY FS_EmptySet, BoundsAssumption
  <2>2. progress \in Progress /\ saved \in Progress
    BY InitialProgress DEF Init
  <2>3. anew \subseteq Key /\ Cardinality(anew) <= MaxRedo /\ loads \in 0..MaxLoads
    BY <2>1, BoundsAssumption DEF Init
  <2> QED
    BY <2>2, <2>3 DEF Init, TypeOK
<1>2. ScreenInv /\ SyncInv /\ ModeInv /\ ResultInv
  BY DEF Init, ScreenInv, SyncInv, ModeInv, ResultInv, initialProgress
<1>3. StepsComplete /\ RemovalProven /\ ReloadRemembered
  BY DEF Init, StepsComplete, Done, RemovalProven, buildRecipe, Key, ReloadRemembered,
     initialProgress
<1> QED
  BY <1>1, <1>2, <1>3 DEF FlowInv

LEMMA FlowInvariant == Spec => []FlowInv
<1>1. FlowInv /\ [Next]_vars => FlowInv'
  BY Types, ScreenSteps, SyncSteps, ModeSteps, ResultInvSteps, CompleteSteps, ProvenSteps,
     RememberSteps DEF FlowInv
<1> QED
  BY <1>1, FlowInitial, PTL DEF Spec

\* The panel's progress, its copy and the screens keep their types.
THEOREM FlowTypeCorrect == Spec => []TypeOK
BY FlowInvariant, PTL DEF FlowInv

\* No mixture of template, Back, choosing again and page loads gets past a step without what
\* it asks for, so the returns for a missing recipe (setup-flow.ts:1201) are never taken.
THEOREM StepsNeverSkipped == Spec => []StepsComplete
BY FlowInvariant, PTL DEF FlowInv

\* A recipe that removes codes names the control last seen to restore the total.
THEOREM RemovalIsProven == Spec => []RemovalProven
BY FlowInvariant, PTL DEF FlowInv

\* What is sent is the recipe its test result is about.
THEOREM SendsTheTested == Spec => []SentIsTested
<1>1. FlowInv => SentIsTested
  BY DEF FlowInv, ResultInv, SentIsTested
<1> QED
  BY <1>1, FlowInvariant, PTL

\* The worker holds the marker of a code before the code is submitted.
THEOREM ReloadsAreRemembered == Spec => []ReloadRemembered
BY FlowInvariant, PTL DEF FlowInv
=============================================================================
