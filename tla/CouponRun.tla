------------------------------ MODULE CouponRun ------------------------------
(***************************************************************************)
(* The comparison of coupon codes in the shopper's checkout                *)
(* (apps/extension/src/content-scripts/coupon-applier.ts with              *)
(* lib/checkout-actions.ts): remember and clear the shopper's own code,    *)
(* try every code, put the cheapest one back, or the shopper's own.        *)
(*                                                                         *)
(* The store quotes a price anew whenever a code is submitted, rejects     *)
(* codes, or does not answer in time; a page that shows no sign of a       *)
(* request in flight is taken to have answered, as the code takes it.      *)
(* Prices are whole amounts, what cents() compares.                        *)
(***************************************************************************)
EXTENDS Naturals, Sequences

CONSTANTS
  Codes,  \* the codes in the order they are tried (couponsInTestOrder)
  Own,    \* a code of the shopper, on the cart before
  Base,   \* the undiscounted total
  Nothing  \* null: no code, total, quote, outcome

ASSUME CodesAssumption ==
  /\ Codes \in Seq(STRING \ {Own}) /\ Codes # <<>>
  /\ \A i, j \in DOMAIN Codes : Codes[i] = Codes[j] => i = j
ASSUME BaseAssumption == Base \in Nat \ {0}

VARIABLES
  cart,      \* the store: the code on the cart,
  total,     \* what the cart costs,
  sent,      \* the submission it has not answered
  recipe,    \* couponApplyMode, whether removeCouponSelector is there and whether the store
             \* always shows that it accepted a code (successIndicatorSelector)
  active,    \* checkActive: going on, cancelled (dormant), or the route changed
  pc,        \* where main() is
  phase,     \* what a submission is for: trial, reapply, restore
  after,     \* where a finished restoration goes on
  index,     \* the code to be tried
  current,   \* actions.currentCode
  original,  \* originalCode, originalTotal and originalRemoved
  baseline, best, quotes, selections,
  pendingResponse,
  error,     \* the reason of the exception being handled
  result     \* what finish() reported

storeVars == <<cart, total, sent>>
searchVars == <<index, best, quotes, selections>>
runVars == <<storeVars, recipe, active, pc, phase, after, current, original, baseline, searchVars,
          pendingResponse, error, result>>

Code == {Codes[i] : i \in DOMAIN Codes}
Total == 1..Base
Quote == [code : Code, total : 1..(Base - 1)]
Reason == {"cancelled", "checkout_changed", "unconfirmed", "restore_failed"}

\* null is none of the values it stands beside.
ASSUME NothingAssumption ==
  /\ Nothing \notin Code /\ Nothing # Own /\ Nothing \notin Total
  /\ Nothing \notin Reason /\ Nothing \notin {"failed", "final", "report"}

RunTypeOK ==
  /\ cart \in Code \cup {Own, Nothing} /\ total \in Total
  /\ sent \in Code \cup {Own, Nothing}
  /\ recipe \in [mode : {"replace", "remove", "legacy"}, remove : BOOLEAN, shows : BOOLEAN]
  /\ active \in {"yes", "cancelled", "left"}
  /\ pc \in {"begin", "clear", "baseline", "next", "reset", "removed", "submit", "answer",
             "conclude", "select", "compare", "final", "catch", "report", "done"}
  /\ phase \in {"trial", "reapply", "restore", "clean"}
  /\ after \in {Nothing, "failed", "restore_failed", "final", "report"}
  /\ index \in 1..(Len(Codes) + 1)
  /\ current \in Code \cup {Own, Nothing}
  /\ original \in [code : {Own, Nothing}, total : Total \cup {Nothing}, removed : BOOLEAN]
  /\ baseline \in Total \cup {Nothing}
  /\ best \in Quote \cup {Nothing} /\ quotes \subseteq Quote
  /\ selections \subseteq Code
  /\ pendingResponse \in BOOLEAN
  /\ error \in Reason \cup {Nothing}
  /\ result \in [result : {"applied", "failed"}, reason : Reason \cup {Nothing},
                 code : Code \cup {Nothing}, total : Total \cup {Nothing}] \cup {Nothing}

\* The recipe is configured or not; the shopper has a discount or not.
RunInit ==
  /\ recipe \in [mode : {"replace", "remove", "legacy"}, remove : BOOLEAN, shows : BOOLEAN]
  /\ \/ cart = Nothing /\ total = Base
     \/ cart = Own /\ total \in Total
  /\ sent = Nothing
  /\ active = "yes"
  /\ pc = "begin" /\ phase = "trial" /\ after = Nothing
  /\ index = 1 /\ current = Nothing
  /\ original = [code |-> Nothing, total |-> Nothing, removed |-> FALSE]
  /\ baseline = Nothing /\ best = Nothing /\ quotes = {} /\ selections = {}
  /\ pendingResponse = FALSE /\ error = Nothing /\ result = Nothing

CanCompare == recipe.mode = "replace" \/ (recipe.mode = "remove" /\ recipe.remove)

Inactive == IF active = "cancelled" THEN "cancelled" ELSE "checkout_changed"

\* An exception in restoreOriginal called from the handler ends it; elsewhere the handler starts.
Throw(reason) ==
  IF after = "report"
  THEN pc' = "report" /\ error' = "restore_failed"
  ELSE pc' = "catch" /\ error' = reason

GoOn(next) == pc' = next /\ UNCHANGED error

Finish(kind, reason, code, price) ==
  /\ result' = [result |-> kind, reason |-> reason, code |-> code, total |-> price]
  /\ pc' = "done"

-----------------------------------------------------------------------------
(* The shopper's own discount *)

\* reveal; an identified discount is remembered, an unidentified one left alone; what the
\* field shows without a removable chip cannot be cleared, only replaced.
Begin ==
  /\ pc = "begin"
  /\ \/ active # "yes" /\ Throw(Inactive) /\ UNCHANGED <<original, current>>
     \/ Throw("checkout_changed") /\ UNCHANGED <<original, current>>
     \/ /\ active = "yes" /\ cart = Nothing
        /\ GoOn("baseline") /\ UNCHANGED <<original, current>>
     \/ /\ active = "yes" /\ cart = Own
        /\ \E known \in BOOLEAN :
             LET code == IF known THEN Own ELSE Nothing IN
             IF recipe.remove /\ ~known
             THEN /\ Throw("unconfirmed")
                  /\ original' = [original EXCEPT !.total = total] /\ UNCHANGED current
             ELSE /\ original' = [code |-> code, total |-> total, removed |-> recipe.remove]
                  /\ current' = code
                  /\ GoOn(IF recipe.remove THEN "clear" ELSE "baseline")
  /\ UNCHANGED <<storeVars, recipe, active, phase, after, baseline, searchVars, pendingResponse,
                 result>>

\* clearAppliedDiscount: the total has to rise and settle.
Clear ==
  /\ pc = "clear"
  /\ \/ /\ active = "yes" /\ total < Base
        /\ cart' = Nothing /\ total' = Base /\ current' = Nothing
        /\ GoOn("baseline")
     \/ /\ active = "yes"
        /\ \/ cart' = Nothing /\ total' \in Total
           \/ UNCHANGED <<cart, total>>
        /\ Throw("restore_failed") /\ UNCHANGED current
     \/ active # "yes" /\ Throw(Inactive) /\ UNCHANGED <<cart, total, current>>
  /\ UNCHANGED <<sent, recipe, active, phase, after, original, baseline, searchVars,
                 pendingResponse, result>>

Baseline ==
  /\ pc = "baseline"
  /\ \/ baseline' = total /\ GoOn("next")
     \/ Throw("unconfirmed") /\ UNCHANGED baseline  \* no total can be read
  /\ UNCHANGED <<storeVars, recipe, active, phase, after, current, original, searchVars,
                 pendingResponse, result>>

-----------------------------------------------------------------------------
(* resetCart and attempt *)

\* A submission starts with resetCart where the recipe says so.
StartAttempt(p) ==
  /\ phase' = p
  /\ GoOn(IF recipe.mode = "remove" /\ current # Nothing THEN "reset" ELSE "submit")

\* The remove control is clicked ...
Reset ==
  /\ pc = "reset"
  /\ \/ active # "yes" /\ Throw(Inactive) /\ UNCHANGED <<cart, total>>
     \/ active = "yes" /\ ~recipe.remove /\ Throw("restore_failed") /\ UNCHANGED <<cart, total>>
     \/ /\ active = "yes" /\ recipe.remove
        /\ GoOn("removed")
        /\ \/ cart' = Nothing /\ total' \in ({baseline} \ {Nothing}) \cup {Base}
           \/ UNCHANGED <<cart, total>>
  /\ UNCHANGED <<sent, recipe, active, phase, after, current, original, baseline, searchVars,
                 pendingResponse, result>>

\* ... and the total has to come back to the baseline.
ResetSettled ==
  /\ pc = "removed"
  /\ \/ active # "yes" /\ Throw(Inactive) /\ UNCHANGED current
     \/ active = "yes" /\ total # baseline /\ Throw("restore_failed") /\ UNCHANGED current
     \/ /\ active = "yes" /\ total = baseline
        /\ current' = Nothing
        /\ GoOn(IF phase = "clean" THEN "final" ELSE "submit")
  /\ UNCHANGED <<storeVars, recipe, active, phase, after, original, baseline, searchVars,
                 pendingResponse, result>>

Submitted == CASE phase = "trial" -> Codes[index] [] phase = "reapply" -> best.code [] OTHER -> Own

\* Seeded fault of Submit: the apply button is awaited without asking checkActive.
Submit_Unchecked ==
  /\ pc = "submit"
  /\ \/ Throw("checkout_changed") /\ UNCHANGED sent
     \/ sent' = Submitted /\ GoOn("answer")
  /\ UNCHANGED <<cart, total, recipe, active, phase, after, current, original, baseline,
                 searchVars, pendingResponse, result>>

\* The code is typed and Apply clicked, if the promo box can be revealed and the button enabled.
Submit ==
  /\ pc = "submit"
  /\ \/ active # "yes" /\ Throw(Inactive) /\ UNCHANGED sent
     \/ active = "yes" /\ Throw("checkout_changed") /\ UNCHANGED sent
     \/ active = "yes" /\ sent' = Submitted /\ GoOn("answer")
  /\ UNCHANGED <<cart, total, recipe, active, phase, after, current, original, baseline,
                 searchVars, pendingResponse, result>>

\* The store accepts, at whatever price, or rejects.
StoreAnswers ==
  /\ sent # Nothing
  /\ \/ cart' = sent /\ total' \in Total
     \/ UNCHANGED <<cart, total>>
  /\ sent' = Nothing
  /\ UNCHANGED <<recipe, active, pc, phase, after, current, original, baseline, searchVars,
                 pendingResponse, error, result>>

\* What attempt() can return: a success (a banner, or a lower total), a rejection, or neither.
Success == pc = "answer" /\ active = "yes" /\ sent = Nothing /\ cart = Submitted
Failure == pc = "answer" /\ active = "yes" /\ sent = Nothing
Timeout(pending) ==
  /\ pc = "answer" /\ active = "yes"
  /\ pending = (sent # Nothing)
  /\ recipe.shows /\ ~pending => cart # Submitted

\* checkActive throws on the next poll.
Abort ==
  /\ pc = "answer" /\ active # "yes"
  /\ Throw(Inactive)
  /\ UNCHANGED <<storeVars, recipe, active, phase, after, current, original, baseline,
                 searchVars, pendingResponse, result>>

-----------------------------------------------------------------------------
(* The comparison *)

NextCode ==
  /\ pc = "next"
  /\ IF index > Len(Codes) THEN GoOn("conclude") /\ UNCHANGED phase
     ELSE IF active # "yes" THEN Throw(Inactive) /\ UNCHANGED phase
     ELSE StartAttempt("trial")
  /\ UNCHANGED <<storeVars, recipe, active, after, current, original, baseline, searchVars,
                 pendingResponse, result>>

\* A code that saves may be the best; an unconfigured store stops at the first accepted one.
TrialSuccess ==
  LET q == [code |-> Submitted, total |-> total] IN
  /\ phase = "trial" /\ Success
  /\ current' = Submitted
  /\ IF total < baseline
     THEN /\ quotes' = quotes \cup {q}
          /\ best' = IF best = Nothing \/ total < best.total THEN q ELSE best
     ELSE UNCHANGED <<quotes, best>>
  /\ index' = index + 1
  /\ GoOn(IF CanCompare THEN "next" ELSE "conclude")
  /\ UNCHANGED <<storeVars, recipe, active, phase, after, original, baseline, selections,
                 pendingResponse, result>>

TrialFailure ==
  /\ phase = "trial" /\ Failure
  /\ cart # Submitted
  /\ index' = index + 1
  /\ GoOn("next")
  /\ UNCHANGED <<storeVars, recipe, active, phase, after, current, original, baseline, best,
                 quotes, selections, pendingResponse, result>>

\* Seeded fault of TrialTimeout: a code without an answer is tried again.
TrialTimeout_Again ==
  /\ phase = "trial" /\ Timeout(pendingResponse')
  /\ pendingResponse' \in BOOLEAN
  /\ IF ~pendingResponse' THEN GoOn("next") ELSE Throw("unconfirmed")
  /\ UNCHANGED <<storeVars, recipe, active, phase, after, current, original, baseline,
                 searchVars, result>>

\* No answer: the comparison ends with what is confirmed, or fails.
TrialTimeout ==
  /\ phase = "trial" /\ Timeout(pendingResponse')
  /\ pendingResponse' \in BOOLEAN
  /\ IF ~pendingResponse' /\ best # Nothing THEN GoOn("conclude") ELSE Throw("unconfirmed")
  /\ UNCHANGED <<storeVars, recipe, active, phase, after, current, original, baseline,
                 searchVars, result>>

Dearer == best = Nothing \/ best.total > original.total

\* restoreOriginal returns at once when there is nothing to restore.
Restore(then) ==
  /\ after' = then
  /\ original.code # Nothing
  /\ StartAttempt("restore")

\* Every code is tried: the shopper's removed code comes back unless something is as cheap.
Conclude ==
  /\ pc = "conclude"
  /\ IF original.removed /\ Dearer THEN Restore("failed")
     ELSE IF best # Nothing THEN GoOn("select") /\ UNCHANGED <<phase, after>>
     ELSE IF original.code # Nothing /\ current # original.code THEN Restore("final")
     ELSE IF current # Nothing /\ recipe.remove
     THEN phase' = "clean" /\ GoOn("reset") /\ UNCHANGED after
     ELSE GoOn("final") /\ UNCHANGED <<phase, after>>
  /\ UNCHANGED <<storeVars, recipe, active, current, original, baseline, searchVars,
                 pendingResponse, result>>

Final ==
  /\ pc = "final"
  /\ IF total <= baseline THEN Finish("failed", Nothing, Nothing, Nothing) /\ UNCHANGED error
     ELSE pc' = "catch" /\ error' = "restore_failed" /\ UNCHANGED result
  /\ UNCHANGED <<storeVars, recipe, active, phase, after, current, original, baseline,
                 searchVars, pendingResponse>>

-----------------------------------------------------------------------------
(* selectBest *)

\* Seeded fault of Select: the last code tried is taken to be on the cart.
Select_Trusting ==
  /\ pc = "select"
  /\ selections' = selections \cup {best.code}
  /\ IF best.code \in selections THEN Throw("unconfirmed") /\ UNCHANGED phase
     ELSE IF total # best.total THEN StartAttempt("reapply")
     ELSE GoOn("compare") /\ UNCHANGED phase
  /\ UNCHANGED <<storeVars, recipe, active, after, current, original, baseline, index, best,
                 quotes, pendingResponse, result>>

\* The winner goes on the cart again unless it is there at its price; each code once.
Select ==
  /\ pc = "select"
  /\ selections' = selections \cup {best.code}
  /\ IF best.code \in selections THEN Throw("unconfirmed") /\ UNCHANGED phase
     ELSE IF current # best.code \/ total # best.total THEN StartAttempt("reapply")
     ELSE GoOn("compare") /\ UNCHANGED phase
  /\ UNCHANGED <<storeVars, recipe, active, after, current, original, baseline, index, best,
                 quotes, pendingResponse, result>>

\* Its new price replaces the old quote, as long as it still saves.
Reapplied ==
  LET q == [best EXCEPT !.total = total] IN
  /\ phase = "reapply" /\ Success
  /\ current' = Submitted
  /\ IF total < baseline
     THEN best' = q /\ quotes' = (quotes \ {best}) \cup {q} /\ GoOn("compare")
     ELSE UNCHANGED <<best, quotes>> /\ Throw("restore_failed")
  /\ UNCHANGED <<storeVars, recipe, active, phase, after, original, baseline, index, selections,
                 pendingResponse, result>>

NotReapplied ==
  /\ phase = "reapply"
  /\ \/ Failure /\ cart # Submitted /\ UNCHANGED pendingResponse
     \/ pendingResponse' \in BOOLEAN /\ Timeout(pendingResponse')
  /\ Throw("restore_failed")
  /\ UNCHANGED <<storeVars, recipe, active, phase, after, current, original, baseline,
                 searchVars, result>>

Cheaper == {q \in quotes : q.code # best.code /\ q.total < best.total}

\* A quote that is cheaper by now is verified next; a winner dearer than the shopper's own
\* code gives way to it.
Compare ==
  /\ pc = "compare"
  /\ \/ /\ Cheaper # {}
        /\ best' \in {q \in Cheaper : \A r \in Cheaper : q.total <= r.total}
        /\ GoOn("select") /\ UNCHANGED <<phase, after, result>>
     \/ /\ Cheaper = {} /\ original.code # Nothing /\ Dearer
        /\ Restore("restore_failed")
        /\ UNCHANGED <<best, result>>
     \/ /\ Cheaper = {} /\ ~(original.code # Nothing /\ Dearer)
        /\ Finish("applied", Nothing, best.code, best.total)
        /\ UNCHANGED <<best, phase, after, error>>
  /\ UNCHANGED <<storeVars, recipe, active, current, original, baseline, index, quotes,
                 selections, pendingResponse>>

-----------------------------------------------------------------------------
(* restoreOriginal and the exception handler *)

Restored ==
  /\ phase = "restore" /\ Success
  /\ current' = Submitted
  /\ IF total <= original.total
     THEN /\ original' = [original EXCEPT !.removed = FALSE]
          /\ \/ /\ after = "failed"
                /\ Finish("failed", Nothing, Nothing, Nothing) /\ UNCHANGED error
             \/ /\ after = "restore_failed"
                /\ Finish("failed", "restore_failed", Nothing, Nothing) /\ UNCHANGED error
             \/ /\ after \notin {"failed", "restore_failed"}
                /\ GoOn(after) /\ UNCHANGED result
     ELSE Throw("restore_failed") /\ UNCHANGED <<original, result>>
  /\ UNCHANGED <<storeVars, recipe, active, phase, after, baseline, searchVars, pendingResponse>>

NotRestored ==
  /\ phase = "restore"
  /\ \/ Failure /\ cart # Submitted /\ UNCHANGED pendingResponse
     \/ pendingResponse' \in BOOLEAN /\ Timeout(pendingResponse')
  /\ Throw("restore_failed")
  /\ UNCHANGED <<storeVars, recipe, active, phase, after, current, original, baseline,
                 searchVars, result>>

\* Seeded fault of Catch: only a removed code is restored.
Catch_RemovedOnly ==
  /\ pc = "catch"
  /\ IF active = "yes" /\ ~pendingResponse /\ original.code # Nothing /\ original.removed
     THEN Restore("report")
     ELSE GoOn("report") /\ UNCHANGED <<phase, after>>
  /\ UNCHANGED <<storeVars, recipe, active, current, original, baseline, searchVars,
                 pendingResponse, result>>

\* The shopper's code is restored while the page is the same, nothing is in flight and the
\* device active.
Catch ==
  /\ pc = "catch"
  /\ IF /\ active = "yes" /\ ~pendingResponse /\ original.code # Nothing
        /\ original.removed \/ (current # Nothing /\ current # original.code)
     THEN Restore("report")
     ELSE GoOn("report") /\ UNCHANGED <<phase, after>>
  /\ UNCHANGED <<storeVars, recipe, active, current, original, baseline, searchVars,
                 pendingResponse, result>>

Report ==
  /\ pc = "report"
  /\ Finish("failed", error, Nothing, Nothing)
  /\ UNCHANGED <<storeVars, recipe, active, phase, after, current, original, baseline,
                 searchVars, pendingResponse, error>>

\* The device goes dormant, or the shopper leaves the checkout.
Stop ==
  /\ active = "yes" /\ pc # "done"
  /\ active' \in {"cancelled", "left"}
  /\ UNCHANGED <<storeVars, recipe, pc, phase, after, current, original, baseline, searchVars,
                 pendingResponse, error, result>>

-----------------------------------------------------------------------------

RunStep ==
  \/ Begin \/ Clear \/ Baseline \/ NextCode
  \/ Reset \/ ResetSettled \/ Submit \/ Abort
  \/ TrialSuccess \/ TrialFailure \/ TrialTimeout
  \/ Conclude \/ Final \/ Select \/ Reapplied \/ NotReapplied \/ Compare
  \/ Restored \/ NotRestored \/ Catch \/ Report

RunNext == RunStep \/ StoreAnswers \/ Stop

RunSpec == RunInit /\ [][RunNext]_runVars

\* main() goes on: every wait has a deadline.
LiveRunSpec == RunSpec /\ WF_runVars(RunStep)

-----------------------------------------------------------------------------
(* Properties *)

Done(kind) == result # Nothing /\ result.result = kind

\* What is reported as applied is what the cart costs, with the reported code on it if the
\* store shows what it accepts (coupon-applier.ts:102-105).  However prices moved between its
\* trial and its reapplication, no code that was quoted lower is passed over (107-112), nor
\* the shopper's original discount (114-120).
ReportTrue ==
  Done("applied") => /\ total = result.total
                     /\ recipe.shows => cart = result.code
                     /\ \A q \in quotes : result.total <= q.total
                     /\ original.code # Nothing => result.total <= original.total

\* A run that fails for want of a better or a confirmed code leaves the shopper's identified
\* code on the cart (220-227, 241-242, 249-262), at a store that shows what it accepts.
OriginalBack ==
  /\ Done("failed") /\ result.reason \in {Nothing, "unconfirmed"}
  /\ original.code # Nothing /\ active = "yes" /\ ~pendingResponse
  /\ recipe.shows
  => cart = original.code

\* Once the route changed or the device went dormant no code is submitted any more, not even
\* to restore one (docs/extension-reliability.md, "stop further application actions").
StopsWriting == [][active # "yes" => sent' \in {sent, Nothing}]_runVars

\* Every run reports an outcome, even if the store changes its prices all the time (86-87).
RunEnds == <>(result # Nothing)
=============================================================================
