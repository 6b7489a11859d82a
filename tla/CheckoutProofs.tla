---------------------------- MODULE CheckoutProofs ----------------------------
(***************************************************************************)
(* Proofs about the checkout in the extension, for any number of codes,    *)
(* pages, handlers, documents, runs and messages.                          *)
(*                                                                         *)
(* CouponRun: the comparison of codes reports what is on the cart and      *)
(* gives the shopper's own code back.  TabCheckout: the tab's state is not *)
(* left at testing, a redirected run resumes once, and late messages       *)
(* change no outcome.  AutoPopup: the list of deferred popups.             *)
(*                                                                         *)
(* Each part has an inductive invariant (RunInv, TabInv, and PopupInv with *)
(* DeferralInv) that its theorems follow from.                             *)
(***************************************************************************)
EXTENDS CouponRun, TabCheckout, AutoPopup, TLAPS

-----------------------------------------------------------------------------
(* CouponRun: what holds between two steps of the run                      *)

\* A code is being put on the cart, or removed from it.
Attempting == pc \in {"reset", "removed", "submit", "answer"}

\* What main() has established where it is.
Stages ==
  /\ pc = "begin" => original.code = Nothing /\ current = Nothing /\ phase = "trial"
  /\ pc = "clear" => recipe.remove /\ original.code = Own
  /\ pc = "removed" => recipe.remove
  /\ after = "report" => /\ Attempting \/ pc \in {"report", "done"}
                         /\ phase = "restore" /\ error # Nothing
  /\ Attempting /\ phase = "trial" => index <= Len(Codes)
  /\ Attempting /\ phase = "reapply" => best \in quotes
  /\ Attempting /\ phase = "restore" =>
       original.code = Own /\ after \in {"failed", "restore_failed", "final", "report"}
  /\ pc \in {"submit", "answer"} => phase # "clean"
  /\ phase = "clean" => original.code = Nothing
  /\ pc \in {"select", "compare"} => best \in quotes
  /\ pc \in {"catch", "report"} => error # Nothing
  /\ pc # "done" => result = Nothing

\* Prices are compared with a baseline that was read.
BaselineInv ==
  \/ pc \in {"next", "conclude", "select", "compare"}
  \/ Attempting /\ phase \in {"trial", "reapply"}
  => baseline \in Total

\* A submission is in flight only while its answer is awaited, or after the run has failed
\* knowing it, or being stopped.
SentInv ==
  sent # Nothing => \/ pc = "answer" /\ sent = Submitted
                    \/ /\ pc \in {"catch", "report", "done"}
                       /\ pendingResponse \/ active # "yes"
                       /\ ~Done("applied")

\* At a store that shows what it accepts, the code the run takes to be on the cart is there.
InTouch == \/ pc \in {"baseline", "next", "conclude", "select", "compare"}
           \/ pc \in {"reset", "submit"} /\ phase = "trial"
CartInv ==
  recipe.shows /\ current # Nothing =>
    /\ InTouch => cart = current
    /\ pc = "answer" /\ phase = "trial" => \/ cart = current
                                           \/ sent = Nothing /\ cart = Submitted
    /\ pc = "catch" /\ error = "unconfirmed" /\ active = "yes" /\ ~pendingResponse
         => cart = current

\* There is one quote for a code, and only for codes that were tried; the best is one of them.
QuotesInv ==
  /\ \A q \in quotes : \E i \in DOMAIN Codes : i < index /\ q.code = Codes[i]
  /\ \A q, r \in quotes : q.code = r.code => q = r
  /\ best # Nothing => best \in quotes

\* A winner that is compared with the other quotes is on the cart at its price.
WinnerInv ==
  pc = "compare" => total = best.total /\ (recipe.shows => cart = best.code)

\* The shopper's code is known to be removed, or to be current; where the recipe cannot remove
\* a code, something stays applied.
OwnInv ==
  /\ original.code # Nothing => original.total \in Total
  /\ original.code # Nothing /\ pc # "begin" /\ ~recipe.remove => current # Nothing
  /\ original.code # Nothing /\ recipe.remove =>
       \/ original.removed
       \/ /\ current = Own
          /\ pc \in {"final", "report", "done"} \/ (pc = "catch" /\ error # "unconfirmed")

\* Where the run is about to fail for want of a code, the shopper's is back.
BackInv ==
  original.code # Nothing /\ active = "yes" /\ ~pendingResponse /\ recipe.shows =>
    /\ pc = "final" => cart = Own
    /\ pc = "report" /\ error = "unconfirmed" => cart = Own

RunInv ==
  /\ RunTypeOK /\ Stages /\ BaselineInv /\ SentInv /\ CartInv /\ QuotesInv /\ WinnerInv
  /\ OwnInv /\ BackInv
  /\ ReportTrue /\ OriginalBack

\* The codes differ from one another, from the shopper's and from null.
LEMMA CodeType ==
  /\ Len(Codes) \in Nat /\ Len(Codes) > 0 /\ DOMAIN Codes = 1..Len(Codes)
  /\ \A i \in DOMAIN Codes : Codes[i] \in Code /\ Codes[i] # Own
  /\ Own # Nothing /\ Own \notin Code /\ Nothing \notin Code
  /\ \A i, j \in DOMAIN Codes : Codes[i] = Codes[j] => i = j
BY CodesAssumption, NothingAssumption DEF Code

\* At the start nothing is known, quoted, sent or reported.
LEMMA RunStarts == RunInit => RunInv
<1> SUFFICES ASSUME RunInit PROVE RunInv OBVIOUS
<1> USE CodeType, NothingAssumption DEF RunInit
<1>1. RunTypeOK
  <2>1. total \in Total BY BaseAssumption DEF Total
  <2>2. index \in 1..(Len(Codes) + 1) OBVIOUS
  <2>3. original \in [code : {Own, Nothing}, total : Total \cup {Nothing}, removed : BOOLEAN]
    OBVIOUS
  <2> QED BY <2>1, <2>2, <2>3 DEF RunTypeOK
<1>2. Stages /\ BaselineInv /\ SentInv
  <2>1. Stages BY DEF Stages, Attempting
  <2>2. BaselineInv BY DEF BaselineInv, Attempting
  <2>3. SentInv BY DEF SentInv
  <2> QED BY <2>1, <2>2, <2>3
<1>3. CartInv /\ OwnInv /\ BackInv BY DEF CartInv, OwnInv, BackInv
<1>4. QuotesInv /\ WinnerInv BY DEF QuotesInv, WinnerInv
<1>5. ReportTrue /\ OriginalBack BY DEF ReportTrue, OriginalBack, Done
<1> QED BY <1>1, <1>2, <1>3, <1>4, <1>5 DEF RunInv

\* The discount the run begins with is remembered as the code, if it is known, and its price.
LEMMA KeepsBegin == RunInv /\ Begin => RunInv'
<1> SUFFICES ASSUME RunInv, Begin PROVE RunInv' OBVIOUS
<1> USE CodeType, NothingAssumption
    DEF RunInv, Throw, GoOn, Finish, StartAttempt, Restore, Inactive, Success, Failure, Timeout,
        Submitted, Done, storeVars, searchVars, Attempting, InTouch, Reason, RunTypeOK, Stages,
        BaselineInv, SentInv, CartInv, QuotesInv, WinnerInv, OwnInv, BackInv, ReportTrue,
        OriginalBack
<1>0. /\ UNCHANGED <<cart, total, sent, recipe, active, phase, after, baseline, searchVars,
                     pendingResponse, result>>
      /\ pc = "begin"
      /\ original \in [code : {Own, Nothing}, total : Total \cup {Nothing}, removed : BOOLEAN]
      /\ recipe \in [mode : {"replace", "remove", "legacy"}, remove : BOOLEAN, shows : BOOLEAN]
  BY DEF Begin
<1>1. CASE UNCHANGED <<original, current>> /\ pc' = "catch" /\ error' \in Reason
  BY <1>0, <1>1
<1>2. CASE UNCHANGED <<original, current, error>> /\ pc' = "baseline"
  BY <1>0, <1>2
<1>3. CASE /\ original' = [original EXCEPT !.total = total] /\ UNCHANGED current
           /\ pc' = "catch" /\ error' = "unconfirmed"
  BY <1>0, <1>3
<1>4. ASSUME NEW c \in {Own, Nothing}, c = Own \/ ~recipe.remove, cart = Own, current' = c,
             original' = [code |-> c, total |-> total, removed |-> recipe.remove],
             pc' = (IF recipe.remove THEN "clear" ELSE "baseline"), UNCHANGED error
      PROVE RunInv'
  <2>1. /\ recipe.remove \in BOOLEAN /\ total \in Total
        /\ original'.code = c /\ original'.total = total /\ original'.removed = recipe.remove
    BY <1>0, <1>4
  <2>2. original' \in [code : {Own, Nothing}, total : Total \cup {Nothing}, removed : BOOLEAN]
    BY <1>4, <2>1
  <2>3. RunTypeOK' BY <1>0, <1>4, <2>2
  <2>4. Stages' BY <1>0, <1>4, <2>1
  <2>7. BaselineInv' /\ SentInv' BY <1>0, <1>4, <2>1
  <2>5. CartInv' /\ OwnInv' /\ BackInv'  BY <1>0, <1>4, <2>1
  <2>6. QuotesInv' /\ WinnerInv' /\ ReportTrue' /\ OriginalBack'  BY <1>0, <1>4, <2>1
  <2> QED BY <2>3, <2>4, <2>5, <2>6, <2>7
<1> QED BY <1>0, <1>1, <1>2, <1>3, <1>4 DEF Begin

\* A submission on its way: the remove control, the promo box, the store and checkActive.
LEMMA KeepsAttempt ==
  RunInv /\ (Clear \/ Reset \/ ResetSettled \/ Submit \/ StoreAnswers \/ Abort) => RunInv'
<1> SUFFICES ASSUME RunInv
             PROVE  Clear \/ Reset \/ ResetSettled \/ Submit \/ StoreAnswers \/ Abort => RunInv'
  OBVIOUS
<1> USE CodeType, NothingAssumption
    DEF RunInv, Throw, GoOn, Finish, StartAttempt, Restore, Inactive, Success, Failure, Timeout,
        Submitted, Done, storeVars, searchVars, Attempting, InTouch, Reason, RunTypeOK, Stages,
        BaselineInv, SentInv, CartInv, QuotesInv, WinnerInv, OwnInv, BackInv, ReportTrue,
        OriginalBack
<1>1. CASE Clear
  <2>1. RunTypeOK' BY <1>1, BaseAssumption DEF Clear, Total
  <2>2. Stages' /\ BaselineInv' /\ SentInv' BY <1>1 DEF Clear
  <2>3. CartInv' /\ OwnInv' /\ BackInv' BY <1>1 DEF Clear
  <2>4. QuotesInv' /\ WinnerInv' BY <1>1 DEF Clear
  <2>5. ReportTrue' /\ OriginalBack' BY <1>1 DEF Clear
  <2> QED BY <2>1, <2>2, <2>3, <2>4, <2>5
<1>2. CASE Reset
  <2>1. RunTypeOK' BY <1>2, BaseAssumption DEF Reset, Total
  <2>2. Stages' /\ BaselineInv' /\ SentInv' BY <1>2 DEF Reset
  <2>3. CartInv' /\ OwnInv' /\ BackInv' BY <1>2 DEF Reset
  <2>4. QuotesInv' /\ WinnerInv' BY <1>2 DEF Reset
  <2>5. ReportTrue' /\ OriginalBack' BY <1>2 DEF Reset
  <2> QED BY <2>1, <2>2, <2>3, <2>4, <2>5
<1>3. CASE ResetSettled
  <2>1. RunTypeOK' BY <1>3 DEF ResetSettled
  <2>2. Stages' /\ BaselineInv' /\ SentInv' BY <1>3 DEF ResetSettled
  <2>3. CartInv' /\ OwnInv' /\ BackInv' BY <1>3 DEF ResetSettled
  <2>4. QuotesInv' /\ WinnerInv' BY <1>3 DEF ResetSettled
  <2>5. ReportTrue' /\ OriginalBack' BY <1>3 DEF ResetSettled
  <2> QED BY <2>1, <2>2, <2>3, <2>4, <2>5
<1>4. CASE Submit
  <2>1. RunTypeOK' BY <1>4 DEF Submit
  <2>2. Stages' /\ BaselineInv' /\ SentInv' BY <1>4 DEF Submit
  <2>3. CartInv' /\ OwnInv' /\ BackInv' BY <1>4 DEF Submit
  <2>4. QuotesInv' /\ WinnerInv' BY <1>4 DEF Submit
  <2>5. ReportTrue' /\ OriginalBack' BY <1>4 DEF Submit
  <2> QED BY <2>1, <2>2, <2>3, <2>4, <2>5
<1>5. CASE StoreAnswers
  <2>1. RunTypeOK' BY <1>5 DEF StoreAnswers
  <2>2. Stages' /\ BaselineInv' /\ SentInv' BY <1>5 DEF StoreAnswers
  <2>3. CartInv' /\ OwnInv' /\ BackInv' BY <1>5 DEF StoreAnswers
  <2>4. QuotesInv' /\ WinnerInv' BY <1>5 DEF StoreAnswers
  <2>5. ReportTrue' /\ OriginalBack' BY <1>5 DEF StoreAnswers
  <2> QED BY <2>1, <2>2, <2>3, <2>4, <2>5
<1>6. CASE Abort
  <2>1. RunTypeOK' BY <1>6 DEF Abort
  <2>2. Stages' /\ BaselineInv' /\ SentInv' BY <1>6 DEF Abort
  <2>3. CartInv' /\ OwnInv' /\ BackInv' BY <1>6 DEF Abort
  <2>4. QuotesInv' /\ WinnerInv' BY <1>6 DEF Abort
  <2>5. ReportTrue' /\ OriginalBack' BY <1>6 DEF Abort
  <2> QED BY <2>1, <2>2, <2>3, <2>4, <2>5
<1> QED BY <1>1, <1>2, <1>3, <1>4, <1>5, <1>6

\* The codes one after another, as long as none is accepted.
LEMMA KeepsTrials ==
  RunInv /\ (Baseline \/ NextCode \/ TrialFailure \/ TrialTimeout \/ Final \/ Select) => RunInv'
<1> SUFFICES ASSUME RunInv
             PROVE  Baseline \/ NextCode \/ TrialFailure \/ TrialTimeout \/ Final \/ Select
                      => RunInv'
  OBVIOUS
<1> USE CodeType, NothingAssumption
    DEF RunInv, Throw, GoOn, Finish, StartAttempt, Restore, Inactive, Success, Failure, Timeout,
        Submitted, Done, storeVars, searchVars, Attempting, InTouch, Reason, RunTypeOK, Stages,
        BaselineInv, SentInv, CartInv, QuotesInv, WinnerInv, OwnInv, BackInv, ReportTrue,
        OriginalBack
<1>1. CASE Baseline
  <2>1. RunTypeOK' BY <1>1 DEF Baseline
  <2>2. Stages' /\ BaselineInv' /\ SentInv' BY <1>1 DEF Baseline
  <2>3. CartInv' /\ OwnInv' /\ BackInv' BY <1>1 DEF Baseline
  <2>4. QuotesInv' /\ WinnerInv' BY <1>1 DEF Baseline
  <2>5. ReportTrue' /\ OriginalBack' BY <1>1 DEF Baseline
  <2> QED BY <2>1, <2>2, <2>3, <2>4, <2>5
<1>2. CASE NextCode
  <2>1. RunTypeOK' BY <1>2 DEF NextCode
  <2>2. Stages' /\ BaselineInv' /\ SentInv' BY <1>2 DEF NextCode
  <2>3. CartInv' /\ OwnInv' /\ BackInv' BY <1>2 DEF NextCode
  <2>4. QuotesInv' /\ WinnerInv' BY <1>2 DEF NextCode
  <2>5. ReportTrue' /\ OriginalBack' BY <1>2 DEF NextCode
  <2> QED BY <2>1, <2>2, <2>3, <2>4, <2>5
<1>3. CASE TrialFailure
  <2>1. RunTypeOK' BY <1>3 DEF TrialFailure
  <2>2. Stages' /\ BaselineInv' /\ SentInv' BY <1>3 DEF TrialFailure
  <2>3. CartInv' /\ OwnInv' /\ BackInv' BY <1>3 DEF TrialFailure
  <2>4. QuotesInv' /\ WinnerInv' BY <1>3 DEF TrialFailure
  <2>5. ReportTrue' /\ OriginalBack' BY <1>3 DEF TrialFailure
  <2> QED BY <2>1, <2>2, <2>3, <2>4, <2>5
<1>4. CASE TrialTimeout
  <2>1. RunTypeOK' BY <1>4 DEF TrialTimeout
  <2>2. Stages' /\ BaselineInv' /\ SentInv' BY <1>4 DEF TrialTimeout
  <2>3. CartInv' /\ OwnInv' /\ BackInv' BY <1>4 DEF TrialTimeout
  <2>4. QuotesInv' /\ WinnerInv' BY <1>4 DEF TrialTimeout
  <2>5. ReportTrue' /\ OriginalBack' BY <1>4 DEF TrialTimeout
  <2> QED BY <2>1, <2>2, <2>3, <2>4, <2>5
<1>5. CASE Final
  <2>1. RunTypeOK' BY <1>5 DEF Final
  <2>2. Stages' /\ BaselineInv' /\ SentInv' BY <1>5 DEF Final
  <2>3. CartInv' /\ OwnInv' /\ BackInv' BY <1>5 DEF Final
  <2>4. QuotesInv' /\ WinnerInv' BY <1>5 DEF Final
  <2>5. ReportTrue' /\ OriginalBack' BY <1>5 DEF Final
  <2> QED BY <2>1, <2>2, <2>3, <2>4, <2>5
<1>6. CASE Select
  <2>1. RunTypeOK' BY <1>6 DEF Select
  <2>2. Stages' /\ BaselineInv' /\ SentInv' BY <1>6 DEF Select
  <2>3. CartInv' /\ OwnInv' /\ BackInv' BY <1>6 DEF Select
  <2>4. QuotesInv' /\ WinnerInv' BY <1>6 DEF Select
  <2>5. ReportTrue' /\ OriginalBack' BY <1>6 DEF Select
  <2> QED BY <2>1, <2>2, <2>3, <2>4, <2>5
<1> QED BY <1>1, <1>2, <1>3, <1>4, <1>5, <1>6

\* What went wrong is restored and reported.
LEMMA KeepsFailures ==
  RunInv /\ (NotReapplied \/ NotRestored \/ Catch \/ Report \/ Stop) => RunInv'
<1> SUFFICES ASSUME RunInv
             PROVE  NotReapplied \/ NotRestored \/ Catch \/ Report \/ Stop => RunInv'
  OBVIOUS
<1> USE CodeType, NothingAssumption
    DEF RunInv, Throw, GoOn, Finish, StartAttempt, Restore, Inactive, Success, Failure, Timeout,
        Submitted, Done, storeVars, searchVars, Attempting, InTouch, Reason, RunTypeOK, Stages,
        BaselineInv, SentInv, CartInv, QuotesInv, WinnerInv, OwnInv, BackInv, ReportTrue,
        OriginalBack
<1>1. CASE NotReapplied
  <2>1. RunTypeOK' BY <1>1 DEF NotReapplied
  <2>2. Stages' /\ BaselineInv' /\ SentInv' BY <1>1 DEF NotReapplied
  <2>3. CartInv' /\ OwnInv' /\ BackInv' BY <1>1 DEF NotReapplied
  <2>4. QuotesInv' /\ WinnerInv' BY <1>1 DEF NotReapplied
  <2>5. ReportTrue' /\ OriginalBack' BY <1>1 DEF NotReapplied
  <2> QED BY <2>1, <2>2, <2>3, <2>4, <2>5
<1>2. CASE NotRestored
  <2>1. RunTypeOK' BY <1>2 DEF NotRestored
  <2>2. Stages' /\ BaselineInv' /\ SentInv' BY <1>2 DEF NotRestored
  <2>3. CartInv' /\ OwnInv' /\ BackInv' BY <1>2 DEF NotRestored
  <2>4. QuotesInv' /\ WinnerInv' BY <1>2 DEF NotRestored
  <2>5. ReportTrue' /\ OriginalBack' BY <1>2 DEF NotRestored
  <2> QED BY <2>1, <2>2, <2>3, <2>4, <2>5
<1>3. CASE Catch
  <2>1. RunTypeOK' BY <1>3 DEF Catch
  <2>2. Stages' /\ BaselineInv' /\ SentInv' BY <1>3 DEF Catch
  <2>3. CartInv' /\ OwnInv' /\ BackInv' BY <1>3 DEF Catch
  <2>4. QuotesInv' /\ WinnerInv' BY <1>3 DEF Catch
  <2>5. ReportTrue' /\ OriginalBack' BY <1>3 DEF Catch
  <2> QED BY <2>1, <2>2, <2>3, <2>4, <2>5
<1>4. CASE Report
  <2>1. RunTypeOK' BY <1>4 DEF Report
  <2>2. Stages' /\ BaselineInv' /\ SentInv' BY <1>4 DEF Report
  <2>3. CartInv' /\ OwnInv' /\ BackInv' BY <1>4 DEF Report
  <2>4. QuotesInv' /\ WinnerInv' BY <1>4 DEF Report
  <2>5. ReportTrue' /\ OriginalBack' BY <1>4 DEF Report
  <2> QED BY <2>1, <2>2, <2>3, <2>4, <2>5
<1>5. CASE Stop
  <2>1. RunTypeOK' BY <1>5 DEF Stop
  <2>2. Stages' /\ BaselineInv' /\ SentInv' BY <1>5 DEF Stop
  <2>3. CartInv' /\ OwnInv' /\ BackInv' BY <1>5 DEF Stop
  <2>4. QuotesInv' /\ WinnerInv' BY <1>5 DEF Stop
  <2>5. ReportTrue' /\ OriginalBack' BY <1>5 DEF Stop
  <2> QED BY <2>1, <2>2, <2>3, <2>4, <2>5
<1> QED BY <1>1, <1>2, <1>3, <1>4, <1>5

\* An accepted code that saves is quoted, under its own name and once.
LEMMA KeepsTrialSuccess == RunInv /\ TrialSuccess => RunInv'
<1> SUFFICES ASSUME RunInv, TrialSuccess PROVE RunInv' OBVIOUS
<1>a. /\ Submitted \in Code
      /\ [code |-> Submitted, total |-> total].code = Submitted
      /\ [code |-> Submitted, total |-> total].total = total
      /\ total < baseline => [code |-> Submitted, total |-> total] \in Quote
  <2> DEFINE q == [code |-> Submitted, total |-> total]
  <2>1. Submitted \in Code
    BY CodeType DEF RunInv, RunTypeOK, Stages, Attempting, TrialSuccess, Success, Submitted
  <2>2. total \in Nat /\ total > 0 /\ (total < baseline => total \in 1..(Base - 1))
    BY BaseAssumption DEF RunInv, RunTypeOK, BaselineInv, Attempting, TrialSuccess, Success, Total
  <2>3. total < baseline => q \in Quote
    BY <2>1, <2>2 DEF Quote
  <2> QED BY <2>1, <2>3
<1> USE CodeType, NothingAssumption
    DEF RunInv, Throw, GoOn, Finish, StartAttempt, Restore, Inactive, Success, Failure, Timeout,
        Submitted, Done, storeVars, searchVars, Attempting, InTouch, Reason, RunTypeOK, Stages,
        BaselineInv, SentInv, CartInv, QuotesInv, WinnerInv, OwnInv, BackInv, ReportTrue,
        OriginalBack
<1> USE DEF TrialSuccess
<1>1. RunTypeOK'
  BY <1>a
<1>2. Stages'
  BY <1>a
<1>3. BaselineInv' /\ SentInv'
  BY <1>a
<1>4. CartInv' /\ OwnInv' /\ BackInv'
  BY <1>a
<1>5. QuotesInv' /\ WinnerInv'
  BY <1>a
<1>6. ReportTrue' /\ OriginalBack'
  BY <1>a
<1> QED BY <1>1, <1>2, <1>3, <1>4, <1>5, <1>6

\* The end of the comparison: a winner is selected, the shopper's code restored, or nothing is.
LEMMA KeepsConclude == RunInv /\ Conclude => RunInv'
<1> SUFFICES ASSUME RunInv, Conclude PROVE RunInv' OBVIOUS
<1>a. \/ /\ phase' = "restore" /\ pc' \in {"reset", "submit"} /\ original.code # Nothing
         /\ after' \in {"failed", "final"} /\ UNCHANGED error
      \/ /\ pc' = "select" /\ best # Nothing /\ UNCHANGED <<phase, after, error>>
      \/ /\ pc' = "reset" /\ phase' = "clean" /\ UNCHANGED <<after, error>>
         /\ current # Nothing /\ (original.code # Nothing => current = original.code)
         /\ recipe.remove /\ best = Nothing /\ ~original.removed
      \/ /\ pc' = "final" /\ UNCHANGED <<phase, after, error>>
  BY DEF Conclude, Restore, StartAttempt, GoOn, Dearer
<1> USE CodeType, NothingAssumption
    DEF RunInv, Throw, GoOn, Finish, StartAttempt, Restore, Inactive, Success, Failure, Timeout,
        Submitted, Done, storeVars, searchVars, Attempting, InTouch, Reason, RunTypeOK, Stages,
        BaselineInv, SentInv, CartInv, QuotesInv, WinnerInv, OwnInv, BackInv, ReportTrue,
        OriginalBack
<1> USE DEF Conclude
<1>1. RunTypeOK'
  BY <1>a
<1>2. Stages'
  <2>1. CASE phase' = "restore" /\ pc' \in {"reset", "submit"} /\ original.code # Nothing
         /\ after' \in {"failed", "final"} /\ UNCHANGED error
    BY <2>1
  <2>2. CASE pc' = "select" /\ best # Nothing /\ UNCHANGED <<phase, after, error>>
    BY <2>2
  <2>3. CASE /\ pc' = "reset" /\ phase' = "clean" /\ UNCHANGED <<after, error>>
         /\ current # Nothing /\ (original.code # Nothing => current = original.code)
         /\ recipe.remove /\ best = Nothing /\ ~original.removed
    BY <2>3 DEF OwnInv
  <2>4. CASE pc' = "final" /\ UNCHANGED <<phase, after, error>>
    BY <2>4
  <2> QED BY <1>a, <2>1, <2>2, <2>3, <2>4
<1>3. BaselineInv' /\ SentInv'
  BY <1>a
<1>4. CartInv' /\ OwnInv' /\ BackInv'
  BY <1>a
<1>5. QuotesInv' /\ WinnerInv'
  BY <1>a
<1>6. ReportTrue' /\ OriginalBack'
  BY <1>a
<1> QED BY <1>1, <1>2, <1>3, <1>4, <1>5, <1>6

\* The winner is back on the cart: its new price replaces its quote.
LEMMA KeepsReapplied == RunInv /\ Reapplied => RunInv'
<1> SUFFICES ASSUME RunInv, Reapplied PROVE RunInv' OBVIOUS
<1>a. best \in Quote /\ best \in quotes /\ Submitted = best.code /\ Submitted \in Code
      /\ baseline \in Total
  BY DEF RunInv, RunTypeOK, Stages, BaselineInv, Attempting, Reapplied, Success, Submitted, Quote
<1>b. total < baseline =>
        /\ best' = [code |-> best.code, total |-> total]
        /\ quotes' = (quotes \ {best}) \cup {best'} /\ pc' = "compare" /\ UNCHANGED error
  <2>1. [best EXCEPT !.total = total] = [code |-> best.code, total |-> total] BY <1>a DEF Quote
  <2> QED BY <2>1 DEF Reapplied, GoOn
<1>c. total < baseline =>
        /\ best' \in Quote /\ best'.code = best.code /\ best'.total = total
        /\ quotes' = (quotes \ {best}) \cup {best'} /\ pc' = "compare" /\ UNCHANGED error
  <2>2. total \in Nat /\ total > 0 /\ (total < baseline => total \in 1..(Base - 1))
    BY <1>a, BaseAssumption DEF RunInv, RunTypeOK, Total
  <2> QED BY <2>2, <1>a, <1>b DEF Quote
<1>d. ~(total < baseline) => UNCHANGED <<best, quotes>> /\ Throw("restore_failed")
  BY DEF Reapplied
<1>e. /\ phase = "reapply" /\ pc = "answer" /\ active = "yes" /\ sent = Nothing /\ cart = best.code
      /\ current' = best.code
      /\ UNCHANGED <<storeVars, recipe, active, phase, after, original, baseline, index, selections,
                 pendingResponse, result>>
  BY <1>a DEF Reapplied, Success
<1> USE CodeType, NothingAssumption
    DEF RunInv, Throw, GoOn, Finish, StartAttempt, Restore, Inactive, Success, Failure, Timeout,
        Submitted, Done, storeVars, searchVars, Attempting, InTouch, Reason, RunTypeOK, Stages,
        BaselineInv, SentInv, CartInv, QuotesInv, WinnerInv, OwnInv, BackInv, ReportTrue,
        OriginalBack
<1>11. RunTypeOK'
  BY <1>a, <1>c, <1>d, <1>e
<1>12. Stages'
  BY <1>a, <1>c, <1>d, <1>e
<1>13. BaselineInv' /\ SentInv'
  BY <1>a, <1>c, <1>d, <1>e
<1>14. CartInv' /\ OwnInv' /\ BackInv'
  BY <1>a, <1>c, <1>d, <1>e
<1>15. QuotesInv' /\ WinnerInv'
  BY <1>a, <1>c, <1>d, <1>e
<1>16. ReportTrue' /\ OriginalBack'
  BY <1>a, <1>c, <1>d, <1>e
<1> QED BY <1>11, <1>12, <1>13, <1>14, <1>15, <1>16

\* What is reported as applied is cheaper than every other quote and than the original.
LEMMA KeepsCompare == RunInv /\ Compare => RunInv'
<1> SUFFICES ASSUME RunInv, Compare PROVE RunInv' OBVIOUS
<1>a. /\ best \in Quote /\ best \in quotes /\ best.code \in Code /\ best.total \in Nat
      /\ best.total \in Total /\ quotes \subseteq Quote
      /\ \A q \in quotes : q.total \in Nat
  BY BaseAssumption DEF RunInv, RunTypeOK, Stages, Compare, Quote, Total
<1>b. \/ /\ best' \in quotes /\ best' \in Quote /\ pc' = "select"
         /\ UNCHANGED <<phase, after, result, error>>
      \/ /\ phase' = "restore" /\ pc' \in {"reset", "submit"} /\ original.code # Nothing
         /\ after' = "restore_failed" /\ UNCHANGED <<best, result, error>>
      \/ /\ \A q \in quotes : q.code # best.code => best.total <= q.total
         /\ original.code # Nothing => ~(best.total > original.total)
         /\ result' = [result |-> "applied", reason |-> Nothing, code |-> best.code,
                       total |-> best.total]
         /\ pc' = "done" /\ UNCHANGED <<best, phase, after, error>>
  <2>1. CASE /\ Cheaper # {} /\ best' \in Cheaper /\ GoOn("select")
             /\ UNCHANGED <<phase, after, result>>
    BY <1>a, <2>1 DEF Cheaper, GoOn
  <2>2. CASE Cheaper = {} /\ ~(original.code # Nothing /\ Dearer)
              /\ Finish("applied", Nothing, best.code, best.total)
              /\ UNCHANGED <<best, phase, after, error>>
    <3>1. \A q \in quotes : q.code # best.code => best.total <= q.total
      BY <1>a, <2>2 DEF Cheaper
    <3> QED BY <3>1, <2>2 DEF Finish, Dearer
  <2> QED BY <2>1, <2>2 DEF Compare, Restore, StartAttempt, GoOn
<1>c. /\ pc = "compare"
      /\ UNCHANGED <<storeVars, recipe, active, current, original, baseline, index, quotes,
                 selections, pendingResponse>>
  BY DEF Compare
<1>d. ASSUME result' = [result |-> "applied", reason |-> Nothing, code |-> best.code,
                        total |-> best.total],
              \A q \in quotes : q.code # best.code => best.total <= q.total,
              original.code # Nothing => ~(best.total > original.total)
      PROVE  ReportTrue'
  <2>1. \A q \in quotes : best.total <= q.total
    <3> TAKE q \in quotes
    <3>1. CASE q.code = best.code
      <4>1. q = best BY <1>a, <3>1 DEF RunInv, QuotesInv
      <4> QED BY <4>1, <1>a
    <3> QED BY <3>1, <1>a, <1>d
  <2>2. original.code # Nothing => best.total <= original.total
    <3>1. original.code # Nothing => original.total \in Nat
      BY BaseAssumption DEF RunInv, OwnInv, Total
    <3>2. original.code # Nothing => ~(best.total > original.total) BY <1>d
    <3>3. best.total \in Nat BY <1>a
    <3> QED BY <3>1, <3>2, <3>3
  <2>3. total = best.total /\ (recipe.shows => cart = best.code)
    BY <1>c DEF RunInv, WinnerInv
  <2>4. result'.total = best.total /\ result'.code = best.code
    BY <1>d
  <2>5. total' = result'.total /\ (recipe.shows => cart' = result'.code)
    BY <1>c, <2>3, <2>4 DEF storeVars
  <2> QED BY <1>c, <2>1, <2>2, <2>4, <2>5 DEF ReportTrue
<1> USE CodeType, NothingAssumption
    DEF RunInv, Throw, GoOn, Finish, StartAttempt, Restore, Inactive, Success, Failure, Timeout,
        Submitted, Done, storeVars, searchVars, Attempting, InTouch, Reason, RunTypeOK, Stages,
        BaselineInv, SentInv, CartInv, QuotesInv, WinnerInv, OwnInv, BackInv, ReportTrue,
        OriginalBack
<1>11. RunTypeOK'
  BY <1>a, <1>b, <1>c
<1>12. Stages'
  BY <1>a, <1>b, <1>c
<1>13. BaselineInv' /\ SentInv'
  BY <1>a, <1>b, <1>c
<1>14. CartInv' /\ OwnInv' /\ BackInv'
  BY <1>a, <1>b, <1>c
<1>15. QuotesInv' /\ WinnerInv'
  BY <1>a, <1>b, <1>c
<1>16. ReportTrue'
  BY <1>a, <1>b, <1>c, <1>d
<1>17. OriginalBack'
  BY <1>a, <1>b, <1>c
<1> QED BY <1>11, <1>12, <1>13, <1>14, <1>15, <1>16, <1>17

\* The shopper's code is on the cart again.
LEMMA KeepsRestored == RunInv /\ Restored => RunInv'
<1> SUFFICES ASSUME RunInv, Restored PROVE RunInv' OBVIOUS
<1>0. /\ original.code = Own /\ Submitted = Own
      /\ original \in [code : {Own, Nothing}, total : Total \cup {Nothing}, removed : BOOLEAN]
      /\ phase = "restore" /\ pc = "answer" /\ active = "yes" /\ sent = Nothing /\ cart = Own
      /\ current' = Own
      /\ after \in {"failed", "restore_failed", "final", "report"}
      /\ UNCHANGED <<storeVars, recipe, active, phase, after, baseline, searchVars,
                      pendingResponse>>
  BY DEF RunInv, RunTypeOK, Stages, Attempting, Restored, Success, Submitted
<1> USE CodeType, NothingAssumption
<1>1. ASSUME total <= original.total, original' = [original EXCEPT !.removed = FALSE]
      PROVE  /\ original'.code = Own /\ original'.total = original.total
             /\ original'.removed = FALSE
             /\ original' \in [code : {Own, Nothing}, total : Total \cup {Nothing},
                              removed : BOOLEAN]
  BY <1>0, <1>1
<1> DEFINE Kept == /\ original'.code = Own /\ original'.total = original.total
                   /\ original'.removed = FALSE
                   /\ original' \in [code : {Own, Nothing}, total : Total \cup {Nothing},
                                    removed : BOOLEAN]
<1> USE DEF RunInv, Throw, GoOn, Finish, StartAttempt, Restore, Inactive, Success, Failure, Timeout,
        Submitted, Done, storeVars, searchVars, Attempting, InTouch, Reason, RunTypeOK, Stages,
        BaselineInv, SentInv, CartInv, QuotesInv, WinnerInv, OwnInv, BackInv, ReportTrue,
        OriginalBack
<1>2. CASE /\ Kept /\ after \in {"failed", "restore_failed"} /\ UNCHANGED error
           /\ \E r \in {Nothing, "restore_failed"} : Finish("failed", r, Nothing, Nothing)
  <2>1. RunTypeOK' BY <1>0, <1>2
  <2>2. Stages' /\ BaselineInv' /\ SentInv' BY <1>0, <1>2
  <2>3. CartInv' /\ OwnInv' /\ BackInv' BY <1>0, <1>2
  <2>4. QuotesInv' /\ WinnerInv' BY <1>0, <1>2
  <2>5. ReportTrue' /\ OriginalBack' BY <1>0, <1>2
  <2> QED BY <2>1, <2>2, <2>3, <2>4, <2>5
<1>3. CASE Kept /\ after \in {"final", "report"} /\ GoOn(after) /\ UNCHANGED result
  <2>1. RunTypeOK' BY <1>0, <1>3
  <2>2. Stages' /\ BaselineInv' /\ SentInv' BY <1>0, <1>3
  <2>3. CartInv' /\ OwnInv' /\ BackInv' BY <1>0, <1>3
  <2>4. QuotesInv' /\ WinnerInv' BY <1>0, <1>3
  <2>5. ReportTrue' /\ OriginalBack' BY <1>0, <1>3
  <2> QED BY <2>1, <2>2, <2>3, <2>4, <2>5
<1>4. CASE Throw("restore_failed") /\ UNCHANGED <<original, result>>
  <2>1. RunTypeOK' BY <1>0, <1>4
  <2>2. Stages' /\ BaselineInv' /\ SentInv' BY <1>0, <1>4
  <2>3. CartInv' /\ OwnInv' /\ BackInv' BY <1>0, <1>4
  <2>4. QuotesInv' /\ WinnerInv' BY <1>0, <1>4
  <2>5. ReportTrue' /\ OriginalBack' BY <1>0, <1>4
  <2> QED BY <2>1, <2>2, <2>3, <2>4, <2>5
<1> QED BY <1>0, <1>1, <1>2, <1>3, <1>4 DEF Restored

\* Every step of the run, of the store and of the shopper keeps the invariant.
LEMMA RunKeeps == RunInv /\ [RunNext]_runVars => RunInv'
<1> SUFFICES ASSUME RunInv, [RunNext]_runVars PROVE RunInv' OBVIOUS
<1>1. CASE RunStep
  BY <1>1, KeepsBegin, KeepsAttempt, KeepsTrials, KeepsFailures, KeepsTrialSuccess,
     KeepsConclude, KeepsReapplied, KeepsCompare, KeepsRestored DEF RunStep
<1>2. CASE StoreAnswers
  BY <1>2, KeepsAttempt
<1>3. CASE Stop
  BY <1>3, KeepsFailures
<1>4. CASE UNCHANGED runVars
  BY <1>4 DEF runVars, storeVars, searchVars, RunInv, Attempting, InTouch, Submitted, Done,
     RunTypeOK, Stages, BaselineInv, SentInv, CartInv, QuotesInv, WinnerInv, OwnInv, BackInv,
     ReportTrue, OriginalBack
<1> QED BY <1>1, <1>2, <1>3, <1>4 DEF RunNext

\* RunInv is an invariant of the run.
LEMMA RunInvariant == RunSpec => []RunInv
BY RunStarts, RunKeeps, PTL DEF RunSpec

-----------------------------------------------------------------------------
(* CouponRun: the theorems                                                 *)

\* Type correctness of the run.
THEOREM RunTypes == RunSpec => []RunTypeOK
<1>1. RunInv => RunTypeOK BY DEF RunInv
<1> QED BY <1>1, RunInvariant, PTL

\* What is reported as applied is what the cart costs, and no code that was quoted lower nor
\* the shopper's own discount was passed over.
THEOREM ReportsAreTrue == RunSpec => []ReportTrue
<1>1. RunInv => ReportTrue BY DEF RunInv
<1> QED BY <1>1, RunInvariant, PTL

\* A run that fails for want of a better or confirmed code leaves the shopper's on the cart.
THEOREM OriginalComesBack == RunSpec => []OriginalBack
<1>1. RunInv => OriginalBack BY DEF RunInv
<1> QED BY <1>1, RunInvariant, PTL

\* Once the route changed or the device went dormant no code is submitted any more.
THEOREM WritingStops == RunSpec => StopsWriting
<1>1. [RunNext]_runVars => [active # "yes" => sent' \in {sent, Nothing}]_runVars
  BY DEF RunNext, RunStep, runVars, storeVars, Begin, Clear, Baseline, NextCode, Reset,
     ResetSettled, Submit, Abort, TrialSuccess, TrialFailure, TrialTimeout, Conclude, Final, Select,
     Reapplied, NotReapplied, Compare, Restored, NotRestored, Catch, Report, StoreAnswers, Stop
<1> QED BY <1>1, PTL DEF RunSpec, StopsWriting

-----------------------------------------------------------------------------
(* TabCheckout: the records the handlers keep, and how a step changes them *)

NavPc == {"idle", "load", "peek", "clear", "detect", "inject"}
NavState == [pc : NavPc, page : Page \cup {None}, same : BOOLEAN,
             kept : BOOLEAN, killed : BOOLEAN, current : BOOLEAN]
NavRec(stage, to, same, kept, killed, fresh) ==
  [pc |-> stage, page |-> to, same |-> same, kept |-> kept, killed |-> killed, current |-> fresh]
ConfirmState == [pc : {"idle", "url", "load", "save", "take", "applying"}, doc : Doc,
                 page : Page \cup {None}, interrupted : BOOLEAN]
ConfirmRec(stage, d, at, was) == [pc |-> stage, doc |-> d, page |-> at, interrupted |-> was]
ApplyState == [pc : {"idle", "load", "reset", "resolve", "attribute", "update", "inject"},
               state : State \cup {None}, continuing : BOOLEAN]
ApplyRec(stage, s, continuing) == [pc |-> stage, state |-> s, continuing |-> continuing]
StateRec(at, d, run, progress, outcome) ==
  [page |-> at, doc |-> d, run |-> run, progress |-> progress, result |-> outcome]
ApplierState == [run : Run, page : Page, told : BOOLEAN]
ApplierRec(run, at, told) == [run |-> run, page |-> at, told |-> told]

\* Every step of a navigation handler leaves it one.
LEMMA NavRecords ==
  ASSUME NEW n \in NavState
  PROVE  /\ \A x \in NavPc : [n EXCEPT !.pc = x] \in NavState
         /\ \A d \in BOOLEAN : [n EXCEPT !.current = d] \in NavState
         /\ \A x \in NavPc, y \in Page : [n EXCEPT !.pc = x, !.page = y] \in NavState
         /\ \A x \in NavPc, y \in Page, b \in BOOLEAN :
              [n EXCEPT !.pc = x, !.page = y, !.same = b] \in NavState
         /\ \A x \in NavPc, b \in BOOLEAN, d \in BOOLEAN :
              [n EXCEPT !.pc = x, !.kept = b, !.killed = d] \in NavState
         /\ \A x \in NavPc, d \in BOOLEAN : [n EXCEPT !.pc = x, !.killed = d] \in NavState
         /\ \A x \in NavPc, d \in BOOLEAN : [n EXCEPT !.pc = x, !.current = d] \in NavState
<1>1. DOMAIN n = {"pc", "page", "same", "kept", "killed", "current"} BY DEF NavState
<1>2. /\ n.pc \in NavPc /\ n.page \in Page \cup {None} /\ n.same \in BOOLEAN
      /\ n.kept \in BOOLEAN /\ n.killed \in BOOLEAN /\ n.current \in BOOLEAN
  BY DEF NavState
<1>3. \A p \in NavPc, t \in Page \cup {None}, s \in BOOLEAN, k \in BOOLEAN, l \in BOOLEAN,
         c \in BOOLEAN : NavRec(p, t, s, k, l, c) \in NavState
  BY DEF NavRec, NavState
<1>4. ASSUME NEW x \in NavPc
      PROVE  [n EXCEPT !.pc = x] \in NavState
  <2> DEFINE Field(f) == IF f = "pc" THEN x ELSE n[f]
  <2>1. [n EXCEPT !.pc = x] = [f \in DOMAIN n |-> Field(f)] BY Zenon
  <2>2. NavRec(x, n.page, n.same, n.kept, n.killed, n.current) = [f \in DOMAIN n |-> Field(f)]
    BY <1>1, SMT DEF NavRec
  <2>3. NavRec(x, n.page, n.same, n.kept, n.killed, n.current) \in NavState BY <1>2, <1>3
  <2> QED BY <2>1, <2>2, <2>3, Zenon
<1>5. ASSUME NEW d \in BOOLEAN
      PROVE  [n EXCEPT !.current = d] \in NavState
  <2> DEFINE Field(f) == IF f = "current" THEN d ELSE n[f]
  <2>1. [n EXCEPT !.current = d] = [f \in DOMAIN n |-> Field(f)] BY Zenon
  <2>2. NavRec(n.pc, n.page, n.same, n.kept, n.killed, d) = [f \in DOMAIN n |-> Field(f)]
    BY <1>1, SMT DEF NavRec
  <2>3. NavRec(n.pc, n.page, n.same, n.kept, n.killed, d) \in NavState BY <1>2, <1>3
  <2> QED BY <2>1, <2>2, <2>3, Zenon
<1>6. ASSUME NEW x \in NavPc, NEW y \in Page
      PROVE  [n EXCEPT !.pc = x, !.page = y] \in NavState
  <2> DEFINE Field(f) == IF f = "page" THEN y ELSE IF f = "pc" THEN x ELSE n[f]
  <2>1. [n EXCEPT !.pc = x, !.page = y] = [f \in DOMAIN n |-> Field(f)] BY Zenon
  <2>2. NavRec(x, y, n.same, n.kept, n.killed, n.current) = [f \in DOMAIN n |-> Field(f)]
    BY <1>1, SMT DEF NavRec
  <2>3. NavRec(x, y, n.same, n.kept, n.killed, n.current) \in NavState BY <1>2, <1>3
  <2> QED BY <2>1, <2>2, <2>3, Zenon
<1>7. ASSUME NEW x \in NavPc, NEW y \in Page, NEW b \in BOOLEAN
      PROVE  [n EXCEPT !.pc = x, !.page = y, !.same = b] \in NavState
  <2> DEFINE Field(f) == IF f = "same" THEN b ELSE IF f = "page" THEN y
                         ELSE IF f = "pc" THEN x ELSE n[f]
  <2>1. [n EXCEPT !.pc = x, !.page = y, !.same = b] = [f \in DOMAIN n |-> Field(f)] BY Zenon
  <2>2. NavRec(x, y, b, n.kept, n.killed, n.current) = [f \in DOMAIN n |-> Field(f)]
    BY <1>1, SMT DEF NavRec
  <2>3. NavRec(x, y, b, n.kept, n.killed, n.current) \in NavState BY <1>2, <1>3
  <2> QED BY <2>1, <2>2, <2>3, Zenon
<1>8. ASSUME NEW x \in NavPc, NEW b \in BOOLEAN, NEW d \in BOOLEAN
      PROVE  [n EXCEPT !.pc = x, !.kept = b, !.killed = d] \in NavState
  <2> DEFINE Field(f) == IF f = "killed" THEN d ELSE IF f = "kept" THEN b
                         ELSE IF f = "pc" THEN x ELSE n[f]
  <2>1. [n EXCEPT !.pc = x, !.kept = b, !.killed = d] = [f \in DOMAIN n |-> Field(f)] BY Zenon
  <2>2. NavRec(x, n.page, n.same, b, d, n.current) = [f \in DOMAIN n |-> Field(f)]
    BY <1>1, SMT DEF NavRec
  <2>3. NavRec(x, n.page, n.same, b, d, n.current) \in NavState BY <1>2, <1>3
  <2> QED BY <2>1, <2>2, <2>3, Zenon
<1>9. ASSUME NEW x \in NavPc, NEW d \in BOOLEAN
      PROVE  [n EXCEPT !.pc = x, !.killed = d] \in NavState
  <2> DEFINE Field(f) == IF f = "killed" THEN d ELSE IF f = "pc" THEN x ELSE n[f]
  <2>1. [n EXCEPT !.pc = x, !.killed = d] = [f \in DOMAIN n |-> Field(f)] BY Zenon
  <2>2. NavRec(x, n.page, n.same, n.kept, d, n.current) = [f \in DOMAIN n |-> Field(f)]
    BY <1>1, SMT DEF NavRec
  <2>3. NavRec(x, n.page, n.same, n.kept, d, n.current) \in NavState BY <1>2, <1>3
  <2> QED BY <2>1, <2>2, <2>3, Zenon
<1>10. ASSUME NEW x \in NavPc, NEW d \in BOOLEAN
      PROVE  [n EXCEPT !.pc = x, !.current = d] \in NavState
  <2> DEFINE Field(f) == IF f = "current" THEN d ELSE IF f = "pc" THEN x ELSE n[f]
  <2>1. [n EXCEPT !.pc = x, !.current = d] = [f \in DOMAIN n |-> Field(f)] BY Zenon
  <2>2. NavRec(x, n.page, n.same, n.kept, n.killed, d) = [f \in DOMAIN n |-> Field(f)]
    BY <1>1, SMT DEF NavRec
  <2>3. NavRec(x, n.page, n.same, n.kept, n.killed, d) \in NavState BY <1>2, <1>3
  <2> QED BY <2>1, <2>2, <2>3, Zenon
<1> QED BY <1>4, <1>5, <1>6, <1>7, <1>8, <1>9, <1>10

\* Steps of onCheckoutConfirmed.
LEMMA ConfirmRecords ==
  ASSUME NEW c \in ConfirmState
  PROVE  /\ \A x : [c EXCEPT !.pc = x] = ConfirmRec(x, c.doc, c.page, c.interrupted)
         /\ \A x, y : [c EXCEPT !.pc = x, !.doc = y] = ConfirmRec(x, y, c.page, c.interrupted)
         /\ \A x, y : [c EXCEPT !.pc = x, !.page = y] = ConfirmRec(x, c.doc, y, c.interrupted)
         /\ \A x, y : [c EXCEPT !.pc = x, !.interrupted = y] = ConfirmRec(x, c.doc, c.page, y)
<1>1. DOMAIN c = {"pc", "doc", "page", "interrupted"} BY DEF ConfirmState
<1>2. ASSUME NEW x
      PROVE  [c EXCEPT !.pc = x] = ConfirmRec(x, c.doc, c.page, c.interrupted)
  <2> DEFINE Field(f) == IF f = "pc" THEN x ELSE c[f]
  <2>1. [c EXCEPT !.pc = x] = [f \in DOMAIN c |-> Field(f)] BY Zenon
  <2>2. ConfirmRec(x, c.doc, c.page, c.interrupted) = [f \in DOMAIN c |-> Field(f)]
    BY <1>1, SMT DEF ConfirmRec
  <2> QED BY <2>1, <2>2, Zenon
<1>3. ASSUME NEW x, NEW y
      PROVE  [c EXCEPT !.pc = x, !.doc = y] = ConfirmRec(x, y, c.page, c.interrupted)
  <2> DEFINE Field(f) == IF f = "doc" THEN y ELSE IF f = "pc" THEN x ELSE c[f]
  <2>1. [c EXCEPT !.pc = x, !.doc = y] = [f \in DOMAIN c |-> Field(f)] BY Zenon
  <2>2. ConfirmRec(x, y, c.page, c.interrupted) = [f \in DOMAIN c |-> Field(f)]
    BY <1>1, SMT DEF ConfirmRec
  <2> QED BY <2>1, <2>2, Zenon
<1>4. ASSUME NEW x, NEW y
      PROVE  [c EXCEPT !.pc = x, !.page = y] = ConfirmRec(x, c.doc, y, c.interrupted)
  <2> DEFINE Field(f) == IF f = "page" THEN y ELSE IF f = "pc" THEN x ELSE c[f]
  <2>1. [c EXCEPT !.pc = x, !.page = y] = [f \in DOMAIN c |-> Field(f)] BY Zenon
  <2>2. ConfirmRec(x, c.doc, y, c.interrupted) = [f \in DOMAIN c |-> Field(f)]
    BY <1>1, SMT DEF ConfirmRec
  <2> QED BY <2>1, <2>2, Zenon
<1>5. ASSUME NEW x, NEW y
      PROVE  [c EXCEPT !.pc = x, !.interrupted = y] = ConfirmRec(x, c.doc, c.page, y)
  <2> DEFINE Field(f) == IF f = "interrupted" THEN y ELSE IF f = "pc" THEN x ELSE c[f]
  <2>1. [c EXCEPT !.pc = x, !.interrupted = y] = [f \in DOMAIN c |-> Field(f)] BY Zenon
  <2>2. ConfirmRec(x, c.doc, c.page, y) = [f \in DOMAIN c |-> Field(f)]
    BY <1>1, SMT DEF ConfirmRec
  <2> QED BY <2>1, <2>2, Zenon
<1> QED BY <1>2, <1>3, <1>4, <1>5

\* Steps of startApply.
LEMMA ApplyRecords ==
  ASSUME NEW a \in ApplyState
  PROVE  /\ \A x : [a EXCEPT !.pc = x] = ApplyRec(x, a.state, a.continuing)
         /\ \A x, y : [a EXCEPT !.pc = x, !.continuing = y] = ApplyRec(x, a.state, y)
         /\ \A x, y : [a EXCEPT !.pc = x, !.state = y] = ApplyRec(x, y, a.continuing)
<1>1. DOMAIN a = {"pc", "state", "continuing"} BY DEF ApplyState
<1>2. ASSUME NEW x
      PROVE  [a EXCEPT !.pc = x] = ApplyRec(x, a.state, a.continuing)
  <2> DEFINE Field(f) == IF f = "pc" THEN x ELSE a[f]
  <2>1. [a EXCEPT !.pc = x] = [f \in DOMAIN a |-> Field(f)] BY Zenon
  <2>2. ApplyRec(x, a.state, a.continuing) = [f \in DOMAIN a |-> Field(f)]
    BY <1>1, SMT DEF ApplyRec
  <2> QED BY <2>1, <2>2, Zenon
<1>3. ASSUME NEW x, NEW y
      PROVE  [a EXCEPT !.pc = x, !.continuing = y] = ApplyRec(x, a.state, y)
  <2> DEFINE Field(f) == IF f = "continuing" THEN y ELSE IF f = "pc" THEN x ELSE a[f]
  <2>1. [a EXCEPT !.pc = x, !.continuing = y] = [f \in DOMAIN a |-> Field(f)] BY Zenon
  <2>2. ApplyRec(x, a.state, y) = [f \in DOMAIN a |-> Field(f)]
    BY <1>1, SMT DEF ApplyRec
  <2> QED BY <2>1, <2>2, Zenon
<1>4. ASSUME NEW x, NEW y
      PROVE  [a EXCEPT !.pc = x, !.state = y] = ApplyRec(x, y, a.continuing)
  <2> DEFINE Field(f) == IF f = "state" THEN y ELSE IF f = "pc" THEN x ELSE a[f]
  <2>1. [a EXCEPT !.pc = x, !.state = y] = [f \in DOMAIN a |-> Field(f)] BY Zenon
  <2>2. ApplyRec(x, y, a.continuing) = [f \in DOMAIN a |-> Field(f)]
    BY <1>1, SMT DEF ApplyRec
  <2> QED BY <2>1, <2>2, Zenon
<1> QED BY <1>2, <1>3, <1>4

\* A state with progress, with a result, of a new run.
LEMMA StateRecords ==
  ASSUME NEW s \in State
  PROVE  /\ \A x : [s EXCEPT !.progress = x] = StateRec(s.page, s.doc, s.run, x, s.result)
         /\ \A y : [s EXCEPT !.result = y] = StateRec(s.page, s.doc, s.run, s.progress, y)
         /\ \A x, y : [s EXCEPT !.progress = x, !.result = y] = StateRec(s.page, s.doc, s.run, x, y)
         /\ \A x : [s EXCEPT !.run = x] = StateRec(s.page, s.doc, x, s.progress, s.result)
<1>1. DOMAIN s = {"page", "doc", "run", "progress", "result"} BY DEF State
<1>2. ASSUME NEW x
      PROVE  [s EXCEPT !.progress = x] = StateRec(s.page, s.doc, s.run, x, s.result)
  <2> DEFINE Field(f) == IF f = "progress" THEN x ELSE s[f]
  <2>1. [s EXCEPT !.progress = x] = [f \in DOMAIN s |-> Field(f)] BY Zenon
  <2>2. StateRec(s.page, s.doc, s.run, x, s.result) = [f \in DOMAIN s |-> Field(f)]
    BY <1>1, SMT DEF StateRec
  <2> QED BY <2>1, <2>2, Zenon
<1>3. ASSUME NEW y
      PROVE  [s EXCEPT !.result = y] = StateRec(s.page, s.doc, s.run, s.progress, y)
  <2> DEFINE Field(f) == IF f = "result" THEN y ELSE s[f]
  <2>1. [s EXCEPT !.result = y] = [f \in DOMAIN s |-> Field(f)] BY Zenon
  <2>2. StateRec(s.page, s.doc, s.run, s.progress, y) = [f \in DOMAIN s |-> Field(f)]
    BY <1>1, SMT DEF StateRec
  <2> QED BY <2>1, <2>2, Zenon
<1>4. ASSUME NEW x, NEW y
      PROVE  [s EXCEPT !.progress = x, !.result = y] = StateRec(s.page, s.doc, s.run, x, y)
  <2> DEFINE Field(f) == IF f = "result" THEN y ELSE IF f = "progress" THEN x ELSE s[f]
  <2>1. [s EXCEPT !.progress = x, !.result = y] = [f \in DOMAIN s |-> Field(f)] BY Zenon
  <2>2. StateRec(s.page, s.doc, s.run, x, y) = [f \in DOMAIN s |-> Field(f)]
    BY <1>1, SMT DEF StateRec
  <2> QED BY <2>1, <2>2, Zenon
<1>5. ASSUME NEW x
      PROVE  [s EXCEPT !.run = x] = StateRec(s.page, s.doc, x, s.progress, s.result)
  <2> DEFINE Field(f) == IF f = "run" THEN x ELSE s[f]
  <2>1. [s EXCEPT !.run = x] = [f \in DOMAIN s |-> Field(f)] BY Zenon
  <2>2. StateRec(s.page, s.doc, x, s.progress, s.result) = [f \in DOMAIN s |-> Field(f)]
    BY <1>1, SMT DEF StateRec
  <2> QED BY <2>1, <2>2, Zenon
<1> QED BY <1>2, <1>3, <1>4, <1>5

\* The run has told its progress.
LEMMA ApplierRecords ==
  ASSUME NEW p \in ApplierState
  PROVE  /\ \A x : [p EXCEPT !.told = x] = ApplierRec(p.run, p.page, x)
<1>1. DOMAIN p = {"run", "page", "told"} BY DEF ApplierState
<1>2. ASSUME NEW x
      PROVE  [p EXCEPT !.told = x] = ApplierRec(p.run, p.page, x)
  <2> DEFINE Field(f) == IF f = "told" THEN x ELSE p[f]
  <2>1. [p EXCEPT !.told = x] = [f \in DOMAIN p |-> Field(f)] BY Zenon
  <2>2. ApplierRec(p.run, p.page, x) = [f \in DOMAIN p |-> Field(f)]
    BY <1>1, SMT DEF ApplierRec
  <2> QED BY <2>1, <2>2, Zenon
<1> QED BY <1>2

\* What every handler of a navigation keeps.
NavInv == nav \in [Handler -> NavState]

\* The tab, the modes and the counters.
RestInv ==
  /\ page \in Page /\ doc \in Doc /\ detector \in BOOLEAN
  /\ interrupted \in BOOLEAN
  /\ pending \in [page : Page, live : BOOLEAN] \cup {None}
  /\ dormant \in BOOLEAN /\ setup \in BOOLEAN
  /\ changed \in {"none", "clear", "detect"}
  /\ events \in 0..MaxEvents
  /\ lastRun \in Run
  /\ starting \in {"idle", "mark", "clear", "take"}

\* onCheckoutConfirmed works for a document the tab has had, and knows its address.
ConfirmInv ==
  /\ confirm \in ConfirmState
  /\ confirm.doc <= doc
  /\ confirm.pc \in {"load", "save", "take", "applying"} => confirm.page \in Page

\* startApply works on a state once it has read one, and has reset its progress.
ApplyInv ==
  /\ apply \in ApplyState
  /\ apply.state # None => apply.state.doc <= doc
  /\ apply.pc \notin {"idle", "load"} => apply.state # None
  /\ apply.pc = "resolve" => ~apply.state.progress

\* A resumed run is not redirected again: that would leave a second continuation.
ResumedInv ==
  /\ ResumesOnce
  /\ apply.pc \in {"attribute", "update"} => ~apply.continuing

\* The Map, when it has a state, agrees with its mirror in storage, which names no document
\* the tab has not had.
StatesInv ==
  /\ memory \in State \cup {None} /\ saved \in State \cup {None}
  /\ memory # None => memory = saved
  /\ saved # None => saved.doc <= doc

Message == [type : {"confirm", "progress", "result"}, doc : Doc, run : Run]

\* The result of the run comes: it works in the present document, or its result is in the queue
\* behind the first i messages.
Comes(run, i) ==
  \/ applier # None /\ applier.run = run
  \/ \E j \in DOMAIN messages : /\ j > i
                                /\ messages[j] = [type |-> "result", doc |-> doc, run |-> run]

\* Progress told in the present document is followed by its run's result.
QueueInv ==
  /\ applier \in ApplierState \cup {None}
  /\ messages \in Seq(Message)
  /\ \A i \in DOMAIN messages : messages[i].doc <= doc
  /\ \A i \in DOMAIN messages :
       messages[i].type = "progress" /\ messages[i].doc = doc => Comes(messages[i].run, i)

\* While the present document's checkout stands at testing, a result it will take comes.
TestingInv ==
  Running(saved) /\ saved.doc = doc => \E run \in Run : saved.run \in {0, run} /\ Comes(run, 0)

TabInv ==
  /\ NavInv /\ RestInv /\ ConfirmInv /\ ApplyInv /\ ResumedInv
  /\ StatesInv /\ QueueInv /\ TestingInv

\* The parts of the invariant type every variable.
LEMMA TabTypes == TabInv => TypeOK
BY DEF TabInv, NavInv, RestInv, ConfirmInv, ApplyInv, StatesInv, QueueInv, TypeOK, NavState, NavPc,
   ConfirmState, ApplyState, ApplierState, Message

\* Navigation is the only handler of its state; setup calls a detection off.
LEMMA NavKept == TabInv /\ [Next]_vars => NavInv'
<1> SUFFICES ASSUME NavInv, RestInv, StatesInv, [Next]_vars PROVE NavInv' BY DEF TabInv
<1>0. NavIdle \in NavState BY DEF NavIdle, NavState, NavPc
<1>1. ASSUME NEW h \in Handler, NEW n \in NavState, nav' = [nav EXCEPT ![h] = n] PROVE NavInv'
  BY <1>1 DEF NavInv
<1>3. ASSUME NEW h \in Handler, NEW p \in Page, Navigate(h, p) \/ ChangeRoute(h, p) PROVE NavInv'
  <2>1. [NavIdle EXCEPT !.pc = "load", !.page = p] \in NavState BY NavRecords, Zenon, <1>0 DEF NavPc
  <2>2. [NavIdle EXCEPT !.pc = "load", !.page = p, !.same = TRUE] \in NavState
    BY NavRecords, Zenon, <1>0 DEF NavPc
  <2>3. CASE Navigate(h, p) BY <1>1, <2>1, <2>3, Zenon DEF Navigate
  <2>4. CASE ChangeRoute(h, p) BY <1>1, <2>2, <2>4, Zenon DEF ChangeRoute
  <2> QED BY <1>3, <2>3, <2>4
<1>4. ASSUME NEW h \in Handler, NavLoad(h) PROVE NavInv'
  <2> DEFINE n == nav[h]
             kept == Loaded # None /\ Loaded.page = n.page
             killed == Loaded # None /\ Loaded.run # 0 /\ Loaded.result = None
             next == IF n.same THEN "clear" ELSE "peek"
  <2>1. n \in NavState BY DEF NavInv
  <2>2. nav' = [nav EXCEPT ![h] = [n EXCEPT !.pc = next, !.kept = kept, !.killed = killed]]
    BY <1>4, Zenon DEF NavLoad
  <2>3. kept \in BOOLEAN /\ killed \in BOOLEAN /\ next \in {"clear", "peek"} BY Zenon
  <2> HIDE DEF n, kept, killed, next
  <2>4. [n EXCEPT !.pc = next, !.kept = kept, !.killed = killed] \in NavState
    BY NavRecords, <2>1, <2>3, Zenon DEF NavPc
  <2> QED BY <1>1, <2>2, <2>4, Zenon
<1>5. ASSUME NEW h \in Handler, NavPeek(h) PROVE NavInv'
  <2> DEFINE n == nav[h]
             lost == pending # None /\ (~pending.live \/ pending.page # n.page)
             killed == IF pending # None THEN lost ELSE n.killed
  <2>1. n \in NavState /\ n.killed \in BOOLEAN BY DEF NavInv, NavState
  <2>2. nav' = [nav EXCEPT ![h] = [n EXCEPT !.pc = "clear", !.killed = killed]]
    BY <1>5, Zenon DEF NavPeek
  <2>3. killed \in BOOLEAN BY <2>1, Zenon
  <2> HIDE DEF n, killed
  <2>4. [n EXCEPT !.pc = "clear", !.killed = killed] \in NavState
    BY NavRecords, <2>1, <2>3, Zenon DEF NavPc
  <2> QED BY <1>1, <2>2, <2>4, Zenon
<1>6. /\ BumpVersion(nav) \in [Handler -> NavState]
      /\ \A h \in Handler : [BumpVersion(nav)[h] EXCEPT !.pc = "detect"] \in NavState
  <2>1. BumpVersion(nav) \in [Handler -> NavState]
    <3>1. \A h \in Handler : [nav[h] EXCEPT !.current = FALSE] \in NavState
      BY NavRecords, Zenon DEF NavInv, NavPc
    <3> QED BY <3>1, Zenon DEF BumpVersion
  <2> QED BY NavRecords, <2>1 DEF NavPc
<1>7. ASSUME NEW h \in Handler, NavClear(h) PROVE NavInv'
  <2>1. CASE nav' = [nav EXCEPT ![h] = NavIdle] BY <1>0, <1>1, <2>1
  <2>2. CASE nav' = [BumpVersion(nav) EXCEPT ![h].pc = "detect"]
    <3> DEFINE b == BumpVersion(nav)
    <3>1. nav' = [b EXCEPT ![h] = [b[h] EXCEPT !.pc = "detect"]] BY <2>2, Zenon
    <3>2. b \in [Handler -> NavState] /\ [b[h] EXCEPT !.pc = "detect"] \in NavState BY <1>6
    <3> HIDE DEF b
    <3> QED BY <3>1, <3>2 DEF NavInv
  <2> QED BY <1>7, <2>1, <2>2 DEF NavClear
<1>8. ASSUME NEW h \in Handler, Rescan(h) \/ DormantChanged(h) PROVE NavInv'
  <2>1. [NavIdle EXCEPT !.pc = "detect", !.page = page] \in NavState
    BY NavRecords, Zenon, <1>0 DEF RestInv, NavPc
  <2>2. \/ nav' = [nav EXCEPT ![h] = [NavIdle EXCEPT !.pc = "detect", !.page = page]]
        \/ UNCHANGED nav
    BY <1>8, Zenon DEF Rescan, DormantChanged
  <2>3. CASE UNCHANGED nav BY <2>3 DEF NavInv
  <2> QED BY <1>1, <2>1, <2>2, <2>3, Zenon
<1>9. ASSUME NEW h \in Handler, NavDetect(h) \/ NavInject(h) PROVE NavInv'
  <2>1. nav[h] \in NavState BY DEF NavInv
  <2>2. [nav[h] EXCEPT !.pc = "inject", !.current = TRUE] \in NavState
    BY NavRecords, <2>1, Zenon DEF NavPc
  <2>3. \/ nav' = [nav EXCEPT ![h] = NavIdle]
        \/ nav' = [nav EXCEPT ![h] = [nav[h] EXCEPT !.pc = "inject", !.current = TRUE]]
    BY <1>9, Zenon DEF NavDetect, NavInject
  <2> QED BY <1>0, <1>1, <2>2, <2>3, Zenon
<1>10. CASE SetupClear
  BY <1>6, <1>10 DEF SetupClear, NavInv
<1>11. CASE UNCHANGED nav
  BY <1>11 DEF NavInv
<1>12. \/ \E h \in Handler, p \in Page : Navigate(h, p) \/ ChangeRoute(h, p)
       \/ \E h \in Handler : \/ NavLoad(h) \/ NavPeek(h) \/ NavClear(h) \/ Rescan(h)
                             \/ DormantChanged(h) \/ NavDetect(h) \/ NavInject(h)
       \/ SetupClear
       \/ UNCHANGED nav
  BY DEF Next, NavStep, MessageStep, ApplyStep, SetupStep, vars, FindCheckout, TellProgress,
     TellResult, ConfirmStart, ConfirmUrl, ConfirmLoad, ConfirmSave, ConfirmTake, ConfirmDone,
     HandleProgress, HandleResult, PressApply, ApplyLoad, ApplyReset, ApplyResolve, ApplyAttribute,
     ApplyRedirect, ApplyInject, ExpirePending, SetupStart, SetupMark, SetupTake, SetupStop,
     ChangeDormant, Recycle
<1> QED BY <1>3, <1>4, <1>5, <1>7, <1>8, <1>9, <1>10, <1>11, <1>12
\* The state of the tab is the stored one, also for a worker that has just started.
LEMMA LoadedIsSaved ==
  ASSUME StatesInv
  PROVE  /\ Loaded = saved
         /\ Load => memory' = saved /\ saved' = saved
BY DEF StatesInv, Loaded, Load

\* Only onCheckoutConfirmed changes its own progress; the tab's documents only grow.
LEMMA ConfirmKept == TabInv /\ [Next]_vars => ConfirmInv'
<1> SUFFICES ASSUME ConfirmInv, RestInv, QueueInv, [Next]_vars PROVE ConfirmInv' BY DEF TabInv
<1>0. /\ confirm.doc \in Doc /\ doc \in Doc /\ page \in Page /\ confirm \in ConfirmState
      /\ \A d \in Doc : d \in Nat
  BY BoundAssumption DEF ConfirmInv, RestInv, ConfirmState, Doc
<1>1. ConfirmIdle \in ConfirmState /\ ConfirmIdle.doc = 1 /\ ConfirmIdle.pc = "idle"
  BY BoundAssumption DEF ConfirmIdle, ConfirmState, Doc
<1>2. CASE ConfirmStart
  <2>1. CASE UNCHANGED confirm BY <1>2, <2>1 DEF ConfirmStart, ConfirmInv, pageVars
  <2>2. CASE Head(messages).doc = doc
             /\ confirm' = [ConfirmIdle EXCEPT !.pc = "url", !.doc = Head(messages).doc]
    <3>1. confirm' = ConfirmRec("url", doc, ConfirmIdle.page, ConfirmIdle.interrupted)
      BY <1>1, <2>2, ConfirmRecords, Zenon
    <3> QED BY <1>0, <1>1, <1>2, <3>1 DEF ConfirmRec, ConfirmInv, ConfirmState, ConfirmStart,
         pageVars
  <2> QED BY <1>2, <2>1, <2>2, Zenon DEF ConfirmStart
<1>3. CASE ConfirmUrl
  <2>1. CASE confirm' = ConfirmIdle
    BY <1>0, <1>1, <1>3, <2>1 DEF ConfirmUrl, ConfirmInv, pageVars, Doc
  <2>2. CASE confirm' = [confirm EXCEPT !.pc = "load", !.page = page]
    <3>1. confirm' = ConfirmRec("load", confirm.doc, page, confirm.interrupted)
      BY <1>0, <2>2, ConfirmRecords, Zenon
    <3> QED BY <1>0, <1>3, <3>1 DEF ConfirmRec, ConfirmInv, ConfirmState, ConfirmUrl, pageVars
  <2> QED BY <1>3, <2>1, <2>2, Zenon DEF ConfirmUrl
<1>4. CASE ConfirmLoad
  <2>1. CASE confirm' = ConfirmIdle
    BY <1>0, <1>1, <1>4, <2>1 DEF ConfirmLoad, ConfirmInv, pageVars, Doc
  <2>2. CASE confirm' = [confirm EXCEPT !.pc = "save", !.interrupted = interrupted]
    <3>1. \A x, y : [confirm EXCEPT !.pc = x, !.interrupted = y]
                       = ConfirmRec(x, confirm.doc, confirm.page, y)
      BY <1>0, ConfirmRecords
    <3>2. confirm' = ConfirmRec("save", confirm.doc, confirm.page, interrupted)
      BY <2>2, <3>1, Zenon
    <3> QED BY <1>0, <1>4, <3>2 DEF ConfirmRec, ConfirmInv, ConfirmState, ConfirmLoad, pageVars,
         RestInv
  <2> QED BY <1>4, <2>1, <2>2, Zenon DEF ConfirmLoad
<1>5. CASE ConfirmSave
  <2>1. confirm' = ConfirmRec("take", confirm.doc, confirm.page, confirm.interrupted)
    <3>1. confirm' = [confirm EXCEPT !.pc = "take"] BY <1>5, Zenon DEF ConfirmSave
    <3> QED BY <1>0, <3>1, ConfirmRecords, Zenon
  <2> QED BY <1>0, <1>5, <2>1 DEF ConfirmRec, ConfirmInv, ConfirmState, ConfirmSave, pageVars
<1>6. CASE ConfirmTake
  <2>1. CASE confirm' = ConfirmIdle
    BY <1>0, <1>1, <1>6, <2>1 DEF ConfirmTake, ConfirmInv, pageVars, Doc
  <2>2. CASE confirm' = [confirm EXCEPT !.pc = "applying"]
    <3>1. confirm' = ConfirmRec("applying", confirm.doc, confirm.page, confirm.interrupted)
      BY <1>0, <2>2, ConfirmRecords, Zenon
    <3> QED BY <1>0, <1>6, <3>1 DEF ConfirmRec, ConfirmInv, ConfirmState, ConfirmTake, pageVars
  <2> QED BY <1>6, <2>1, <2>2, Zenon DEF ConfirmTake
<1>7. CASE ConfirmDone
  BY <1>0, <1>1, <1>7 DEF ConfirmDone, ConfirmInv, pageVars, Doc
<1>8. CASE UNCHANGED confirm /\ (doc' = doc \/ doc' = doc + 1)
  BY <1>0, <1>8 DEF ConfirmInv
<1>9. \/ ConfirmStart \/ ConfirmUrl \/ ConfirmLoad \/ ConfirmSave \/ ConfirmTake \/ ConfirmDone
      \/ UNCHANGED confirm /\ (doc' = doc \/ doc' = doc + 1)
  BY DEF Next, NavStep, MessageStep, ApplyStep, SetupStep, vars, pageVars, Navigate, ChangeRoute,
     NavLoad, NavPeek, NavClear, Rescan, DormantChanged, NavDetect, NavInject, FindCheckout,
     TellProgress, TellResult, HandleProgress, HandleResult, PressApply, ApplyLoad, ApplyReset,
     ApplyResolve, ApplyAttribute, ApplyRedirect, ApplyInject, ExpirePending, SetupStart, SetupMark,
     SetupClear, SetupTake, SetupStop, ChangeDormant, Recycle
<1> QED BY <1>2, <1>3, <1>4, <1>5, <1>6, <1>7, <1>8, <1>9

\* Saving a state, or losing the Map, keeps the two copies apart by no more than the Map's loss.
LEMMA StatesKept == TabInv /\ [Next]_vars => StatesInv'
<1> SUFFICES ASSUME StatesInv, ConfirmInv, ApplyInv, RestInv, [Next]_vars PROVE StatesInv'
  BY DEF TabInv
<1>0. /\ confirm.doc \in Doc /\ doc \in Doc /\ confirm.doc <= doc /\ lastRun \in Run
      /\ \A d \in Doc : d \in Nat
      /\ confirm.pc = "save" => confirm.page \in Page
      /\ Loaded = saved
  BY BoundAssumption, LoadedIsSaved DEF ConfirmInv, RestInv, ConfirmState, Doc
<1>1. ASSUME NEW s \in State, s.doc <= doc, SaveState(s), UNCHANGED doc PROVE StatesInv'
  BY <1>1 DEF SaveState, StatesInv
<1>2. ASSUME memory' \in {memory, saved, None}, UNCHANGED saved, doc' = doc \/ doc' = doc + 1
      PROVE  StatesInv'
  <2>1. saved # None => saved.doc \in Nat BY <1>0 DEF StatesInv, State
  <2> QED BY <1>0, <1>2, <2>1 DEF StatesInv
<1>3. ASSUME ClearState PROVE StatesInv'
  BY <1>3 DEF ClearState, SaveState, StatesInv
<1>4. ASSUME NEW s \in State, s.doc <= doc, NEW p \in BOOLEAN,
             NEW res \in {None, "done", "interrupted"}
      PROVE  /\ [s EXCEPT !.progress = p] \in State /\ [s EXCEPT !.progress = p].doc <= doc
             /\ [s EXCEPT !.result = res] \in State /\ [s EXCEPT !.result = res].doc <= doc
             /\ [s EXCEPT !.progress = p, !.result = res] \in State
             /\ [s EXCEPT !.progress = p, !.result = res].doc <= doc
  <2>1. /\ s.page \in Page /\ s.doc \in Doc /\ s.run \in Run /\ s.progress \in BOOLEAN
        /\ s.result \in {None, "done", "interrupted"}
    BY DEF State
  <2>2. \A q \in BOOLEAN, r \in {None, "done", "interrupted"} :
          /\ StateRec(s.page, s.doc, s.run, q, r) \in State
          /\ StateRec(s.page, s.doc, s.run, q, r).doc = s.doc
    BY <2>1 DEF StateRec, State
  <2>3. /\ StateRec(s.page, s.doc, s.run, p, s.result) \in State
        /\ StateRec(s.page, s.doc, s.run, p, s.result).doc <= doc
        /\ StateRec(s.page, s.doc, s.run, s.progress, res) \in State
        /\ StateRec(s.page, s.doc, s.run, s.progress, res).doc <= doc
        /\ StateRec(s.page, s.doc, s.run, p, res) \in State
        /\ StateRec(s.page, s.doc, s.run, p, res).doc <= doc
    BY <1>4, <2>1, <2>2
  <2>4. [s EXCEPT !.progress = p] = StateRec(s.page, s.doc, s.run, p, s.result)
    BY StateRecords, Zenon
  <2>5. [s EXCEPT !.result = res] = StateRec(s.page, s.doc, s.run, s.progress, res)
    BY StateRecords, Zenon
  <2>6. \A x, y : [s EXCEPT !.progress = x, !.result = y] = StateRec(s.page, s.doc, s.run, x, y)
    BY StateRecords
  <2> QED BY <2>3, <2>4, <2>5, <2>6, Zenon
<1>5. CASE HandleProgress \/ HandleResult
  <2>1. CASE Load /\ UNCHANGED doc BY <1>2, <2>1, LoadedIsSaved
  <2>2. CASE /\ Loaded # None /\ UNCHANGED doc
             /\ \/ SaveState([Loaded EXCEPT !.progress = TRUE])
                \/ SaveState([Loaded EXCEPT !.result = "done"])
    <3>1. Loaded \in State /\ Loaded.doc <= doc BY <1>0, <2>2 DEF StatesInv
    <3> DEFINE a == [Loaded EXCEPT !.progress = TRUE]
               b == [Loaded EXCEPT !.result = "done"]
    <3>2. a \in State /\ a.doc <= doc /\ b \in State /\ b.doc <= doc
      BY <1>4, <3>1
    <3> HIDE DEF a, b
    <3>3. SaveState(a) \/ SaveState(b) BY <2>2 DEF a, b
    <3> QED BY <1>1, <2>2, <3>2, <3>3
  <2> QED BY <1>5, <2>1, <2>2, Zenon DEF HandleProgress, HandleResult, Concerns, pageVars
<1>6. CASE ConfirmSave
  <2> DEFINE s == [page |-> confirm.page, doc |-> confirm.doc, run |-> 0, progress |-> FALSE,
                   result |-> IF confirm.interrupted THEN "interrupted" ELSE None]
  <2>1. s \in State /\ s.doc <= doc
    BY <1>0, <1>6, BoundAssumption DEF ConfirmSave, State, Run
  <2> HIDE DEF s
  <2>2. SaveState(s) /\ UNCHANGED doc BY <1>6 DEF ConfirmSave, pageVars, s
  <2> QED BY <1>1, <2>1, <2>2
<1>7. CASE ApplyReset
  <2>1. CASE UNCHANGED stateVars BY <1>2, <1>7, <2>1 DEF stateVars, ApplyReset, pageVars
  <2> DEFINE r == apply.state
             s == [r EXCEPT !.progress = FALSE, !.result = None]
             t == [s EXCEPT !.result = "done"]
  <2>2. r \in State /\ r.doc <= doc
    BY <1>7 DEF ApplyReset, ApplyInv, ApplyState
  <2>3. s \in State /\ s.doc <= doc BY <1>4, <2>2
  <2> HIDE DEF s
  <2>4. t \in State /\ t.doc <= doc BY <1>4, <2>3
  <2> HIDE DEF t
  <2>5. CASE SaveState(s) BY <1>1, <1>7, <2>3, <2>5 DEF ApplyReset, pageVars
  <2>6. CASE SaveState(t) BY <1>1, <1>7, <2>4, <2>6 DEF ApplyReset, pageVars
  <2> QED BY <1>7, <2>1, <2>5, <2>6, Zenon DEF ApplyReset, s, t
<1>8. CASE ApplyResolve
  <2>1. CASE UNCHANGED stateVars BY <1>2, <1>8, <2>1 DEF stateVars, ApplyResolve, pageVars
  <2>2. CASE lastRun < MaxRun /\ SaveState([apply.state EXCEPT !.run = lastRun + 1])
    <3> DEFINE r == apply.state
               s == [r EXCEPT !.run = lastRun + 1]
    <3>1. r \in State /\ r.doc <= doc
      BY <1>8 DEF ApplyResolve, ApplyInv, ApplyState
    <3>2. s = StateRec(r.page, r.doc, lastRun + 1, r.progress, r.result) BY <3>1, StateRecords
    <3>3. lastRun + 1 \in Run BY <1>0, <2>2, BoundAssumption DEF Run
    <3>4. s \in State /\ s.doc <= doc BY <3>1, <3>2, <3>3 DEF StateRec, State
    <3> HIDE DEF s
    <3> QED BY <1>1, <1>8, <2>2, <3>4 DEF s, ApplyResolve, pageVars
  <2> QED BY <1>8, <2>1, <2>2, Zenon DEF ApplyResolve
<1>9. CASE ClearState
  BY <1>3, <1>9
<1>10. CASE memory' \in {memory, saved, None} /\ UNCHANGED saved /\ (doc' = doc \/ doc' = doc + 1)
  BY <1>2, <1>10
<1>11. \/ HandleProgress \/ HandleResult \/ ConfirmSave \/ ApplyReset \/ ApplyResolve \/ ClearState
       \/ memory' \in {memory, saved, None} /\ UNCHANGED saved /\ (doc' = doc \/ doc' = doc + 1)
  BY LoadedIsSaved DEF Next, NavStep, MessageStep, ApplyStep, SetupStep, vars, pageVars,
       stateVars, Navigate,
     ChangeRoute, NavLoad, NavPeek, NavClear, Rescan, DormantChanged, NavDetect, NavInject,
     FindCheckout, TellProgress, TellResult, ConfirmStart, ConfirmUrl, ConfirmLoad, ConfirmTake,
     ConfirmDone, PressApply, ApplyLoad, ApplyAttribute, ApplyRedirect, ApplyInject, ExpirePending,
     SetupStart, SetupMark, SetupClear, SetupTake, SetupStop, ChangeDormant, Recycle
<1> QED BY <1>5, <1>6, <1>7, <1>8, <1>9, <1>10, <1>11

\* One startApply at a time, which a redirected run enters once.
LEMMA ApplyKept == TabInv /\ [Next]_vars => ApplyInv' /\ ResumedInv'
<1> SUFFICES ASSUME ApplyInv, ResumedInv, StatesInv, RestInv, [Next]_vars
             PROVE  ApplyInv' /\ ResumedInv'
  BY DEF TabInv
<1>0. /\ apply \in ApplyState /\ apply.state \in State \cup {None} /\ apply.continuing \in BOOLEAN
      /\ doc \in Nat /\ (\A s \in State : s # None /\ s.doc \in Nat) /\ Loaded = saved
  BY BoundAssumption, NoneAssumption, LoadedIsSaved
  DEF ApplyInv, RestInv, ApplyState, State, Doc
<1>1. /\ ApplyIdle \in ApplyState /\ ApplyIdle.pc = "idle" /\ ApplyIdle.state = None
      /\ ApplyIdle.continuing = FALSE
  BY DEF ApplyIdle, ApplyState
<1>2. ASSUME NEW stage \in {"load", "reset", "resolve", "attribute", "update", "inject"},
             NEW s \in State \cup {None}, NEW on \in BOOLEAN, apply' = ApplyRec(stage, s, on),
             s # None => s.doc <= doc, stage # "load" => s # None,
             stage = "resolve" => ~s.progress, stage \in {"attribute", "update"} => ~on,
             on => pending' = None, UNCHANGED doc
      PROVE  ApplyInv' /\ ResumedInv'
  <2>1. apply'.pc = stage /\ apply'.state = s /\ apply'.continuing = on /\ apply' \in ApplyState
    BY <1>2 DEF ApplyRec, ApplyState
  <2> QED BY <1>2, <2>1 DEF ApplyInv, ResumedInv, ResumesOnce
<1>3. ASSUME apply' = ApplyIdle PROVE ApplyInv' /\ ResumedInv'
  BY <1>1, <1>3 DEF ApplyInv, ResumedInv, ResumesOnce
<1>4. ASSUME UNCHANGED apply, doc' = doc \/ doc' = doc + 1,
             pending' \in {pending, None} \/ pending # None
      PROVE  ApplyInv' /\ ResumedInv'
  BY <1>0, <1>4 DEF ApplyInv, ResumedInv, ResumesOnce
<1>5. CASE ConfirmTake
  <2>1. CASE UNCHANGED apply BY <1>4, <1>5, <2>1 DEF ConfirmTake, pageVars
  <2>2. CASE apply' = [ApplyIdle EXCEPT !.pc = "load", !.continuing = TRUE]
    <3>1. \A x, y : [ApplyIdle EXCEPT !.pc = x, !.continuing = y] = ApplyRec(x, ApplyIdle.state, y)
      BY <1>1, ApplyRecords
    <3>2. apply' = ApplyRec("load", None, TRUE) BY <1>1, <2>2, <3>1, Zenon
    <3> QED BY <1>2, <1>5, <3>2 DEF ConfirmTake, pageVars
  <2> QED BY <1>5, <2>1, <2>2, Zenon DEF ConfirmTake
<1>6. CASE PressApply
  <2>1. \A x : [ApplyIdle EXCEPT !.pc = x] = ApplyRec(x, ApplyIdle.state, ApplyIdle.continuing)
    BY <1>1, ApplyRecords
  <2>2. apply' = [ApplyIdle EXCEPT !.pc = "load"] BY <1>6, Zenon DEF PressApply
  <2>3. apply' = ApplyRec("load", None, FALSE) BY <1>1, <2>1, <2>2, Zenon
  <2> QED BY <1>2, <1>6, <2>3 DEF PressApply, pageVars
<1>a. \A x, y : [apply EXCEPT !.pc = x, !.state = y] = ApplyRec(x, y, apply.continuing)
  BY <1>0, ApplyRecords
<1>b. ASSUME NEW x, NEW y
      PROVE  [apply EXCEPT !.state = y, !.pc = x] = ApplyRec(x, y, apply.continuing)
  <2> DEFINE Field(f) == IF f = "pc" THEN x ELSE IF f = "state" THEN y ELSE apply[f]
  <2>1. [apply EXCEPT !.state = y, !.pc = x] = [f \in DOMAIN apply |-> Field(f)] BY Zenon
  <2>2. DOMAIN apply = {"pc", "state", "continuing"} BY <1>0 DEF ApplyState
  <2>3. ApplyRec(x, y, apply.continuing) = [f \in DOMAIN apply |-> Field(f)]
    BY <2>2, SMT DEF ApplyRec
  <2> QED BY <2>1, <2>3, Zenon
<1>7. CASE ApplyLoad
  <2>1. CASE apply' = ApplyIdle BY <1>3, <2>1
  <2>2. CASE Loaded # None /\ apply' = [apply EXCEPT !.pc = "reset", !.state = Loaded]
    <3>1. apply' = ApplyRec("reset", saved, apply.continuing) BY <1>0, <1>a, <2>2, Zenon
    <3>2. saved \in State /\ saved # None /\ saved.doc <= doc BY <1>0, <2>2 DEF StatesInv
    <3>3. apply.continuing => pending' = None
      BY <1>7 DEF ApplyLoad, ResumedInv, ResumesOnce
    <3> QED BY <1>0, <1>2, <1>7, <3>1, <3>2, <3>3 DEF ApplyLoad, pageVars
  <2> QED BY <1>7, <2>1, <2>2, Zenon DEF ApplyLoad
<1>8. CASE ApplyReset
  <2>1. CASE apply' = ApplyIdle BY <1>3, <2>1
  <2> DEFINE r == apply.state
             s == [r EXCEPT !.progress = FALSE, !.result = None]
  <2>2. CASE apply' = [apply EXCEPT !.pc = "resolve", !.state = s]
    <3>1. apply' = ApplyRec("resolve", s, apply.continuing) BY <1>a, <2>2, Zenon
    <3>2. r \in State /\ r.doc <= doc BY <1>0, <1>8 DEF ApplyReset, ApplyInv
    <3>3. \A x, y : [r EXCEPT !.progress = x, !.result = y] = StateRec(r.page, r.doc, r.run, x, y)
      BY <3>2, StateRecords
    <3>4. s = StateRec(r.page, r.doc, r.run, FALSE, None) BY <3>3, Zenon
    <3>5. s \in State /\ s.doc = r.doc /\ s.progress = FALSE BY <3>2, <3>4 DEF StateRec, State
    <3>6. apply.continuing => pending' = None
      BY <1>8 DEF ApplyReset, ResumedInv, ResumesOnce
    <3>7. UNCHANGED doc BY <1>8 DEF ApplyReset, pageVars
    <3> HIDE DEF s
    <3> QED BY <1>0, <1>2, <3>1, <3>2, <3>5, <3>6, <3>7
  <2> QED BY <1>8, <2>1, <2>2, Zenon DEF ApplyReset
<1>9. CASE ApplyResolve
  <2>1. CASE apply' = ApplyIdle BY <1>3, <2>1
  <2> DEFINE r == apply.state
             s == [r EXCEPT !.run = lastRun + 1]
             stage == IF apply.continuing THEN "inject" ELSE "attribute"
  <2>2. CASE lastRun < MaxRun /\ apply' = [apply EXCEPT !.state = s, !.pc = stage]
    <3>1. apply' = ApplyRec(stage, s, apply.continuing) BY <1>b, <2>2, Zenon
    <3>2. r \in State /\ r.doc <= doc BY <1>0, <1>9 DEF ApplyResolve, ApplyInv
    <3>3. \A x : [r EXCEPT !.run = x] = StateRec(r.page, r.doc, x, r.progress, r.result)
      BY <3>2, StateRecords
    <3>4. s = StateRec(r.page, r.doc, lastRun + 1, r.progress, r.result) BY <3>3, Zenon
    <3>5. s \in State /\ s.doc = r.doc
      BY <2>2, <3>2, <3>4, BoundAssumption DEF StateRec, State, RestInv, Run
    <3>6. apply.continuing => pending' = None
      BY <1>9 DEF ApplyResolve, ResumedInv, ResumesOnce
    <3>7. UNCHANGED doc BY <1>9 DEF ApplyResolve, pageVars
    <3>8. stage \in {"inject", "attribute"} /\ (stage = "attribute" => ~apply.continuing) OBVIOUS
    <3> HIDE DEF s, stage
    <3> QED BY <1>0, <1>2, <3>1, <3>2, <3>5, <3>6, <3>7, <3>8
  <2> QED BY <1>9, <2>1, <2>2, Zenon DEF ApplyResolve
<1>10. CASE ApplyAttribute
  <2>0. /\ apply.pc = "attribute" /\ ~apply.continuing /\ apply.state # None /\ UNCHANGED doc
        /\ apply.state.doc <= doc
    BY <1>0, <1>10 DEF ApplyAttribute, ApplyInv, ResumedInv, pageVars
  <2>1. CASE apply' = [apply EXCEPT !.pc = "inject"]
    <3>1. \A x : [apply EXCEPT !.pc = x] = ApplyRec(x, apply.state, apply.continuing)
      BY <1>0, ApplyRecords
    <3>2. apply' = ApplyRec("inject", apply.state, apply.continuing) BY <2>1, <3>1, Zenon
    <3> QED BY <1>0, <1>2, <2>0, <3>2
  <2>2. CASE apply' = [apply EXCEPT !.pc = "update"]
    <3>1. \A x : [apply EXCEPT !.pc = x] = ApplyRec(x, apply.state, apply.continuing)
      BY <1>0, ApplyRecords
    <3>2. apply' = ApplyRec("update", apply.state, apply.continuing) BY <2>2, <3>1, Zenon
    <3> QED BY <1>0, <1>2, <2>0, <3>2
  <2> QED BY <1>10, <2>1, <2>2, Zenon DEF ApplyAttribute
<1>11. CASE ApplyRedirect \/ ApplyInject
  BY <1>3, <1>11 DEF ApplyRedirect, ApplyInject
<1>12. \/ ConfirmTake \/ PressApply \/ ApplyLoad \/ ApplyReset \/ ApplyResolve \/ ApplyAttribute
       \/ ApplyRedirect \/ ApplyInject
       \/ /\ UNCHANGED apply /\ (doc' = doc \/ doc' = doc + 1)
          /\ pending' \in {pending, None} \/ pending # None
  BY DEF Next, NavStep, MessageStep, ApplyStep, SetupStep, vars, pageVars, Navigate, ChangeRoute,
     NavLoad, NavPeek, NavClear, Rescan, DormantChanged, NavDetect, NavInject, FindCheckout,
     TellProgress, TellResult, ConfirmStart, ConfirmUrl, ConfirmLoad, ConfirmSave, ConfirmDone,
     HandleProgress, HandleResult, ExpirePending, SetupStart, SetupMark, SetupClear, SetupTake,
     SetupStop, ChangeDormant, Recycle
<1> QED BY <1>4, <1>5, <1>6, <1>7, <1>8, <1>9, <1>10, <1>11, <1>12

\* The remaining variables keep their types.
LEMMA RestKept == TabInv /\ [Next]_vars => RestInv'
<1> SUFFICES ASSUME RestInv, ApplyInv, [Next]_vars PROVE RestInv' BY DEF TabInv
<1>1. /\ page' \in Page \cup {page}
      /\ doc' = doc \/ (doc < MaxDoc /\ doc' = doc + 1)
      /\ detector' \in {detector, TRUE, FALSE}
      /\ pending' \in {pending, None} \/ ApplyAttribute \/ ExpirePending
      /\ dormant' \in {dormant, ~dormant} /\ setup' \in {setup, TRUE, FALSE}
      /\ changed' \in {changed, "none", "clear", "detect"}
      /\ starting' \in {starting, "idle", "mark", "clear", "take"}
      /\ events' = events \/ (events < MaxEvents /\ events' = events + 1)
      /\ lastRun' = lastRun \/ (lastRun < MaxRun /\ lastRun' = lastRun + 1)
      /\ \/ interrupted' \in {interrupted, FALSE}
         \/ \E killed : interrupted' = (interrupted \/ killed)
         \/ \E known : interrupted' = (interrupted /\ known)
  BY DEF Next, NavStep, MessageStep, ApplyStep, SetupStep, vars, pageVars, modeVars, Happens,
     Navigate, ChangeRoute, NavLoad, NavPeek, NavClear, Rescan, DormantChanged, NavDetect,
     NavInject, FindCheckout, TellProgress, TellResult, ConfirmStart, ConfirmUrl, ConfirmLoad,
     ConfirmSave, ConfirmTake, ConfirmDone, HandleProgress, HandleResult, PressApply, ApplyLoad,
     ApplyReset, ApplyResolve, ApplyAttribute, ApplyRedirect, ApplyInject, ExpirePending,
     SetupStart, SetupMark, SetupClear, SetupTake, SetupStop, ChangeDormant, Recycle
<1>2. /\ page \in Page /\ doc \in Doc /\ detector \in BOOLEAN /\ interrupted \in BOOLEAN
      /\ pending \in [page : Page, live : BOOLEAN] \cup {None}
      /\ dormant \in BOOLEAN /\ setup \in BOOLEAN /\ changed \in {"none", "clear", "detect"}
      /\ events \in 0..MaxEvents /\ lastRun \in Run
      /\ starting \in {"idle", "mark", "clear", "take"}
  BY DEF RestInv
<1>3. doc' \in Doc /\ events' \in 0..MaxEvents /\ lastRun' \in Run
  BY <1>1, <1>2, BoundAssumption DEF Doc, Run
<1>4. pending' \in [page : Page, live : BOOLEAN] \cup {None}
  <2>1. CASE ApplyAttribute
    <3>1. apply.state \in State
      BY <2>1 DEF ApplyAttribute, ApplyInv, ApplyState
    <3>2. [page |-> apply.state.page, live |-> TRUE] \in [page : Page, live : BOOLEAN]
      BY <3>1 DEF State
    <3>3. pending' = pending \/ pending' = [page |-> apply.state.page, live |-> TRUE]
      BY <2>1, Zenon DEF ApplyAttribute
    <3> QED BY <1>2, <3>2, <3>3, Zenon
  <2>2. CASE ExpirePending
    <3>1. pending \in [page : Page, live : BOOLEAN] BY <1>2, <2>2 DEF ExpirePending
    <3>2. [pending EXCEPT !.live = FALSE] \in [page : Page, live : BOOLEAN] BY <3>1
    <3>3. pending' = [pending EXCEPT !.live = FALSE] BY <2>2, Zenon DEF ExpirePending
    <3> QED BY <3>2, <3>3, Zenon
  <2> QED BY <1>1, <1>2, <2>1, <2>2
<1>5. dormant' \in BOOLEAN /\ interrupted' \in BOOLEAN
  BY <1>1, <1>2, Zenon
<1>6. page' \in Page /\ detector' \in BOOLEAN /\ setup' \in BOOLEAN
  BY <1>1, <1>2
<1>7. changed' \in {"none", "clear", "detect"} /\ starting' \in {"idle", "mark", "clear", "take"}
  BY <1>1, <1>2
<1> QED BY <1>3, <1>4, <1>5, <1>6, <1>7 DEF RestInv

\* A message of the tab comes last in the queue, and what was to come still comes: a run stays
\* at work until its result is under way.
LEMMA QueueGrows ==
  ASSUME QueueInv, doc \in Doc,
         NEW type \in {"confirm", "progress", "result"}, NEW run \in Run,
         Send(type, run), UNCHANGED doc, applier' \in ApplierState \cup {None},
         type = "progress" => applier' # None /\ applier'.run = run,
         \A r : applier # None /\ applier.run = r
                  => \/ applier' # None /\ applier'.run = r
                     \/ type = "result" /\ run = r
  PROVE  /\ QueueInv'
         /\ \A r : Comes(r, 0) => Comes(r, 0)'
<1> DEFINE m == [type |-> type, doc |-> doc, run |-> run]
           n == Len(messages)
<1>1. messages \in Seq(Message) /\ m \in Message /\ n \in Nat /\ DOMAIN messages = 1..n
  BY DEF QueueInv, Message
<1>2. m.doc = doc /\ m.type = type /\ m.run = run OBVIOUS
<1>3. messages' = Append(messages, m) BY DEF Send
<1> HIDE DEF m
<1>4. /\ messages' \in Seq(Message) /\ DOMAIN messages' = 1..(n + 1)
      /\ messages'[n + 1] = m
      /\ \A i \in 1..n : messages'[i] = messages[i]
  BY <1>1, <1>3
<1> HIDE DEF n
<1>5. ASSUME NEW r, NEW i \in 0..n, Comes(r, i) PROVE Comes(r, i)'
  <2>1. CASE applier # None /\ applier.run = r
    <3>1. CASE applier' # None /\ applier'.run = r BY <3>1 DEF Comes
    <3>2. CASE type = "result" /\ run = r
      <4>1. messages'[n + 1] = [type |-> "result", doc |-> doc', run |-> r] BY <1>4, <3>2 DEF m
      <4>2. n + 1 \in DOMAIN messages' /\ n + 1 > i BY <1>1, <1>4
      <4> QED BY <4>1, <4>2 DEF Comes
    <3> QED BY <2>1, <3>1, <3>2
  <2>2. CASE \E j \in DOMAIN messages :
               j > i /\ messages[j] = [type |-> "result", doc |-> doc, run |-> r]
    <3>1. PICK j \in DOMAIN messages :
                 j > i /\ messages[j] = [type |-> "result", doc |-> doc, run |-> r]
      BY <2>2
    <3>2. j \in DOMAIN messages' /\ messages'[j] = [type |-> "result", doc |-> doc', run |-> r]
      BY <1>1, <1>4, <3>1
    <3> QED BY <3>1, <3>2 DEF Comes
  <2> QED BY <1>5, <2>1, <2>2 DEF Comes
<1>6. ASSUME NEW i \in DOMAIN messages'
      PROVE  /\ messages'[i].doc <= doc'
             /\ messages'[i].type = "progress" /\ messages'[i].doc = doc'
                  => \A r : r = messages'[i].run => Comes(r, i)'
  <2>1. CASE i = n + 1
    BY <1>2, <1>4, <2>1, BoundAssumption DEF Comes, Doc
  <2>2. CASE i \in 1..n
    <3>1. messages'[i] = messages[i] /\ i \in DOMAIN messages /\ i \in 0..n BY <1>1, <1>4, <2>2
    <3> QED BY <1>5, <3>1 DEF QueueInv
  <2> QED BY <1>1, <1>4, <2>1, <2>2
<1>7. QueueInv' BY <1>4, <1>6 DEF QueueInv, Comes
<1> QED BY <1>1, <1>5, <1>7

\* The worker takes the first message; what comes after it still comes.
LEMMA QueueShrinks ==
  ASSUME QueueInv, messages # <<>>, messages' = Tail(messages), UNCHANGED <<doc, applier>>
  PROVE  /\ QueueInv'
         /\ Head(messages) \in Message
         /\ \A r : Comes(r, 1) => Comes(r, 0)'
         /\ \A r : Comes(r, 0) /\ Head(messages) # [type |-> "result", doc |-> doc, run |-> r]
                     => Comes(r, 0)'
         /\ Head(messages).type = "progress" /\ Head(messages).doc = doc
              => \A r : r = Head(messages).run => Comes(r, 0)'
<1> DEFINE n == Len(messages)
<1>1. /\ messages \in Seq(Message) /\ n \in Nat /\ n > 0 /\ DOMAIN messages = 1..n
      /\ Head(messages) = messages[1] /\ 1 \in DOMAIN messages /\ messages[1] \in Message
  BY DEF QueueInv
<1>2. /\ messages' \in Seq(Message) /\ DOMAIN messages' = 1..(n - 1)
      /\ \A i \in 1..(n - 1) : messages'[i] = messages[i + 1]
  BY <1>1
<1> HIDE DEF n
<1>3. ASSUME NEW r, NEW i \in 0..(n - 1), Comes(r, i + 1) PROVE Comes(r, i)'
  <2>1. CASE applier # None /\ applier.run = r BY <2>1 DEF Comes
  <2>2. CASE \E j \in DOMAIN messages :
               j > i + 1 /\ messages[j] = [type |-> "result", doc |-> doc, run |-> r]
    <3>1. PICK j \in DOMAIN messages :
                 j > i + 1 /\ messages[j] = [type |-> "result", doc |-> doc, run |-> r]
      BY <2>2
    <3>2. j - 1 \in 1..(n - 1) /\ j - 1 > i /\ (j - 1) + 1 = j BY <1>1, <3>1
    <3>3. messages'[j - 1] = [type |-> "result", doc |-> doc', run |-> r] BY <1>2, <3>1, <3>2
    <3> QED BY <1>2, <3>2, <3>3 DEF Comes
  <2> QED BY <1>3, <2>1, <2>2 DEF Comes
<1>4. ASSUME NEW r, Comes(r, 1) PROVE Comes(r, 0)'
  BY <1>1, <1>3, <1>4, 0 + 1 = 1
<1>5. ASSUME NEW r, Comes(r, 0), Head(messages) # [type |-> "result", doc |-> doc, run |-> r]
      PROVE  Comes(r, 1)
  BY <1>1, <1>5 DEF Comes
<1>6. ASSUME NEW i \in DOMAIN messages'
      PROVE  /\ messages'[i].doc <= doc'
             /\ messages'[i].type = "progress" /\ messages'[i].doc = doc'
                  => \A r : r = messages'[i].run => Comes(r, i)'
  <2>1. /\ messages'[i] = messages[i + 1] /\ i + 1 \in DOMAIN messages /\ i \in 0..(n - 1)
        /\ i + 1 \in Nat
    BY <1>1, <1>2
  <2> QED BY <1>3, <2>1 DEF QueueInv
<1>7. Head(messages).type = "progress" /\ Head(messages).doc = doc => Comes(Head(messages).run, 1)
  BY <1>1 DEF QueueInv
<1>8. QueueInv'
  <2>1. applier' \in ApplierState \cup {None} BY DEF QueueInv
  <2> QED BY <1>2, <1>6, <2>1 DEF QueueInv, Comes
<1> QED BY <1>1, <1>4, <1>5, <1>7, <1>8

\* The script that has told its progress is the same run.
LEMMA ToldIsRun ==
  ASSUME applier \in ApplierState \cup {None}, TellProgress
  PROVE  applier \in ApplierState /\ applier' \in ApplierState /\ applier'.run = applier.run
<1>1. applier \in ApplierState /\ applier' = [applier EXCEPT !.told = TRUE]
  BY Zenon DEF TellProgress
<1>2. applier' = ApplierRec(applier.run, applier.page, TRUE)
  BY <1>1, ApplierRecords, Zenon
<1> QED BY <1>1, <1>2 DEF ApplierRec, ApplierState

\* Every step keeps the queue: what the scripts of the tab send and the worker takes, a run that
\* starts, a document that goes.
LEMMA QueueKept == TabInv /\ [Next]_vars => QueueInv'
<1> SUFFICES ASSUME QueueInv, RestInv, ApplyInv, [Next]_vars PROVE QueueInv' BY DEF TabInv
<1>0. doc \in Doc /\ doc \in Nat /\ applier \in ApplierState \cup {None}
  BY BoundAssumption DEF RestInv, QueueInv, Doc
<1>1. CASE FindCheckout
  <2>1. 0 \in Run /\ Send("confirm", 0) /\ UNCHANGED <<doc, applier>>
    BY <1>1, BoundAssumption DEF FindCheckout, Run
  <2> QED BY <1>0, <2>1, QueueGrows
<1>2. CASE TellProgress
  <2>1. applier' \in ApplierState /\ applier'.run = applier.run /\ applier \in ApplierState
    BY <1>0, <1>2, ToldIsRun DEF TellProgress
  <2>2. applier' # None /\ applier.run \in Run BY <2>1, NoneAssumption DEF ApplierState
  <2>3. Send("progress", applier.run) /\ UNCHANGED doc BY <1>2 DEF TellProgress
  <2> QED BY <1>0, <2>1, <2>2, <2>3, QueueGrows
<1>3. CASE TellResult
  <2>1. Send("result", applier.run) /\ UNCHANGED doc /\ applier' = None /\ applier.run \in Run
    BY <1>0, <1>3 DEF TellResult, ApplierState
  <2> QED BY <1>0, <2>1, QueueGrows
<1>4. CASE ConfirmStart \/ HandleProgress \/ HandleResult
  BY <1>4, QueueShrinks DEF ConfirmStart, HandleProgress, HandleResult, Handles, pageVars
<1>5. CASE ApplyInject
  <2>1. UNCHANGED <<doc, messages>> /\ apply.state \in State
    BY <1>5 DEF ApplyInject, ApplyInv, ApplyState
  <2>2. applier' = applier \/ (applier = None /\ page \in Page
          /\ applier' = [run |-> apply.state.run, page |-> page, told |-> FALSE])
    BY <1>5 DEF ApplyInject, RestInv
  <2>3. applier' \in ApplierState \cup {None}
    <3>1. apply.state.run \in Run BY <2>1 DEF State
    <3>2. \A a \in Run, b \in Page : [run |-> a, page |-> b, told |-> FALSE] \in ApplierState
      BY DEF ApplierState
    <3> QED BY <1>0, <2>2, <3>1, <3>2, Zenon
  <2>4. ASSUME NEW i \in DOMAIN messages, messages[i].type = "progress", messages[i].doc = doc
        PROVE  Comes(messages[i].run, i)'
    BY <2>1, <2>2, <2>4 DEF QueueInv, Comes
  <2> QED BY <2>1, <2>3, <2>4 DEF QueueInv
<1>6. CASE doc' = doc + 1 /\ applier' = None /\ UNCHANGED messages
  <2>1. \A i \in DOMAIN messages : messages[i] \in Message BY DEF QueueInv
  <2>2. \A i \in DOMAIN messages : messages[i].doc \in Nat /\ messages[i].doc <= doc
    BY <2>1, BoundAssumption DEF QueueInv, Message, Doc
  <2>3. \A i \in DOMAIN messages' : messages'[i].doc <= doc' /\ messages'[i].doc # doc'
    BY <1>0, <1>6, <2>2
  <2> QED BY <1>6, <2>3 DEF QueueInv
<1>7. CASE UNCHANGED <<doc, applier, messages>> BY <1>7 DEF QueueInv, Comes
<1>8. \/ FindCheckout \/ TellProgress \/ TellResult
      \/ ConfirmStart \/ HandleProgress \/ HandleResult
      \/ ApplyInject
      \/ doc' = doc + 1 /\ applier' = None /\ UNCHANGED messages
      \/ UNCHANGED <<doc, applier, messages>>
  BY DEF Next, NavStep, MessageStep, ApplyStep, SetupStep, vars, pageVars, Navigate, ChangeRoute,
     NavLoad, NavPeek, NavClear, Rescan, DormantChanged, NavDetect, NavInject, ConfirmUrl,
     ConfirmLoad, ConfirmSave, ConfirmTake, ConfirmDone, PressApply, ApplyLoad, ApplyReset,
     ApplyResolve, ApplyAttribute, ApplyRedirect, ExpirePending, SetupStart, SetupMark,
     SetupClear, SetupTake, SetupStop, ChangeDormant, Recycle
<1> QED BY <1>1, <1>2, <1>3, <1>4, <1>5, <1>6, <1>7, <1>8

\* A checkout of the present document that stands at testing waits for a result that comes:
\* progress is only taken from a run at work or of which the result is under way, and only the
\* result itself ends that.
LEMMA TestingKept == TabInv /\ [Next]_vars => TestingInv'
<1> SUFFICES ASSUME TestingInv, QueueInv, RestInv, ApplyInv, StatesInv, [Next]_vars
             PROVE  TestingInv'
  BY DEF TabInv
<1>0. /\ doc \in Doc /\ doc \in Nat /\ applier \in ApplierState \cup {None} /\ Loaded = saved
      /\ saved \in State \cup {None} /\ (\A s \in State : s # None /\ s.doc \in Nat)
  BY BoundAssumption, NoneAssumption, LoadedIsSaved DEF RestInv, QueueInv, Doc, StatesInv, State
<1>1. ASSUME ~Running(saved') PROVE TestingInv' BY <1>1 DEF TestingInv, Running
<1>2. ASSUME UNCHANGED <<saved, doc>>, \A r : Comes(r, 0) => Comes(r, 0)' PROVE TestingInv'
  BY <1>2 DEF TestingInv, Running, Comes
<1>3. CASE FindCheckout
  <2>1. 0 \in Run /\ Send("confirm", 0) /\ UNCHANGED <<doc, applier, saved>>
    BY <1>3, BoundAssumption DEF FindCheckout, Run, stateVars
  <2> QED BY <1>0, <1>2, <2>1, QueueGrows
<1>4. CASE TellProgress
  <2>1. applier' \in ApplierState /\ applier'.run = applier.run /\ applier \in ApplierState
    BY <1>0, <1>4, ToldIsRun DEF TellProgress
  <2>2. applier' # None /\ applier.run \in Run BY <2>1, NoneAssumption DEF ApplierState
  <2>3. Send("progress", applier.run) /\ UNCHANGED <<doc, saved>>
    BY <1>4 DEF TellProgress, stateVars
  <2> QED BY <1>0, <1>2, <2>1, <2>2, <2>3, QueueGrows
<1>5. CASE TellResult
  <2>1. /\ Send("result", applier.run) /\ UNCHANGED <<doc, saved>> /\ applier' = None
        /\ applier.run \in Run
    BY <1>0, <1>5 DEF TellResult, ApplierState, stateVars
  <2> QED BY <1>0, <1>2, <2>1, QueueGrows
<1>6. CASE ConfirmStart
  <2>1. /\ messages # <<>> /\ messages' = Tail(messages) /\ UNCHANGED <<doc, applier, saved>>
        /\ Head(messages).type = "confirm"
    BY <1>6 DEF ConfirmStart, Handles, pageVars, stateVars
  <2>2. \A r : Head(messages) # [type |-> "result", doc |-> doc, run |-> r] BY <2>1
  <2>3. \A r : Comes(r, 0) => Comes(r, 0)' BY <2>1, <2>2, QueueShrinks
  <2> QED BY <1>2, <2>1, <2>3
<1>7. CASE HandleProgress
  <2>1. /\ messages # <<>> /\ messages' = Tail(messages) /\ UNCHANGED <<doc, applier>>
        /\ Head(messages).type = "progress"
    BY <1>7 DEF HandleProgress, Handles, pageVars
  <2>2. CASE Load
    <3>1. UNCHANGED saved BY <2>2 DEF Load
    <3>2. \A r : Head(messages) # [type |-> "result", doc |-> doc, run |-> r] BY <2>1
    <3>3. \A r : Comes(r, 0) => Comes(r, 0)' BY <2>1, <3>2, QueueShrinks
    <3> QED BY <1>2, <2>1, <3>1, <3>3
  <2>3. CASE Concerns(Head(messages), saved) /\ saved' = [saved EXCEPT !.progress = TRUE]
    <3>1. saved \in State /\ saved.run \in {0, Head(messages).run} /\ saved.doc = Head(messages).doc
      BY <1>0, <2>3 DEF Concerns
    <3>2. \A x : [saved EXCEPT !.progress = x]
                   = StateRec(saved.page, saved.doc, saved.run, x, saved.result)
      BY <3>1, StateRecords
    <3>3. saved' = StateRec(saved.page, saved.doc, saved.run, TRUE, saved.result)
      BY <2>3, <3>2, Zenon
    <3>4. saved'.run = saved.run /\ saved'.doc = saved.doc BY <3>3 DEF StateRec
    <3>5. /\ Head(messages).run \in Run
          /\ Head(messages).doc = doc => \A r : r = Head(messages).run => Comes(r, 0)'
      BY <2>1, QueueShrinks DEF Message
    <3>6. CASE saved'.doc = doc'
      <4>1. PICK r \in Run : r = Head(messages).run BY <3>5
      <4>2. saved'.run \in {0, r} /\ Comes(r, 0)' BY <2>1, <3>1, <3>4, <3>5, <3>6, <4>1
      <4> QED BY <4>2 DEF TestingInv, Comes
    <3> QED BY <3>6 DEF TestingInv
  <2> QED BY <1>0, <1>7, <2>2, <2>3, Zenon DEF HandleProgress, SaveState
<1>8. CASE HandleResult
  <2>1. /\ messages # <<>> /\ messages' = Tail(messages) /\ UNCHANGED <<doc, applier>>
    BY <1>8 DEF HandleResult, Handles, pageVars
  <2>2. CASE Load /\ ~Concerns(Head(messages), saved)
    <3>1. UNCHANGED saved BY <2>2 DEF Load
    <3>2. CASE Running(saved) /\ saved.doc = doc
      <4>1. PICK r \in Run : saved.run \in {0, r} /\ Comes(r, 0) BY <3>2 DEF TestingInv
      <4>2. Head(messages) # [type |-> "result", doc |-> doc, run |-> r]
        BY <2>2, <3>2, <4>1 DEF Concerns, Running
      <4>3. Comes(r, 0)' BY <2>1, <4>1, <4>2, QueueShrinks
      <4> QED BY <3>1, <4>1, <4>3 DEF TestingInv, Comes
    <3> QED BY <2>1, <3>1, <3>2 DEF TestingInv, Running
  <2>3. CASE saved \in State /\ saved' = [saved EXCEPT !.result = "done"]
    <3>1. \A x : [saved EXCEPT !.result = x]
                   = StateRec(saved.page, saved.doc, saved.run, saved.progress, x)
      BY <2>3, StateRecords
    <3>2. saved' = StateRec(saved.page, saved.doc, saved.run, saved.progress, "done")
      BY <2>3, <3>1, Zenon
    <3>3. saved'.result = "done" BY <3>2 DEF StateRec
    <3> QED BY <1>1, <3>3, NoneAssumption DEF Running
  <2>4. Concerns(Head(messages), saved) => saved \in State BY <1>0 DEF Concerns
  <2> QED BY <1>0, <1>8, <2>2, <2>3, <2>4, Zenon DEF HandleResult, SaveState
<1>9. CASE ApplyInject
  <2>1. UNCHANGED <<doc, messages, saved>> /\ (applier' = applier \/ applier = None)
    BY <1>9 DEF ApplyInject, stateVars
  <2>2. \A r : Comes(r, 0) => Comes(r, 0)' BY <2>1 DEF Comes
  <2> QED BY <1>2, <2>1, <2>2
<1>10. CASE ConfirmSave
  <2>1. saved'.progress = FALSE BY <1>10 DEF ConfirmSave, SaveState
  <2> QED BY <1>1, <2>1 DEF Running
<1>11. CASE ApplyReset
  <2> DEFINE r == apply.state
             s == [r EXCEPT !.progress = FALSE, !.result = None]
  <2>1. r \in State BY <1>11 DEF ApplyReset, ApplyInv, ApplyState
  <2>2. \A x, y : [r EXCEPT !.progress = x, !.result = y] = StateRec(r.page, r.doc, r.run, x, y)
    BY <2>1, StateRecords
  <2>3. s = StateRec(r.page, r.doc, r.run, FALSE, None) BY <2>2, Zenon
  <2>4. s \in State /\ s.progress = FALSE BY <2>1, <2>3 DEF StateRec, State
  <2> HIDE DEF s
  <2>5. \A y : [s EXCEPT !.result = y] = StateRec(s.page, s.doc, s.run, s.progress, y)
    BY <2>4, StateRecords
  <2>6. CASE saved' = s BY <1>1, <2>4, <2>6 DEF Running
  <2>7. CASE saved' = [s EXCEPT !.result = "done"]
    <3>1. saved' = StateRec(s.page, s.doc, s.run, s.progress, "done") BY <2>5, <2>7, Zenon
    <3> QED BY <1>1, <2>4, <3>1 DEF Running, StateRec
  <2>8. CASE UNCHANGED <<saved, doc, messages, applier>> BY <1>2, <2>8 DEF Comes
  <2> QED BY <1>11, <2>6, <2>7, <2>8, Zenon DEF ApplyReset, SaveState, stateVars, pageVars, s
<1>12. CASE ApplyResolve
  <2> DEFINE r == apply.state
  <2>1. r \in State /\ ~r.progress BY <1>12 DEF ApplyResolve, ApplyInv, ApplyState
  <2>2. \A x : [r EXCEPT !.run = x] = StateRec(r.page, r.doc, x, r.progress, r.result)
    BY <2>1, StateRecords
  <2>3. CASE saved' = [r EXCEPT !.run = lastRun + 1]
    <3>1. saved' = StateRec(r.page, r.doc, lastRun + 1, r.progress, r.result) BY <2>2, <2>3, Zenon
    <3> QED BY <1>1, <2>1, <3>1 DEF Running, StateRec
  <2>4. CASE UNCHANGED <<saved, doc, messages, applier>> BY <1>2, <2>4 DEF Comes
  <2> QED BY <1>12, <2>3, <2>4, Zenon DEF ApplyResolve, SaveState, stateVars, pageVars
<1>13. CASE doc' = doc + 1 /\ UNCHANGED saved
  BY <1>0, <1>13 DEF TestingInv, StatesInv, Running
<1>14. CASE saved' = None BY <1>1, <1>14 DEF Running
<1>15. CASE UNCHANGED <<saved, doc, messages, applier>> BY <1>2, <1>15 DEF Comes
<1>16. \/ FindCheckout \/ TellProgress \/ TellResult \/ ConfirmStart
       \/ HandleProgress \/ HandleResult \/ ApplyInject \/ ConfirmSave \/ ApplyReset \/ ApplyResolve
       \/ doc' = doc + 1 /\ UNCHANGED saved
       \/ saved' = None
       \/ UNCHANGED <<saved, doc, messages, applier>>
  BY DEF Next, NavStep, MessageStep, ApplyStep, SetupStep, vars, pageVars, stateVars, Load,
     ClearState, SaveState, Navigate, ChangeRoute, NavLoad, NavPeek, NavClear, Rescan,
     DormantChanged, NavDetect, NavInject, ConfirmUrl, ConfirmLoad, ConfirmTake, ConfirmDone,
     PressApply, ApplyLoad, ApplyAttribute, ApplyRedirect, ExpirePending, SetupStart, SetupMark,
     SetupClear, SetupTake, SetupStop, ChangeDormant, Recycle
<1> QED BY <1>3, <1>4, <1>5, <1>6, <1>7, <1>8, <1>9, <1>10, <1>11, <1>12, <1>13, <1>14, <1>15, <1>16

\* The invariant holds of a tab that has just opened, and every step keeps it.
LEMMA TabInvariant == Spec => []TabInv
<1>1. Init => TabInv
  <2> SUFFICES ASSUME Init PROVE TabInv OBVIOUS
  <2>1. NavInv
    <3>1. NavIdle \in NavState BY DEF NavIdle, NavState, NavPc
    <3> QED BY <3>1 DEF Init, NavInv
  <2>2. RestInv
    <3>1. 1 \in Doc /\ 0 \in Run /\ 0 \in 0..MaxEvents BY BoundAssumption DEF Doc, Run
    <3> QED BY <3>1 DEF Init, RestInv
  <2>3. ConfirmInv
    <3>1. /\ ConfirmIdle \in ConfirmState /\ ConfirmIdle.doc = 1 /\ ConfirmIdle.pc = "idle"
      BY BoundAssumption DEF ConfirmIdle, ConfirmState, Doc
    <3> QED BY <3>1 DEF Init, ConfirmInv
  <2>4. ApplyInv /\ ResumedInv
    <3>1. ApplyIdle \in ApplyState /\ ApplyIdle.pc = "idle" /\ ApplyIdle.state = None
      BY DEF ApplyIdle, ApplyState
    <3> QED BY <3>1 DEF Init, ApplyInv, ResumedInv, ResumesOnce
  <2>5. StatesInv BY DEF Init, StatesInv
  <2>6. QueueInv BY DEF Init, QueueInv
  <2>7. TestingInv BY DEF Init, TestingInv, Running
  <2> QED BY <2>1, <2>2, <2>3, <2>4, <2>5, <2>6, <2>7 DEF TabInv
<1>2. TabInv /\ [Next]_vars => TabInv'
  BY NavKept, RestKept, ConfirmKept, ApplyKept, StatesKept, QueueKept, TestingKept DEF TabInv
<1> QED BY <1>1, <1>2, PTL DEF Spec

\* Every reachable state of a tab is well typed (the Maps and the storage mirror hold a state of
\* TabCheckoutState or nothing).
THEOREM TabCheckoutTypes == Spec => []TypeOK
BY TabInvariant, TabTypes, PTL

\* takePendingApply (called at 552) resumes a redirected run once: while it goes on no
\* continuation is left that another confirmation could take.
THEOREM ResumedOnce == Spec => []ResumesOnce
<1>1. TabInv => ResumesOnce BY DEF TabInv, ResumedInv
<1> QED BY <1>1, TabInvariant, PTL

\* The popup is not left at testing: when nothing works for the tab any more, its document's
\* checkout has an outcome.
THEOREM TestingIsLeft == Spec => []TestingEnds
<1>1. ASSUME TabInv PROVE TestingEnds
  <2> SUFFICES ASSUME messages = <<>>, applier = None, Loaded # None, Loaded.doc = doc
               PROVE  ~Running(Loaded)
    BY DEF TestingEnds
  <2>1. Loaded = saved BY <1>1, LoadedIsSaved DEF TabInv
  <2>2. \A r : ~Comes(r, 0) BY DEF Comes
  <2> QED BY <1>1, <2>1, <2>2 DEF TabInv, TestingInv
<1> QED BY <1>1, TabInvariant, PTL

\* No late or repeated message of the tab undoes a finished run.
THEOREM ResultsStay == Spec => ResultStays
<1> DEFINE Stay == /\ messages' # messages
                   /\ saved # None /\ saved.result # None
                   => \/ saved' = saved
                      \/ saved' # None /\ saved'.run = saved.run /\ saved'.result # None
<1>1. ASSUME TabInv, [Next]_vars PROVE Stay
  <2> SUFFICES ASSUME messages' # messages, saved # None, saved.result # None
               PROVE  \/ saved' = saved
                      \/ saved' # None /\ saved'.run = saved.run /\ saved'.result # None
    OBVIOUS
  <2>0. Loaded = saved /\ saved \in State BY <1>1, LoadedIsSaved DEF TabInv, StatesInv
  <2>1. CASE UNCHANGED saved BY <2>1
  <2>2. CASE HandleProgress BY <2>0, <2>2, LoadedIsSaved DEF HandleProgress, Load
  <2>3. CASE HandleResult
    <3>1. CASE Load BY <3>1 DEF Load
    <3>2. CASE saved' = [saved EXCEPT !.result = "done"]
      <4>1. \A x : [saved EXCEPT !.result = x]
                     = StateRec(saved.page, saved.doc, saved.run, saved.progress, x)
        BY <2>0, StateRecords
      <4>2. saved' = StateRec(saved.page, saved.doc, saved.run, saved.progress, "done")
        BY <3>2, <4>1, Zenon
      <4>3. saved' \in State /\ saved'.run = saved.run /\ saved'.result = "done"
        BY <2>0, <4>2 DEF StateRec, State
      <4> QED BY <4>3, NoneAssumption
    <3> QED BY <2>0, <2>3, <3>1, <3>2, Zenon DEF HandleResult, SaveState
  <2>4. HandleProgress \/ HandleResult \/ UNCHANGED saved \/ UNCHANGED messages
    BY <1>1
    DEF Next, NavStep, MessageStep, ApplyStep, SetupStep, vars, pageVars, stateVars, Navigate,
        ChangeRoute, NavLoad, NavPeek, NavClear, Rescan, DormantChanged, NavDetect, NavInject,
        FindCheckout, TellProgress, TellResult, ConfirmStart, ConfirmUrl, ConfirmLoad, ConfirmSave,
        ConfirmTake, ConfirmDone, PressApply, ApplyLoad, ApplyReset, ApplyResolve, ApplyAttribute,
        ApplyRedirect, ApplyInject, ExpirePending, SetupStart, SetupMark, SetupClear, SetupTake,
        SetupStop, ChangeDormant, Recycle
  <2> QED BY <2>1, <2>2, <2>3, <2>4
<1>2. TabInv /\ [Next]_vars => [Stay]_vars BY <1>1
<1> QED BY <1>2, TabInvariant, PTL DEF Spec, ResultStays

-----------------------------------------------------------------------------
(* AutoPopup: the handlers of the pending list *)

OpenerState == [pc : {"idle", "deferred", "still", "look", "read", "write", "open", "retry"},
                tab : Tab \cup {NoTab}, next : {NoTab, "idle", "open"},
                want : BOOLEAN, stored : SUBSET Tab, try : 0..(MaxTries - 1)]

\* The handler me further in its code.
Moved(me, stage, stored, try) ==
  [pc |-> stage, tab |-> me.tab, next |-> me.next, want |-> me.want, stored |-> stored, try |-> try]

\* The updates the handlers make, as records.
LEMMA UpdatedRecords ==
  ASSUME NEW me \in OpenerState
  PROVE  /\ \A x : [me EXCEPT !.pc = x] = Moved(me, x, me.stored, me.try)
         /\ \A x, v : [me EXCEPT !.pc = x, !.stored = v] = Moved(me, x, v, me.try)
         /\ \A x, v : [me EXCEPT !.pc = x, !.try = v] = Moved(me, x, me.stored, v)
<1>1. DOMAIN me = {"pc", "tab", "next", "want", "stored", "try"} BY DEF OpenerState
<1>2. ASSUME NEW x PROVE [me EXCEPT !.pc = x] = Moved(me, x, me.stored, me.try)
  <2> DEFINE Field(f) == IF f = "pc" THEN x ELSE me[f]
  <2>1. [me EXCEPT !.pc = x] = [f \in DOMAIN me |-> Field(f)] BY Zenon
  <2>2. Moved(me, x, me.stored, me.try) = [f \in DOMAIN me |-> Field(f)] BY <1>1, SMT DEF Moved
  <2> QED BY <2>1, <2>2, Zenon
<1>3. ASSUME NEW x, NEW v
      PROVE  [me EXCEPT !.pc = x, !.stored = v] = Moved(me, x, v, me.try)
  <2> DEFINE Field(f) == IF f = "stored" THEN v ELSE IF f = "pc" THEN x ELSE me[f]
  <2>1. [me EXCEPT !.pc = x, !.stored = v] = [f \in DOMAIN me |-> Field(f)] BY Zenon
  <2>2. Moved(me, x, v, me.try) = [f \in DOMAIN me |-> Field(f)] BY <1>1, SMT DEF Moved
  <2> QED BY <2>1, <2>2, Zenon
<1>4. ASSUME NEW x, NEW v
      PROVE  [me EXCEPT !.pc = x, !.try = v] = Moved(me, x, me.stored, v)
  <2> DEFINE Field(f) == IF f = "try" THEN v ELSE IF f = "pc" THEN x ELSE me[f]
  <2>1. [me EXCEPT !.pc = x, !.try = v] = [f \in DOMAIN me |-> Field(f)] BY Zenon
  <2>2. Moved(me, x, me.stored, v) = [f \in DOMAIN me |-> Field(f)] BY <1>1, SMT DEF Moved
  <2> QED BY <2>1, <2>2, Zenon
<1> QED BY <1>2, <1>3, <1>4

\* Where each step that updates its handler in place takes it.
LEMMA OpenerMoves ==
  ASSUME PopupTypeOK, NEW h \in Opener
  PROVE  LET me == opener[h] IN
         /\ me \in OpenerState
         /\ \A stage : GoTo(h, stage) =>
              opener' = [opener EXCEPT ![h] = Moved(me, stage, me.stored, me.try)]
         /\ ReadPending(h) =>
              opener' = [opener EXCEPT ![h] =
                IF me.want \/ me.tab \in autoPopupPending
                THEN Moved(me, "write", autoPopupPending, me.try)
                ELSE IF me.next = "open" THEN Moved(me, "open", me.stored, me.try) ELSE Idle]
         /\ WritePending(h) =>
              opener' = [opener EXCEPT ![h] =
                IF me.next = "open" THEN Moved(me, "open", me.stored, me.try) ELSE Idle]
         /\ Open(h) =>
              \/ Return(h) /\ waiting' = waiting \ {me.tab}
              \/ /\ waiting' = IF state[me.tab] = "ready" THEN waiting \cup {me.tab} ELSE waiting
                 /\ \/ SetPending(h, me.tab, TRUE, "idle")
                    \/ /\ me.try + 1 < MaxTries
                       /\ opener' = [opener EXCEPT ![h] = Moved(me, "retry", me.stored, me.try + 1)]
<1> DEFINE me == opener[h]
<1>1. opener \in [Opener -> OpenerState] BY DEF PopupTypeOK, OpenerState
<1>2. me \in OpenerState BY <1>1
<1>3. \A x : [me EXCEPT !.pc = x] = Moved(me, x, me.stored, me.try)
  BY <1>2, UpdatedRecords
<1>a. \A x, v : [me EXCEPT !.pc = x, !.stored = v] = Moved(me, x, v, me.try)
  BY <1>2, UpdatedRecords
<1>b. \A x, v : [me EXCEPT !.pc = x, !.try = v] = Moved(me, x, me.stored, v)
  BY <1>2, UpdatedRecords
<1>4. ASSUME NEW stage, GoTo(h, stage)
      PROVE  opener' = [opener EXCEPT ![h] = Moved(me, stage, me.stored, me.try)]
  <2>1. opener' = [opener EXCEPT ![h] = [opener[h] EXCEPT !.pc = stage]] BY <1>4 DEF GoTo
  <2>2. [opener[h] EXCEPT !.pc = stage] = Moved(me, stage, me.stored, me.try) BY <1>3
  <2> QED BY <2>1, <2>2, Zenon
<1>5. ASSUME ReadPending(h)
      PROVE  opener' = [opener EXCEPT ![h] =
                IF me.want \/ me.tab \in autoPopupPending
                THEN Moved(me, "write", autoPopupPending, me.try)
                ELSE IF me.next = "open" THEN Moved(me, "open", me.stored, me.try) ELSE Idle]
  <2>1. CASE me.want \/ me.tab \in autoPopupPending
    <3>1. opener' = [opener EXCEPT ![h] =
                                    [opener[h] EXCEPT !.pc = "write", !.stored = autoPopupPending]]
      BY <1>5, <2>1, Zenon DEF ReadPending
    <3>2. [opener[h] EXCEPT !.pc = "write", !.stored = autoPopupPending]
            = Moved(me, "write", autoPopupPending, me.try)
      BY <1>a
    <3> QED BY <3>1, <3>2, <2>1, Zenon
  <2>2. CASE ~(me.want \/ me.tab \in autoPopupPending)
    <3>1. opener' = [opener EXCEPT ![h] =
                       IF me.next = "open" THEN [opener[h] EXCEPT !.pc = "open"] ELSE Idle]
      BY <1>5, <2>2, Zenon DEF ReadPending
    <3>2. [opener[h] EXCEPT !.pc = "open"] = Moved(me, "open", me.stored, me.try)
      BY <1>3
    <3> QED BY <3>1, <3>2, <2>2, Zenon
  <2> QED BY <2>1, <2>2
<1>6. ASSUME WritePending(h)
      PROVE  opener' = [opener EXCEPT ![h] =
                IF me.next = "open" THEN Moved(me, "open", me.stored, me.try) ELSE Idle]
    <3>1. opener' = [opener EXCEPT ![h] =
                       IF me.next = "open" THEN [opener[h] EXCEPT !.pc = "open"] ELSE Idle]
      BY <1>6, Zenon DEF WritePending
    <3>2. [opener[h] EXCEPT !.pc = "open"] = Moved(me, "open", me.stored, me.try)
      BY <1>3
    <3> QED BY <3>1, <3>2, Zenon
<1>7. ASSUME Open(h)
      PROVE  \/ Return(h) /\ waiting' = waiting \ {me.tab}
             \/ /\ waiting' = IF state[me.tab] = "ready" THEN waiting \cup {me.tab} ELSE waiting
                /\ \/ SetPending(h, me.tab, TRUE, "idle")
                   \/ /\ me.try + 1 < MaxTries
                      /\ opener' = [opener EXCEPT ![h] = Moved(me, "retry", me.stored, me.try + 1)]
  <2> DEFINE Kept == waiting' = IF state[me.tab] = "ready" THEN waiting \cup {me.tab} ELSE waiting
             Retried == [opener[h] EXCEPT !.pc = "retry", !.try = opener[h].try + 1]
  <2>1. \/ Return(h) /\ waiting' = waiting \ {me.tab}
        \/ /\ Kept
           /\ \/ SetPending(h, me.tab, TRUE, "idle")
              \/ me.try + 1 < MaxTries /\ opener' = [opener EXCEPT ![h] = Retried]
    BY <1>7, Zenon DEF Open
  <2>2. Retried = Moved(me, "retry", me.stored, me.try + 1)
    BY <1>b
  <2> HIDE DEF Kept
  <2>3. \/ Return(h) /\ waiting' = waiting \ {me.tab}
        \/ /\ Kept
           /\ \/ SetPending(h, me.tab, TRUE, "idle")
              \/ /\ me.try + 1 < MaxTries
                 /\ opener' = [opener EXCEPT ![h] = Moved(me, "retry", me.stored, me.try + 1)]
    BY <2>1, <2>2, Zenon
  <2> QED BY <2>3, Zenon DEF Kept
<1> QED BY <1>2, <1>4, <1>5, <1>6, <1>7

\* Type correctness when no handler has run.
LEMMA PopupTypeStarts == PopupInit => PopupTypeOK
<1> SUFFICES ASSUME PopupInit PROVE PopupTypeOK OBVIOUS
<1>1. Idle \in OpenerState BY TriesAssumption DEF Idle, Started, OpenerState
<1>2. opener \in [Opener -> OpenerState] BY <1>1 DEF PopupInit
<1> QED BY <1>2 DEF PopupInit, PopupTypeOK, OpenerState

\* A handler that has not returned works for a tab.
TabKnown == \A h \in Opener : opener[h].pc # "idle" => opener[h].tab \in Tab
PopupInv == PopupTypeOK /\ TabKnown

\* Every step keeps the types, and a handler the tab it works for.
LEMMA PopupInvKept == PopupInv /\ [PopupNext]_popupVars => PopupInv'
<1> SUFFICES ASSUME PopupInv, [PopupNext]_popupVars PROVE PopupInv' OBVIOUS
<1> DEFINE Busy == {s \in OpenerState : s.pc # "idle" => s.tab \in Tab}
           Rest == /\ front \in Tab \cup {Elsewhere}
                   /\ state \in [Tab -> {"none", "ready", "taken"}]
                   /\ autoPopupPending \subseteq Tab /\ waiting \subseteq Tab
                   /\ popup \in [for : Tab \cup {NoTab}, over : Tab \cup {Elsewhere, NoTab}]
<1>0. opener \in [Opener -> Busy]
  BY DEF PopupInv, PopupTypeOK, TabKnown, OpenerState
<1>m. met' \subseteq Opener
  BY DEF PopupNext, MetAfter, popupVars, PopupInv, PopupTypeOK
<1>1. SUFFICES opener' \in [Opener -> Busy] /\ Rest'
  <2>1. opener' \in [Opener -> OpenerState] /\ TabKnown'
    BY <1>1 DEF TabKnown
  <2> QED BY <1>m, <1>1, <2>1 DEF PopupInv, PopupTypeOK, OpenerState
<1>2. Rest BY DEF PopupInv, PopupTypeOK
<1>3. CASE UNCHANGED popupVars BY <1>0, <1>2, <1>3 DEF popupVars
<1>4. ASSUME NEW h \in Opener, NEW t \in Tab \cup {Elsewhere}, NEW to \in {"none", "taken"},
             \/ Step(h) \/ (t \in Tab /\ (Confirm(h, t) \/ Leave(h, t, to))) \/ Look(h, t)
      PROVE  opener' \in [Opener -> Busy] /\ Rest'
  <2> DEFINE me == opener[h]
  <2>1. me \in Busy BY <1>0
  <2>2. \A stage \in {"deferred", "look"}, u \in Tab : Started(stage, u) \in Busy
    BY TriesAssumption DEF Started, OpenerState
  <2>3. Idle \in Busy BY TriesAssumption DEF Idle, Started, OpenerState
  <2>4. ASSUME me.pc # "idle",
               NEW stage \in {"still", "look", "write", "open", "retry"}, NEW s \in SUBSET Tab,
               NEW n \in 0..(MaxTries - 1)
        PROVE  Moved(me, stage, s, n) \in Busy
    BY <2>1, <2>4 DEF Moved, OpenerState
  <2>5. /\ me.stored \in SUBSET Tab /\ me.try \in 0..(MaxTries - 1)
        /\ me.pc # "idle" => me.tab \in Tab
    BY <2>1 DEF OpenerState
  <2> HIDE DEF Busy
  <2>6. ASSUME me.pc # "idle", NEW stage \in {"still", "look", "open"}, GoTo(h, stage)
        PROVE  opener' \in [Opener -> Busy]
    <3>1. opener' = [opener EXCEPT ![h] = Moved(me, stage, me.stored, me.try)]
      BY <2>6, OpenerMoves DEF PopupInv
    <3>2. Moved(me, stage, me.stored, me.try) \in Busy BY <2>4, <2>5, <2>6
    <3> QED BY <1>0, <3>1, <3>2
  <2>7. ASSUME NEW u \in Tab, NEW want \in BOOLEAN, NEW next \in {"idle", "open"},
               SetPending(h, u, want, next)
        PROVE  opener' \in [Opener -> Busy]
    <3>1. [pc |-> "read", tab |-> u, next |-> next, want |-> want, stored |-> {},
           try |-> opener[h].try] \in Busy
      BY <2>5 DEF OpenerState, Busy
    <3> QED BY <1>0, <2>7, <3>1 DEF SetPending
  <2>8. Return(h) => opener' \in [Opener -> Busy]
    BY <1>0, <2>3 DEF Return
  <2>9. CASE t \in Tab /\ Confirm(h, t)
    BY <1>0, <1>2, <2>2, <2>9 DEF Confirm
  <2>10. CASE t \in Tab /\ Leave(h, t, to)
    BY <1>2, <2>7, <2>10 DEF Leave
  <2>11. CASE Look(h, t)
    <3>1. popup' \in [for : Tab \cup {NoTab}, over : Tab \cup {Elsewhere, NoTab}]
      BY <2>11 DEF Look
    <3>2. opener' \in [Opener -> Busy]
      BY <1>0, <1>4, <2>2, <2>11 DEF Look
    <3> QED BY <1>2, <1>4, <2>11, <3>1, <3>2 DEF Look
  <2>12. CASE Deferred(h)
    BY <1>2, <2>6, <2>8, <2>12 DEF Deferred
  <2>13. CASE StillReady(h)
    BY <1>2, <2>5, <2>6, <2>7, <2>13 DEF StillReady
  <2>14. CASE WhenVisible(h)
    BY <1>2, <2>5, <2>7, <2>14 DEF WhenVisible
  <2>15. CASE ReadPending(h)
    <3>1. me.pc # "idle" BY <2>15 DEF ReadPending
    <3>2. Moved(me, "write", autoPopupPending, me.try) \in Busy BY <1>2, <2>4, <2>5, <3>1
    <3>3. Moved(me, "open", me.stored, me.try) \in Busy BY <1>2, <2>4, <2>5, <3>1
    <3> DEFINE new == IF me.want \/ me.tab \in autoPopupPending
                      THEN Moved(me, "write", autoPopupPending, me.try)
                      ELSE IF me.next = "open" THEN Moved(me, "open", me.stored, me.try) ELSE Idle
    <3>4. opener' = [opener EXCEPT ![h] = new] BY <2>15, OpenerMoves DEF PopupInv
    <3>5. new \in Busy BY <2>3, <3>2, <3>3
    <3> QED BY <1>0, <1>2, <2>15, <3>4, <3>5 DEF ReadPending
  <2>16. CASE WritePending(h)
    <3>1. me.pc # "idle" BY <2>16 DEF WritePending
    <3>2. Moved(me, "open", me.stored, me.try) \in Busy BY <1>2, <2>4, <2>5, <3>1
    <3> DEFINE new == IF me.next = "open" THEN Moved(me, "open", me.stored, me.try) ELSE Idle
    <3>3. opener' = [opener EXCEPT ![h] = new] BY <2>16, OpenerMoves DEF PopupInv
    <3>4. new \in Busy BY <2>3, <3>2
    <3>5. opener' \in [Opener -> Busy] BY <1>0, <3>3, <3>4
    <3>6. autoPopupPending' \subseteq Tab /\ waiting' \subseteq Tab
      BY <1>2, <2>5, <2>16, <3>1 DEF WritePending
    <3> QED BY <1>2, <2>16, <3>5, <3>6 DEF WritePending
  <2>17. CASE Open(h)
    <3>1. me.pc # "idle" /\ me.tab \in Tab BY <2>5, <2>17 DEF Open
    <3>2. opener' \in [Opener -> Busy]
      <4>1. CASE Return(h) BY <2>8, <4>1
      <4>2. CASE SetPending(h, me.tab, TRUE, "idle") BY <2>7, <3>1, <4>2
      <4>3. CASE /\ me.try + 1 < MaxTries
                 /\ opener' = [opener EXCEPT ![h] = Moved(me, "retry", me.stored, me.try + 1)]
        <5>1. me.try + 1 \in 0..(MaxTries - 1) BY <2>5, <4>3, TriesAssumption
        <5>2. Moved(me, "retry", me.stored, me.try + 1) \in Busy BY <2>4, <2>5, <3>1, <5>1
        <5> QED BY <1>0, <4>3, <5>2
      <4> QED BY <2>17, <4>1, <4>2, <4>3, OpenerMoves DEF PopupInv
    <3>3. popup' \in [for : Tab \cup {NoTab}, over : Tab \cup {Elsewhere, NoTab}]
      <4>1. popup' = popup \/ popup' = [for |-> me.tab, over |-> front]
        BY <2>17, Zenon DEF Open
      <4> QED BY <1>2, <3>1, <4>1
    <3>4. waiting' \subseteq Tab
      BY <1>2, <2>17, <3>1 DEF Open
    <3> QED BY <1>2, <2>17, <3>2, <3>3, <3>4 DEF Open
  <2>18. CASE Retry(h)
    BY <1>2, <2>5, <2>6, <2>7, <2>8, <2>18 DEF Retry
  <2> QED BY <1>4, <2>9, <2>10, <2>11, <2>12, <2>13, <2>14, <2>15, <2>16, <2>17, <2>18 DEF Step
<1> QED BY <1>3, <1>4 DEF PopupNext, Event

\* PopupInv is an invariant, for any number of overlapping handlers.
LEMMA PopupInvariant == PopupSpec => []PopupInv
<1>1. PopupInit => PopupInv
  BY PopupTypeStarts DEF PopupInit, PopupInv, TabKnown, Idle, Started
<1> QED BY <1>1, PopupInvKept, PTL DEF PopupSpec

\* Every reachable state of the popup handlers is well typed.
THEOREM PopupTypes == PopupSpec => []PopupTypeOK
<1>1. PopupInv => PopupTypeOK BY DEF PopupInv
<1> QED BY <1>1, PopupInvariant, PTL

\* The handler will put the tab back on the list, or open its popup.
Owes(me, t) ==
  /\ me.tab = t
  /\ me.pc \in {"open", "retry"} \/ (me.pc \in {"read", "write"} /\ me.want)

\* The handler is on its way to open the popup.
Opens(me) == me.pc \in {"look", "open"} \/ (me.pc \in {"read", "write"} /\ me.next = "open")

\* A waiting popup is in the list or owed by a handler, and its checkout is ready; a handler
\* opens a popup only after it has met its checkout ready.
DeferralInv ==
  /\ \A t \in waiting : state[t] = "ready"
  /\ \A t \in waiting : t \in autoPopupPending \/ \E h \in Opener : Owes(opener[h], t)
  /\ \A h \in Opener : Opens(opener[h]) => h \in met

\* What a step of one handler has to see to.
LEMMA DeferralFrame ==
  ASSUME DeferralInv, NEW h \in Opener, met' = MetAfter,
         \A g \in Opener \ {h} : opener'[g] = opener[g],
         \A t \in waiting' : state'[t] = "ready",
         \A t \in waiting' : \/ t \in autoPopupPending' \/ Owes(opener'[h], t)
                             \/ t \in waiting /\ t \notin autoPopupPending /\ ~Owes(opener[h], t),
         Opens(opener'[h]) => \/ Opens(opener[h])
                              \/ \E t \in Tab : t = opener'[h].tab /\ state'[t] = "ready"
  PROVE  DeferralInv'
<1>1. ASSUME NEW t \in waiting'
      PROVE  t \in autoPopupPending' \/ \E g \in Opener : Owes(opener'[g], t)
  <2>1. CASE t \in waiting /\ t \notin autoPopupPending /\ ~Owes(opener[h], t)
    <3>1. PICK g \in Opener : Owes(opener[g], t) BY <2>1 DEF DeferralInv
    <3>2. opener'[g] = opener[g] BY <2>1, <3>1
    <3> QED BY <3>1, <3>2
  <2> QED BY <1>1, <2>1
<1>2. ASSUME NEW g \in Opener, Opens(opener'[g]) PROVE g \in met'
  <2>1. opener'[g].pc \notin {"idle", "retry"} BY <1>2 DEF Opens
  <2>2. \/ g \in met \/ \E t \in Tab : t = opener'[g].tab /\ state'[t] = "ready"
    BY <1>2 DEF DeferralInv
  <2> QED BY <2>1, <2>2 DEF MetAfter
<1> QED BY <1>1, <1>2 DEF DeferralInv

\* Every step of every handler keeps it, whatever the others have read.
LEMMA DeferralInvKept ==
  ASSUME PopupInv, DeferralInv, met' = MetAfter, NEW h \in Opener, Step(h) \/ Event(h)
  PROVE  DeferralInv'
<1> DEFINE me == opener[h]
           New(r) == opener' = [opener EXCEPT ![h] = r]
<1>0. /\ opener \in [Opener -> OpenerState]
      /\ state \in [Tab -> {"none", "ready", "taken"}]
      /\ autoPopupPending \subseteq Tab /\ waiting \subseteq Tab
      /\ me.pc # "idle" => me.tab \in Tab
      /\ NoTab \notin Tab /\ Elsewhere \notin Tab
  BY TabAssumption DEF PopupInv, PopupTypeOK, TabKnown, OpenerState
<1>a. ASSUME NEW r, New(r)
      PROVE  opener'[h] = r /\ \A g \in Opener \ {h} : opener'[g] = opener[g]
  BY <1>0, <1>a
<1>b. ASSUME NEW t, NEW want, NEW next, SetPending(h, t, want, next)
      PROVE  /\ opener'[h].pc = "read" /\ opener'[h].tab = t /\ opener'[h].want = want
             /\ opener'[h].next = next
             /\ \A g \in Opener \ {h} : opener'[g] = opener[g]
  <2> DEFINE r == [pc |-> "read", tab |-> t, next |-> next, want |-> want, stored |-> {},
                   try |-> opener[h].try]
  <2>1. New(r) BY <1>b DEF SetPending
  <2>2. opener'[h] = r BY <2>1, <1>a
  <2> QED BY <2>1, <2>2, <1>a
<1>c. ASSUME NEW stage, GoTo(h, stage)
      PROVE  /\ opener'[h].pc = stage /\ opener'[h].tab = me.tab /\ opener'[h].want = me.want
             /\ opener'[h].next = me.next
             /\ \A g \in Opener \ {h} : opener'[g] = opener[g]
  <2>1. New(Moved(me, stage, me.stored, me.try)) BY <1>c, OpenerMoves DEF PopupInv
  <2> QED BY <2>1, <1>a DEF Moved
<1>d. ASSUME Return(h)
      PROVE  opener'[h].pc = "idle" /\ \A g \in Opener \ {h} : opener'[g] = opener[g]
  <2>1. New(Idle) BY <1>d DEF Return
  <2> QED BY <2>1, <1>a DEF Idle, Started
<1>f. /\ \A t \in waiting : state[t] = "ready"
      /\ \A r : r.pc \in {"idle", "deferred", "still"} => ~Opens(r) /\ \A t : ~Owes(r, t)
  BY DEF DeferralInv, Opens, Owes
<1> USE DEF Owes, Opens
<1>2. ASSUME NEW t \in Tab, Confirm(h, t) PROVE DeferralInv'
  <2>1. New(Started("look", t)) /\ me.pc = "idle" BY <1>2 DEF Confirm
  <2>2. /\ opener'[h].pc = "look" /\ opener'[h].tab = t
        /\ \A g \in Opener \ {h} : opener'[g] = opener[g]
    BY <2>1, <1>a DEF Started
  <2>3. state'[t] = "ready" /\ \A u \in Tab \ {t} : state'[u] = state[u]
    BY <1>0, <1>2 DEF Confirm
  <2>4. waiting' = waiting /\ autoPopupPending' = autoPopupPending BY <1>2 DEF Confirm
  <2> QED BY <1>0, <1>f, <2>1, <2>2, <2>3, <2>4, DeferralFrame
<1>3. ASSUME NEW t \in Tab, NEW to \in {"none", "taken"}, Leave(h, t, to) PROVE DeferralInv'
  <2>1. /\ \A u \in Tab \ {t} : state'[u] = state[u]
        /\ waiting' = waiting \ {t} /\ autoPopupPending' = autoPopupPending /\ me.pc = "idle"
    BY <1>0, <1>3 DEF Leave
  <2>2. /\ opener'[h].pc = "read" /\ opener'[h].tab = t /\ opener'[h].want = FALSE
        /\ opener'[h].next = "idle" /\ \A g \in Opener \ {h} : opener'[g] = opener[g]
    BY <1>3, <1>b DEF Leave
  <2> QED BY <1>0, <1>f, <2>1, <2>2, DeferralFrame
<1>4. ASSUME NEW t \in Tab \cup {Elsewhere}, Look(h, t) PROVE DeferralInv'
  <2>1. UNCHANGED <<state, autoPopupPending, waiting>> BY <1>4 DEF Look
  <2>2. CASE t = Elsewhere
    <3>1. opener' = opener BY <1>4, <2>2 DEF Look
    <3> QED BY <1>f, <2>1, <3>1, DeferralFrame
  <2>3. CASE t # Elsewhere
    <3>1. New(Started("deferred", t)) /\ me.pc = "idle" BY <1>4, <2>3 DEF Look
    <3>2. opener'[h].pc = "deferred" /\ \A g \in Opener \ {h} : opener'[g] = opener[g]
      BY <3>1, <1>a DEF Started
    <3> QED BY <1>f, <2>1, <3>1, <3>2, DeferralFrame
  <2> QED BY <2>2, <2>3
<1>5. CASE Deferred(h)
  <2>1. me.pc = "deferred" /\ UNCHANGED <<state, autoPopupPending, waiting>> BY <1>5 DEF Deferred
  <2>2. /\ opener'[h].pc \in {"still", "idle"}
        /\ \A g \in Opener \ {h} : opener'[g] = opener[g]
    BY <1>5, <1>c, <1>d DEF Deferred
  <2> QED BY <1>f, <2>1, <2>2, DeferralFrame
<1>6. CASE StillReady(h)
  <2>1. me.pc = "still" /\ UNCHANGED <<state, autoPopupPending, waiting>> BY <1>6 DEF StillReady
  <2>2. CASE state[me.tab] = "ready" /\ GoTo(h, "look")
    <3>1. /\ opener'[h].pc = "look" /\ opener'[h].tab = me.tab
          /\ \A g \in Opener \ {h} : opener'[g] = opener[g]
      BY <2>2, <1>c
    <3> QED BY <1>0, <1>f, <2>1, <2>2, <3>1, DeferralFrame
  <2>3. CASE SetPending(h, me.tab, FALSE, "idle")
    <3>1. /\ opener'[h].pc = "read" /\ opener'[h].want = FALSE /\ opener'[h].next = "idle"
          /\ \A g \in Opener \ {h} : opener'[g] = opener[g]
      BY <2>3, <1>b
    <3> QED BY <1>f, <2>1, <3>1, DeferralFrame
  <2> QED BY <1>6, <2>2, <2>3 DEF StillReady
<1>7. CASE WhenVisible(h)
  <2>1. me.pc = "look" /\ UNCHANGED <<state, autoPopupPending>> BY <1>7 DEF WhenVisible
  <2>2. CASE SetPending(h, me.tab, FALSE, "open") /\ UNCHANGED waiting
    <3>1. /\ opener'[h].pc = "read" /\ opener'[h].tab = me.tab
          /\ \A g \in Opener \ {h} : opener'[g] = opener[g]
      BY <2>2, <1>b
    <3> QED BY <1>f, <2>1, <2>2, <3>1, DeferralFrame
  <2>3. CASE /\ SetPending(h, me.tab, TRUE, "idle")
             /\ waiting' = IF state[me.tab] = "ready" THEN waiting \cup {me.tab} ELSE waiting
    <3>1. /\ opener'[h].pc = "read" /\ opener'[h].tab = me.tab /\ opener'[h].want = TRUE
          /\ opener'[h].next = "idle" /\ \A g \in Opener \ {h} : opener'[g] = opener[g]
      BY <2>3, <1>b
    <3> QED BY <1>f, <2>1, <2>3, <3>1, DeferralFrame
  <2> QED BY <1>7, <2>2, <2>3 DEF WhenVisible
<1>8. CASE ReadPending(h)
  <2>1. me.pc = "read" /\ UNCHANGED <<state, autoPopupPending, waiting>> BY <1>8 DEF ReadPending
  <2>2. CASE me.want \/ me.tab \in autoPopupPending
    <3>1. New(Moved(me, "write", autoPopupPending, me.try))
      BY <1>8, <2>2, OpenerMoves DEF PopupInv
    <3>2. /\ opener'[h].pc = "write" /\ opener'[h].tab = me.tab /\ opener'[h].want = me.want
          /\ opener'[h].next = me.next /\ \A g \in Opener \ {h} : opener'[g] = opener[g]
      BY <3>1, <1>a DEF Moved
    <3> QED BY <1>f, <2>1, <3>2, DeferralFrame
  <2>3. CASE ~(me.want \/ me.tab \in autoPopupPending) /\ me.next = "open"
    <3>1. New(Moved(me, "open", me.stored, me.try))
      BY <1>8, <2>3, OpenerMoves DEF PopupInv
    <3>2. /\ opener'[h].pc = "open" /\ opener'[h].tab = me.tab
          /\ \A g \in Opener \ {h} : opener'[g] = opener[g]
      BY <3>1, <1>a DEF Moved
    <3> QED BY <1>f, <2>1, <2>3, <3>2, DeferralFrame
  <2>4. CASE ~(me.want \/ me.tab \in autoPopupPending) /\ me.next # "open"
    <3>1. New(Idle) BY <1>8, <2>4, OpenerMoves DEF PopupInv
    <3>2. opener'[h].pc = "idle" /\ \A g \in Opener \ {h} : opener'[g] = opener[g]
      BY <3>1, <1>a DEF Idle, Started
    <3> QED BY <1>f, <2>1, <2>4, <3>2, DeferralFrame
  <2> QED BY <2>2, <2>3, <2>4
<1>9. CASE WritePending(h)
  <2>1. /\ me.pc = "write" /\ state' = state
        /\ waiting' = waiting \ (autoPopupPending \ autoPopupPending')
        /\ me.want => me.tab \in autoPopupPending'
    BY <1>9 DEF WritePending
  <2>2. CASE me.next = "open"
    <3>1. New(Moved(me, "open", me.stored, me.try))
      BY <1>9, <2>2, OpenerMoves DEF PopupInv
    <3>2. /\ opener'[h].pc = "open" /\ opener'[h].tab = me.tab
          /\ \A g \in Opener \ {h} : opener'[g] = opener[g]
      BY <3>1, <1>a DEF Moved
    <3> QED BY <1>f, <2>1, <2>2, <3>2, DeferralFrame
  <2>3. CASE me.next # "open"
    <3>1. New(Idle) BY <1>9, <2>3, OpenerMoves DEF PopupInv
    <3>2. opener'[h].pc = "idle" /\ \A g \in Opener \ {h} : opener'[g] = opener[g]
      BY <3>1, <1>a DEF Idle, Started
    <3> QED BY <1>f, <2>1, <2>3, <3>2, DeferralFrame
  <2> QED BY <2>2, <2>3
<1>10. CASE Open(h)
  <2>1. me.pc = "open" /\ UNCHANGED <<state, autoPopupPending>> BY <1>10 DEF Open
  <2>2. CASE waiting' = waiting \ {me.tab} /\ Return(h)
    BY <1>d, <1>f, <2>1, <2>2, DeferralFrame
  <2>3. CASE /\ waiting' = IF state[me.tab] = "ready" THEN waiting \cup {me.tab} ELSE waiting
             /\ SetPending(h, me.tab, TRUE, "idle")
    <3>1. /\ opener'[h].pc = "read" /\ opener'[h].tab = me.tab /\ opener'[h].want = TRUE
          /\ opener'[h].next = "idle" /\ \A g \in Opener \ {h} : opener'[g] = opener[g]
      BY <2>3, <1>b
    <3> QED BY <1>f, <2>1, <2>3, <3>1, DeferralFrame
  <2>4. CASE /\ waiting' = IF state[me.tab] = "ready" THEN waiting \cup {me.tab} ELSE waiting
             /\ New(Moved(me, "retry", me.stored, me.try + 1))
    <3>1. /\ opener'[h].pc = "retry" /\ opener'[h].tab = me.tab
          /\ \A g \in Opener \ {h} : opener'[g] = opener[g]
      BY <2>4, <1>a DEF Moved
    <3> QED BY <1>f, <2>1, <2>4, <3>1, DeferralFrame
  <2> QED BY <1>10, <2>2, <2>3, <2>4, OpenerMoves, Zenon DEF PopupInv
<1>11. CASE Retry(h)
  <2>1. me.pc = "retry" /\ UNCHANGED <<state, autoPopupPending, waiting>> BY <1>11 DEF Retry
  <2>2. CASE state[me.tab] # "ready" /\ Return(h)
    BY <1>d, <1>f, <2>1, <2>2, DeferralFrame
  <2>3. CASE state[me.tab] = "ready" /\ GoTo(h, "open")
    <3>1. /\ opener'[h].pc = "open" /\ opener'[h].tab = me.tab
          /\ \A g \in Opener \ {h} : opener'[g] = opener[g]
      BY <2>3, <1>c
    <3> QED BY <1>0, <1>f, <2>1, <2>3, <3>1, DeferralFrame
  <2>4. CASE SetPending(h, me.tab, TRUE, "idle")
    <3>1. /\ opener'[h].pc = "read" /\ opener'[h].tab = me.tab /\ opener'[h].want = TRUE
          /\ opener'[h].next = "idle" /\ \A g \in Opener \ {h} : opener'[g] = opener[g]
      BY <2>4, <1>b
    <3> QED BY <1>f, <2>1, <3>1, DeferralFrame
  <2> QED BY <1>11, <2>2, <2>3, <2>4 DEF Retry
<1> QED BY <1>2, <1>3, <1>4, <1>5, <1>6, <1>7, <1>8, <1>9, <1>10, <1>11 DEF Step, Event

\* For any number of overlapping handlers of any number of tabs, a deferred or refused popup
\* stays pending unless a write-back erases it, and what a write-back restores opens no popup
\* for a checkout that has ended (service-worker.ts:586-600, 732-747).
THEOREM PendingListIsSound == PopupSpec => []PendingListSound
<1>1. PopupInit => DeferralInv
  BY DEF PopupInit, DeferralInv, Idle, Started, Opens
<1>2. PopupInv /\ DeferralInv /\ [PopupNext]_popupVars => DeferralInv'
  <2>1. ASSUME PopupInv, DeferralInv, PopupNext PROVE DeferralInv'
    BY <2>1, DeferralInvKept DEF PopupNext
  <2>2. ASSUME DeferralInv, UNCHANGED popupVars PROVE DeferralInv'
    BY <2>2 DEF popupVars, DeferralInv
  <2> QED BY <2>1, <2>2
<1>3. DeferralInv => PendingListSound
  BY DEF DeferralInv, PendingListSound, DeferralKept, OpensForReady, AllReturned, Owes, Opens
<1> QED BY <1>1, <1>2, <1>3, PopupInvariant, PTL DEF PopupSpec

=============================================================================
