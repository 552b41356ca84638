----------------------------- MODULE MCCrawlJob -----------------------------
(***************************************************************************)
(* Instances of CrawlJob for TLC: which disturbances a run allows, and how *)
(* often.  Continuation ids are interchangeable, the session's own job id  *)
(* is not.                                                                 *)
(***************************************************************************)
EXTENDS CrawlJob, TLC

CONSTANTS
  Requests, Pauses, Aborts, Cancels, Crashes, Faults,
  Together    \* how many aborts and failures one session suffers

McBudget ==
  [request |-> Requests, pause |-> Pauses, abort |-> Aborts,
   cancel |-> Cancels, crash |-> Crashes, fault |-> Faults]

McSymmetry == Permutations(Jobs \ {Main})

(* A constraint on what is left of the budget.  It cuts off nothing but    *)
(* aborts and failures, which no fairness condition asks for, so it leaves *)
(* out behaviours and makes none: liveness may be checked under it.        *)
AsDisturbed ==
  Aborts + Cancels + Crashes + Faults
    <= Together + budget.abort + budget.cancel + budget.crash + budget.fault
=============================================================================
