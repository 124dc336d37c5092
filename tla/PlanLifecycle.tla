--------------------------- MODULE PlanLifecycle ---------------------------
(***************************************************************************)
(* What an execution contract promises, without saying how: a plan is      *)
(* opened once, at most once broken or executed, and it ends with exactly  *)
(* one logged outcome, which fits how it went.  This is the outcome table  *)
(* of the work-lifecycle documentation; ExecutionContract implements it.   *)
(***************************************************************************)
EXTENDS Naturals

VARIABLES
  stage,    \* of the plan in force: "none", "active", "broken", "executed"
  foreign,  \* a model other than the submitter is on record as its executor
  touched,  \* an edit followed the execution, during a review
  opened,   \* plans accepted so far
  closed,   \* outcomes logged so far
  outcome   \* the last one

plan == <<stage, foreign, touched>>
vars == <<plan, opened, closed, outcome>>

NoPlan == stage = "none" /\ ~foreign /\ ~touched

Init == NoPlan /\ opened = 0 /\ closed = 0 /\ outcome = "none"

FreshPlan == stage' = "active" /\ ~foreign' /\ ~touched'

LogOutcome(o) == closed' = closed + 1 /\ outcome' = o

Open ==
  /\ stage = "none" /\ FreshPlan
  /\ opened' = opened + 1
  /\ UNCHANGED <<closed, outcome>>

(* A different model starts serving the plan.                              *)
Attribute ==
  /\ stage \in {"active", "executed"} /\ ~foreign /\ foreign'
  /\ UNCHANGED <<stage, touched, opened, closed, outcome>>

(* The step that ends execution may be the one that finds the executor.    *)
Progress(s) ==
  /\ stage = "active" /\ stage' = s /\ (foreign => foreign')
  /\ UNCHANGED <<touched, opened, closed, outcome>>

Touch ==
  /\ stage = "executed" /\ foreign /\ touched'
  /\ UNCHANGED <<stage, foreign, opened, closed, outcome>>

(* How a plan left at the end of its entry is logged.                      *)
EndOutcome ==
  CASE stage = "broken"   -> "broken"
    [] stage = "active"   -> "unfinished"
    [] stage = "executed" -> IF touched THEN "fixed" ELSE "clean"

End ==
  /\ stage # "none" /\ LogOutcome(EndOutcome)
  /\ stage' = "none" /\ ~foreign' /\ ~touched'
  /\ UNCHANGED opened

(* A new plan replaces one that is no longer active; a plan submitted      *)
(* during a review is rework of the one under review.                      *)
Replace ==
  /\ stage \in {"broken", "executed"} /\ FreshPlan
  /\ opened' = opened + 1
  /\ LogOutcome(IF stage = "executed" /\ foreign THEN "rework" ELSE EndOutcome)

Next ==
  \/ Open \/ Attribute \/ Touch \/ End \/ Replace
  \/ Progress("broken") \/ Progress("executed")

Spec == Init /\ [][Next]_vars

(* Every plan but the one in force has its one outcome.                    *)
OneOutcomeEach == opened = closed + (IF stage = "none" THEN 0 ELSE 1)
=============================================================================
