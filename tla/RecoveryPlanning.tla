------------------------- MODULE RecoveryPlanning --------------------------
(***************************************************************************)
(* plan_row as a component of its own: any row the page query can return   *)
(* is planned once, and the plan is compared with what DECISION_RULES.md   *)
(* and the build plan (steps/) say about every such row.                   *)
(***************************************************************************)
EXTENDS RecoveryRules

CONSTANT Rows     \* the rows considered

VARIABLES row,    \* one row of PAGE_QUERY, None before it is fetched
          plan    \* its RowPlan, None before plan_row has run

ASSUME RowsAssumption == Rows \subseteq RowType /\ None \notin RowType

vars == <<row, plan>>

Init == row = None /\ plan = None

FetchRow == row = None /\ row' \in Rows /\ UNCHANGED plan

Plan == row # None /\ plan = None /\ plan' = PlanRow(row) /\ UNCHANGED row

Next == FetchRow \/ Plan

Spec == Init /\ [][Next]_vars

Planned == plan # None

-----------------------------------------------------------------------------
TypeOK == row \in RowType \cup {None} /\ plan \in RowPlan \cup {None}

(***************************************************************************)
(* No payment is attempted, and none is marked recovered, unless its code, *)
(* its amount and its attempt count all permit a retry; whatever is not    *)
(* permitted changes no attempt count.  It crosses classify,               *)
(* check_afa_threshold, decide_action and the executor.                    *)
(***************************************************************************)
MoneyMovesOnlyWhenPermitted ==
  Planned =>
    /\ plan.action = "retry_scheduled" <=> RetryPermitted(row)
    /\ plan.final_status = "recovered" => RetryPermitted(row)
    /\ plan.attempts_after # row.attempt_count => RetryPermitted(row)

(***************************************************************************)
(* A halt is final: planning the row again with the attempt count it was   *)
(* written with never schedules a retry, because a retried row that halts  *)
(* has used every attempt of the cap, neither fewer nor more.              *)
(***************************************************************************)
HaltIsFinal ==
  Planned /\ plan.final_status = "halted" =>
    /\ PlanRow([row EXCEPT !.attempt_count = plan.attempts_after]).action
         # "retry_scheduled"
    /\ plan.action = "retry_scheduled" =>
         plan.attempts_after = MAX_RETRY_ATTEMPTS

(***************************************************************************)
(* A row that could not be classified, because it has no decline event or  *)
(* an unknown code, reaches a human (or, over the limit, the customer) and *)
(* no fallback branch of the rule engine is ever taken.                    *)
(***************************************************************************)
UnclassifiedGoesToAPerson ==
  Planned =>
    /\ plan.rule_fired # "unclassified_fallback"
    /\ row.decline_code = None \/ row.decline_code.text \notin KnownCodes =>
         plan.action \in {"escalated", "reauth_link_sent"}
    /\ plan.action = "reauth_link_sent" =>
         \/ row.amount > AFA_FREE_LIMIT_GENERAL
         \/ row.decline_code.text \in ComplianceCodes

(***************************************************************************)
(* steps/04_ai_layer.md:25 asks for a drafted customer message whenever    *)
(* the action is reauth_link_sent.  The code gives a row one AI job only:  *)
(* the links without a message are, exactly, those of the rows with an     *)
(* unknown code and an amount over the limit, as a padded code is not      *)
(* unknown and an unknown one never is a mandate issue.                    *)
(***************************************************************************)
LinkWithoutMessageIsUnmapped ==
  Planned =>
    (plan.action = "reauth_link_sent" /\ plan.ai_task # "message" <=>
       /\ row.amount > AfaFreeLimitFor(row.mandate_category)
       /\ ~NoDeclineCode(row.decline_code) /\ row.decline_code.text \notin KnownCodes)
=============================================================================
