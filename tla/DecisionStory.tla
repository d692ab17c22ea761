--------------------------- MODULE DecisionStory ---------------------------
(***************************************************************************)
(* The story the detail page of the dashboard tells of a decision: the     *)
(* snapshot plan_row leaves in audit_log, what _merge_ai makes of it when  *)
(* the model was asked for a bucket, and humanize_decision, which reads    *)
(* nothing but that snapshot.  A line is known by the fields it renders;   *)
(* the customer's message is shown beside the story and is no part of it.  *)
(***************************************************************************)
EXTENDS RecoveryPlanning

ASSUME StoryAssumption == None \notin [made : Int, recovered : BOOLEAN]

\* The value of an AIResult: a bucket, or None when the call did not succeed.
Suggestions == {"soft", "hard", "technical", "compliance", None}

\* plan.snapshot as plan_row leaves it.
AuditSnapshot(r, p) ==
  [mapped           |-> ~IsUnmapped(r.decline_code),
   bucket           |-> Classify(r.decline_code),
   afa_required     |-> AfaRequired(r.amount, r.mandate_category),
   rule_fired       |-> p.rule_fired,
   action_taken     |-> p.action,
   retry_simulation |-> IF p.action = "retry_scheduled"
                        THEN [made      |-> p.attempts_after - r.attempt_count,
                              recovered |-> p.final_status = "recovered"]
                        ELSE None,
   status_after     |-> p.final_status,
   suggestion       |-> None,
   reasoning_source |-> p.reasoning_source]

\* Mutant: the reason is set on the plan and not on its snapshot.
MergeAnswerIntoPlan(s, p, value) ==
  IF p.ai_task = "classify" THEN [s EXCEPT !.suggestion = value] ELSE s

\* _merge_ai of a classification.
MergeAnswer(s, p, value) ==
  IF p.ai_task = "classify"
  THEN [s EXCEPT !.suggestion = value,
                 !.reasoning_source = IF value # None THEN "ai_classifier"
                                                      ELSE "ai_fallback"]
  ELSE s

\* Which of its three sentences the story has about the code.
CodeLine(s) ==
  CASE s.mapped                           -> "maps to the bucket"
    [] ~s.mapped /\ s.suggestion # None   -> "not in the taxonomy, AI suggestion"
    [] ~s.mapped /\ s.suggestion = None   -> "not in the taxonomy"

\* Mutant: the sentence of unknown codes is used for all of the rule.
RuleLineOfRule(s) ==
  IF s.rule_fired = "compliance_decline_no_retry" THEN "not in the taxonomy"
                                                  ELSE s.rule_fired

\* The rule that sends a link and the one that escalates have the same name.
RuleLine(s) ==
  IF s.rule_fired = "compliance_decline_no_retry" /\ s.action_taken = "escalated"
  THEN "not in the taxonomy" ELSE s.rule_fired

\* humanize_decision
Story(s) ==
  [code    |-> CodeLine(s),
   bucket  |-> s.bucket,
   afa     |-> s.afa_required,
   rule    |-> RuleLine(s),
   retries |-> s.retry_simulation,
   action  |-> s.action_taken,
   status  |-> s.status_after,
   by      |-> s.reasoning_source]

\* What the page can show of the planned row.
Stories == {Story(MergeAnswer(AuditSnapshot(row, plan), plan, value)) :
              value \in Suggestions}

Exhausted == {"soft_retries_exhausted", "technical_retries_exhausted"}

StoryAgrees(story) ==
  /\ story.by = "ai_classifier" <=> story.code = "not in the taxonomy, AI suggestion"
  /\ story.by = "deterministic_rule" <=> story.code = "maps to the bucket"
  /\ story.rule = "afa_threshold_exceeded" <=> story.afa
  /\ story.rule = "not in the taxonomy" /\ story.code = "maps to the bucket" <=>
       NoDeclineCode(row.decline_code) /\ ~story.afa
  /\ story.action = "retry_scheduled" <=> story.retries # None
  /\ story.retries # None =>
       /\ ~story.afa /\ story.bucket \in RetryableBuckets
       /\ story.retries.recovered <=> story.status = "recovered"

StoryHolds(story) ==
  /\ story.code # "maps to the bucket" =>
       ~NoDeclineCode(row.decline_code) /\ row.decline_code.text \notin KnownCodes
  /\ story.rule = "not in the taxonomy" =>
       NoDeclineCode(row.decline_code) \/ row.decline_code.text \notin KnownCodes
  /\ story.rule \in Exhausted => row.attempt_count >= MAX_RETRY_ATTEMPTS
  /\ story.retries # None =>
       LET used == row.attempt_count + story.retries.made
       IN  /\ story.retries.made > 0 /\ used <= MAX_RETRY_ATTEMPTS
           /\ ~story.retries.recovered => used = MAX_RETRY_ATTEMPTS

(***************************************************************************)
(* The lines of a story do not contradict each other, whichever functions  *)
(* they come from and whatever the model answered: the AI is credited with *)
(* a suggestion exactly when one is shown, a decision "by a hard-coded     *)
(* rule (no AI)" shows none, retries are reported of nothing that is above *)
(* the limit or not in a bucket that is retried, and they end as the       *)
(* status says.  Two lines do contradict each other, exactly when a row    *)
(* has no code and is within the limit: it is called mapped                *)
(* (worker.py:171, 228) and not in the taxonomy (dashboard.py:241) at once.*)
(***************************************************************************)
StoryIsConsistent == Planned => \A story \in Stories : StoryAgrees(story)

(***************************************************************************)
(* What the sentences say of the row is so: a code said to be outside the  *)
(* taxonomy is, attempts that are reported were left under the cap, and    *)
(* "all 3 retries were used up" is only said when they were, by this run   *)
(* or before it (dashboard.py:187, 191).                                   *)
(***************************************************************************)
StoryIsTrueOfTheRow == Planned => \A story \in Stories : StoryHolds(story)
=============================================================================
