--------------------------- MODULE RecoveryRules ---------------------------
(***************************************************************************)
(* The deterministic policy engine (src/rules.py), the constants it reads  *)
(* (src/config.py), the mock retry executor (src/executor.py) and the      *)
(* planning function of the worker (plan_row in src/worker.py), all of     *)
(* them pure functions of one row of the page query.                       *)
(*                                                                         *)
(* A decline code is None or [text, padded]: `text` is the code without    *)
(* surrounding white space, `padded` says whether the stored string has    *)
(* any, so the truth value of the string and .strip() are both expressible.*)
(* `luck` stands for the random stream that rng_for() seeds from the       *)
(* transaction id: the index of its first draw that falls below the        *)
(* success probability of the bucket.  Times are in minutes.               *)
(***************************************************************************)
EXTENDS Integers

CONSTANT None

(***************************************************************************)
(* src/config.py                                                           *)
(***************************************************************************)
AFA_FREE_LIMIT_GENERAL  == 1500000
AFA_FREE_LIMIT_PRIORITY == 10000000
PRIORITY_CATEGORIES     == {"mutual_fund_sip", "insurance", "credit_card_bill"}
MAX_RETRY_ATTEMPTS      == 3
MinutesPerDay           == 1440
RETRY_SCHEDULE_DAYS     == [i \in 0..2 |-> i + 1]
TECHNICAL_RETRY_MINUTES == 60

SoftCodes       == {"Z9", "U19", "Z7"}
HardCodes       == {"ZM", "ZA", "U01", "U69", "ZE", "U66"}
TechnicalCodes  == {"U30", "U28", "U67", "YB", "M0", "XH"}
ComplianceCodes == {"V3", "AFA_required", "mandate_cancelled", "mandate_expired"}
KnownCodes      == SoftCodes \cup HardCodes \cup TechnicalCodes \cup ComplianceCodes

CONSERVATIVE_BUCKET == "compliance"
RetryableBuckets    == {"soft", "technical"}

Category == {"general"} \cup PRIORITY_CATEGORIES
Code     == {None} \cup [text : STRING, padded : BOOLEAN]

AfaFreeLimitFor(category) ==
  IF category \in PRIORITY_CATEGORIES THEN AFA_FREE_LIMIT_PRIORITY
                                      ELSE AFA_FREE_LIMIT_GENERAL

(***************************************************************************)
(* src/rules.py                                                            *)
(***************************************************************************)
\* `not decline_code`: NULL and the empty string are both falsy.
NoDeclineCode(code) == code = None \/ code = [text |-> "", padded |-> FALSE]

\* Mutant: an unknown code is treated as the mildest kind of decline.
BucketOfLenient(text) ==
  CASE text \in HardCodes       -> "hard"
    [] text \in TechnicalCodes  -> "technical"
    [] text \in ComplianceCodes -> "compliance"
    [] OTHER                    -> "soft"

\* DECLINE_CODE_BUCKETS.get(text, CONSERVATIVE_BUCKET)
BucketOf(text) ==
  CASE text \in SoftCodes      -> "soft"
    [] text \in HardCodes      -> "hard"
    [] text \in TechnicalCodes -> "technical"
    [] OTHER                   -> CONSERVATIVE_BUCKET

Classify(code) ==
  IF NoDeclineCode(code) THEN CONSERVATIVE_BUCKET ELSE BucketOf(code.text)

IsMandateIssue(code) == ~NoDeclineCode(code) /\ code.text \in ComplianceCodes

\* Mutant: one limit for every category.
AfaRequiredFlat(amount, category) == amount > AFA_FREE_LIMIT_GENERAL

AfaRequired(amount, category) == amount > AfaFreeLimitFor(category)

Decision(action, rule, delay) ==
  [action |-> action, rule_fired |-> rule, retry_after |-> delay]

\* soft and technical declines share the cap and differ in what follows it.
DecideRetry(attempts, retry, exhausted) ==
  IF attempts < MAX_RETRY_ATTEMPTS THEN retry ELSE exhausted

\* The AFA check outranks the bucket.
DecideAction(bucket, afaRequired, attempts, mandateIssue) ==
  IF afaRequired
  THEN Decision("reauth_link_sent", "afa_threshold_exceeded", None)
  ELSE CASE bucket = "compliance" ->
              Decision(IF mandateIssue THEN "reauth_link_sent" ELSE "escalated",
                       "compliance_decline_no_retry", None)
         [] bucket = "hard" ->
              Decision("stopped_permanent", "hard_decline_no_retry", None)
         [] bucket = "technical" ->
              DecideRetry(attempts,
                Decision("retry_scheduled", "technical_quick_retry",
                         TECHNICAL_RETRY_MINUTES),
                Decision("escalated", "technical_retries_exhausted", None))
         [] bucket = "soft" ->
              DecideRetry(attempts,
                Decision("retry_scheduled", "soft_decline_scheduled_retry",
                         RETRY_SCHEDULE_DAYS[attempts] * MinutesPerDay),
                Decision("stopped_permanent", "soft_retries_exhausted", None))
         [] OTHER -> Decision("escalated", "unclassified_fallback", None)

\* Mutant: the loop over the remaining attempts stops one short.
SimulateRetryShort(bucket, attempts, luck) ==
  LET tries == bucket \in RetryableBuckets /\ attempts < MAX_RETRY_ATTEMPTS
      last  == MAX_RETRY_ATTEMPTS - attempts - 1
  IN  [recovered   |-> tries /\ luck <= last,
       final_count |-> IF ~tries THEN attempts
                       ELSE attempts + (IF luck <= last THEN luck ELSE last)]

(***************************************************************************)
(* src/executor.py: the remaining attempts are drawn until the first       *)
(* success; a bucket without a success probability makes no attempt.       *)
(***************************************************************************)
SimulateRetrySchedule(bucket, attempts, luck) ==
  LET remaining == IF attempts < MAX_RETRY_ATTEMPTS
                   THEN MAX_RETRY_ATTEMPTS - attempts ELSE 0
      tries     == bucket \in RetryableBuckets /\ remaining > 0
  IN  [recovered   |-> tries /\ luck <= remaining,
       final_count |-> IF ~tries THEN attempts
                       ELSE attempts + (IF luck <= remaining THEN luck
                                                             ELSE remaining)]

(***************************************************************************)
(* src/worker.py: plan_row and its helpers.                                *)
(***************************************************************************)
\* bool(decline_code) and decline_code.strip() not in DECLINE_CODE_BUCKETS
\* Mutant: the code is looked up with its white space.
IsUnmappedRaw(code) ==
  ~NoDeclineCode(code) /\ (code.padded \/ code.text \notin KnownCodes)

IsUnmapped(code) == ~NoDeclineCode(code) /\ code.text \notin KnownCodes

\* Mutant: a row that is not retried gets its action as status.
ResolveOutcomeByAction(action, bucket, attempts, luck) ==
  LET sim == SimulateRetrySchedule(bucket, attempts, luck)
  IN  IF action = "retry_scheduled"
      THEN [status   |-> IF sim.recovered THEN "recovered" ELSE "halted",
            attempts |-> sim.final_count]
      ELSE [status |-> action, attempts |-> attempts]

\* The final status and attempt_count a decided row is written with.
ResolveOutcome(action, bucket, attempts, luck) ==
  LET sim == SimulateRetrySchedule(bucket, attempts, luck)
  IN  IF action = "retry_scheduled"
      THEN [status   |-> IF sim.recovered THEN "recovered" ELSE "halted",
            attempts |-> sim.final_count]
      ELSE [status   |-> IF action = "escalated" THEN "escalated" ELSE "halted",
            attempts |-> attempts]

\* The one job the AI gets for a row: an unmapped code comes first.
AiTask(code, action) ==
  CASE IsUnmapped(code)                                   -> "classify"
    [] ~IsUnmapped(code) /\ action = "reauth_link_sent"   -> "message"
    [] OTHER                                              -> "none"

PlanRow(row) ==
  LET bucket   == Classify(row.decline_code)
      decision == DecideAction(bucket,
                               AfaRequired(row.amount, row.mandate_category),
                               row.attempt_count,
                               IsMandateIssue(row.decline_code))
      outcome  == ResolveOutcome(decision.action, bucket,
                                 row.attempt_count, row.luck)
      task     == AiTask(row.decline_code, decision.action)
  IN  [action           |-> decision.action,
       rule_fired       |-> decision.rule_fired,
       next_action_at   |-> IF decision.action = "retry_scheduled"
                            THEN row.scheduled_at + decision.retry_after
                            ELSE None,
       final_status     |-> outcome.status,
       attempts_after   |-> outcome.attempts,
       ai_task          |-> task,
       reasoning_source |-> IF task = "classify" THEN "ai_fallback"
                                                 ELSE "deterministic_rule",
       message_source   |-> "none"]

(***************************************************************************)
(* The values these functions range over.                                  *)
(***************************************************************************)
RowType == [decline_code : Code, amount : Nat, mandate_category : Category,
            attempt_count : Nat, luck : Nat \ {0}, scheduled_at : Nat \ {0}]

Action          == {"retry_scheduled", "reauth_link_sent", "escalated",
                    "stopped_permanent"}
FinalStatus     == {"recovered", "halted", "escalated"}
ReasoningSource == {"deterministic_rule", "ai_classifier", "ai_fallback"}
RuleFired       == {"afa_threshold_exceeded", "compliance_decline_no_retry",
                    "hard_decline_no_retry", "technical_quick_retry",
                    "technical_retries_exhausted",
                    "soft_decline_scheduled_retry", "soft_retries_exhausted",
                    "unclassified_fallback"}

RowPlan == [action : Action, rule_fired : RuleFired,
            next_action_at : Nat \cup {None}, final_status : FinalStatus,
            attempts_after : Nat, ai_task : {"classify", "message", "none"},
            reasoning_source : ReasoningSource,
            message_source : {"none", "ai", "fallback"}]

\* What may be retried at all: the limits, the taxonomy and the cap together,
\* read from DECISION_RULES.md steps 1 to 4 and not from the if-chain.
RetryPermitted(r) ==
  /\ r.decline_code # None
  /\ r.decline_code.text \in SoftCodes \cup TechnicalCodes
  /\ r.attempt_count < MAX_RETRY_ATTEMPTS
  /\ \/ r.amount <= AFA_FREE_LIMIT_GENERAL
     \/ r.mandate_category # "general" /\ r.amount <= AFA_FREE_LIMIT_PRIORITY
=============================================================================
