------------------------ MODULE RecoveryRules_proof ------------------------
(***************************************************************************)
(* What the policy functions return, for every row of RowType: every       *)
(* decline code, padded or not, every amount and every attempt count.      *)
(***************************************************************************)
EXTENDS RecoveryRules, TLAPS

Bucket == {"soft", "hard", "technical", "compliance"}

\* classify returns one of the four buckets, and a retryable one exactly for
\* the codes of the soft and technical lists.
LEMMA ClassifyBuckets ==
  ASSUME NEW code \in Code
  PROVE  /\ Classify(code) \in Bucket
         /\ Classify(code) \in RetryableBuckets <=>
              code # None /\ code.text \in SoftCodes \cup TechnicalCodes
<1>1. CASE NoDeclineCode(code)
  <2>1. Classify(code) = "compliance"
    BY <1>1 DEF Classify, CONSERVATIVE_BUCKET
  <2>2. code # None => code.text = ""
    <3>1. SUFFICES ASSUME code # None PROVE code.text = ""
      OBVIOUS
    <3>2. code = [text |-> "", padded |-> FALSE]
      BY <1>1, <3>1 DEF NoDeclineCode
    <3> QED BY <3>2
  <2>3. "" \notin SoftCodes \cup TechnicalCodes
    BY DEF SoftCodes, TechnicalCodes
  <2> QED BY <2>1, <2>2, <2>3 DEF Bucket, RetryableBuckets
<1>2. CASE ~NoDeclineCode(code)
  <2>1. Classify(code) = BucketOf(code.text) /\ code # None
    BY <1>2 DEF Classify, NoDeclineCode
  <2>2. ASSUME NEW text
        PROVE  /\ BucketOf(text) \in Bucket
               /\ BucketOf(text) \in RetryableBuckets <=>
                    text \in SoftCodes \cup TechnicalCodes
    <3>1. CASE text \in SoftCodes
      BY <3>1 DEF BucketOf, Bucket, RetryableBuckets, SoftCodes, HardCodes,
                  TechnicalCodes
    <3>2. CASE text \in HardCodes
      BY <3>2 DEF BucketOf, Bucket, RetryableBuckets, SoftCodes, HardCodes,
                  TechnicalCodes
    <3>3. CASE text \in TechnicalCodes
      BY <3>3 DEF BucketOf, Bucket, RetryableBuckets, SoftCodes, HardCodes,
                  TechnicalCodes
    <3>4. CASE text \notin SoftCodes \cup HardCodes \cup TechnicalCodes
      BY <3>4 DEF BucketOf, Bucket, RetryableBuckets, CONSERVATIVE_BUCKET
    <3> QED BY <3>1, <3>2, <3>3, <3>4
  <2> QED BY <2>1, <2>2
<1> QED BY <1>1, <1>2

\* A code that is in no list is put into the compliance bucket, and only a
\* code of the compliance list is a mandate issue.
LEMMA UnknownIsCompliance ==
  ASSUME NEW code \in Code
  PROVE  /\ code = None \/ code.text \notin KnownCodes =>
              Classify(code) = "compliance" /\ ~IsMandateIssue(code)
         /\ IsMandateIssue(code) => code.text \in ComplianceCodes
BY DEF Code, Classify, NoDeclineCode, BucketOf, KnownCodes, IsMandateIssue,
       CONSERVATIVE_BUCKET, SoftCodes, HardCodes, TechnicalCodes, ComplianceCodes

\* Above the limit of its category is what RetryPermitted says in its own words.
LEMMA AfaLimits ==
  ASSUME NEW amount \in Nat, NEW category \in Category
  PROVE  /\ ~AfaRequired(amount, category) <=>
              \/ amount <= AFA_FREE_LIMIT_GENERAL
              \/ category # "general" /\ amount <= AFA_FREE_LIMIT_PRIORITY
         /\ AfaRequired(amount, category) => amount > AFA_FREE_LIMIT_GENERAL
BY DEF AfaRequired, AfaFreeLimitFor, Category, PRIORITY_CATEGORIES,
       AFA_FREE_LIMIT_GENERAL, AFA_FREE_LIMIT_PRIORITY

\* decide_action: which action, and the delay of a retry.
LEMMA DecideActionCases ==
  ASSUME NEW bucket \in Bucket, NEW afa \in BOOLEAN, NEW n \in Nat,
         NEW issue \in BOOLEAN
  PROVE  LET d == DecideAction(bucket, afa, n, issue) IN
         /\ d.action \in Action
         /\ d.rule_fired \in RuleFired \ {"unclassified_fallback"}
         /\ d.action = "retry_scheduled" <=>
              ~afa /\ bucket \in RetryableBuckets /\ n < MAX_RETRY_ATTEMPTS
         /\ d.action = "retry_scheduled" => d.retry_after \in Nat
         /\ d.action = "reauth_link_sent" => afa \/ issue
         /\ ~afa /\ bucket = "compliance" /\ ~issue =>
              d.action = "escalated" /\ d.rule_fired = "compliance_decline_no_retry"
         /\ afa => d.action = "reauth_link_sent"
         /\ bucket = "compliance" /\ issue => d.action = "reauth_link_sent"
         /\ d.rule_fired = "afa_threshold_exceeded" <=> afa
         /\ d.rule_fired = "compliance_decline_no_retry" =>
              /\ bucket = "compliance"
              /\ d.action = "escalated" => ~issue
         /\ d.rule_fired \in {"soft_retries_exhausted", "technical_retries_exhausted"} =>
              n >= MAX_RETRY_ATTEMPTS
BY DEF DecideAction, DecideRetry, Decision, Bucket, Action, RuleFired,
       RetryableBuckets, MAX_RETRY_ATTEMPTS, TECHNICAL_RETRY_MINUTES,
       RETRY_SCHEDULE_DAYS, MinutesPerDay

\* The executor: a retried row that does not recover has used every attempt.
LEMMA SimulationCases ==
  ASSUME NEW bucket \in RetryableBuckets, NEW n \in Nat, n < MAX_RETRY_ATTEMPTS,
         NEW luck \in Nat \ {0}
  PROVE  LET s == SimulateRetrySchedule(bucket, n, luck) IN
         /\ s.recovered \in BOOLEAN
         /\ s.final_count \in Nat
         /\ n < s.final_count /\ s.final_count <= MAX_RETRY_ATTEMPTS
         /\ ~s.recovered => s.final_count = MAX_RETRY_ATTEMPTS
<1> DEFINE left == MAX_RETRY_ATTEMPTS - n
<1>1. left \in Nat /\ left > 0 /\ n + left = MAX_RETRY_ATTEMPTS
  BY DEF MAX_RETRY_ATTEMPTS
<1>2. /\ SimulateRetrySchedule(bucket, n, luck).recovered = (luck <= left)
      /\ SimulateRetrySchedule(bucket, n, luck).final_count =
           n + (IF luck <= left THEN luck ELSE left)
  BY <1>1 DEF SimulateRetrySchedule
<1>3. SimulateRetrySchedule(bucket, n, luck).recovered \in BOOLEAN
  BY <1>2
<1>4. /\ SimulateRetrySchedule(bucket, n, luck).final_count \in Nat
      /\ n < SimulateRetrySchedule(bucket, n, luck).final_count
      /\ SimulateRetrySchedule(bucket, n, luck).final_count <= MAX_RETRY_ATTEMPTS
  <2> HIDE DEF left
  <2> QED BY <1>1, <1>2
<1>5. ~SimulateRetrySchedule(bucket, n, luck).recovered =>
        SimulateRetrySchedule(bucket, n, luck).final_count = MAX_RETRY_ATTEMPTS
  <2>1. CASE luck <= left
    BY <1>2, <2>1
  <2>2. CASE ~(luck <= left)
    BY <1>1, <1>2, <2>2
  <2> QED BY <2>1, <2>2
<1> QED BY <1>3, <1>4, <1>5

-----------------------------------------------------------------------------
\* What plan_row makes of these decisions.
LEMMA PlanRowFields ==
  ASSUME NEW r \in RowType
  PROVE  LET p == PlanRow(r)
             d == DecideAction(Classify(r.decline_code),
                               AfaRequired(r.amount, r.mandate_category),
                               r.attempt_count, IsMandateIssue(r.decline_code))
             s == SimulateRetrySchedule(Classify(r.decline_code),
                                        r.attempt_count, r.luck)
         IN  /\ p.action = d.action
             /\ p.rule_fired = d.rule_fired
             /\ p.ai_task = "classify" <=> IsUnmapped(r.decline_code)
             /\ p.reasoning_source = IF IsUnmapped(r.decline_code) THEN "ai_fallback"
                                                            ELSE "deterministic_rule"
             /\ d.action = "retry_scheduled" =>
                  /\ p.attempts_after = s.final_count
                  /\ p.final_status = IF s.recovered THEN "recovered" ELSE "halted"
             /\ d.action # "retry_scheduled" =>
                  /\ p.attempts_after = r.attempt_count
                  /\ p.final_status = IF d.action = "escalated" THEN "escalated"
                                                                ELSE "halted"
BY DEF PlanRow, ResolveOutcome, AiTask

\* A retry is scheduled for exactly the rows the policy permits it for, and
\* whatever happens next follows from the simulation of that retry.
LEMMA PlannedRetry ==
  ASSUME NEW r \in RowType
  PROVE  /\ PlanRow(r).action = "retry_scheduled" <=> RetryPermitted(r)
         /\ RetryPermitted(r) =>
              /\ PlanRow(r).final_status \in {"recovered", "halted"}
              /\ PlanRow(r).attempts_after \in Nat
              /\ r.attempt_count < PlanRow(r).attempts_after
              /\ PlanRow(r).attempts_after <= MAX_RETRY_ATTEMPTS
              /\ PlanRow(r).final_status = "halted" =>
                   PlanRow(r).attempts_after = MAX_RETRY_ATTEMPTS
         /\ ~RetryPermitted(r) =>
              /\ PlanRow(r).final_status \in {"halted", "escalated"}
              /\ PlanRow(r).attempts_after = r.attempt_count
<1> DEFINE bucket == Classify(r.decline_code)
           afa    == AfaRequired(r.amount, r.mandate_category)
           issue  == IsMandateIssue(r.decline_code)
           d      == DecideAction(bucket, afa, r.attempt_count, issue)
           s      == SimulateRetrySchedule(bucket, r.attempt_count, r.luck)
<1>1. /\ r.decline_code \in Code /\ r.amount \in Nat
      /\ r.mandate_category \in Category
      /\ r.attempt_count \in Nat /\ r.luck \in Nat \ {0}
  BY DEF RowType
<1>2. /\ bucket \in Bucket
      /\ bucket \in RetryableBuckets <=>
           r.decline_code # None /\ r.decline_code.text \in SoftCodes \cup TechnicalCodes
  BY <1>1, ClassifyBuckets
<1>3. afa \in BOOLEAN /\ issue \in BOOLEAN
  BY DEF AfaRequired, IsMandateIssue
<1>4. d.action = "retry_scheduled" <=>
        ~afa /\ bucket \in RetryableBuckets /\ r.attempt_count < MAX_RETRY_ATTEMPTS
  <2> HIDE DEF bucket, afa, issue
  <2> QED BY <1>1, <1>2, <1>3, DecideActionCases
<1>5. d.action = "retry_scheduled" <=> RetryPermitted(r)
  <2>1. ~afa <=> \/ r.amount <= AFA_FREE_LIMIT_GENERAL
                 \/ /\ r.mandate_category # "general"
                    /\ r.amount <= AFA_FREE_LIMIT_PRIORITY
    BY <1>1, AfaLimits
  <2> HIDE DEF bucket, afa, d
  <2> QED BY <1>2, <1>4, <2>1 DEF RetryPermitted
<1>6. CASE RetryPermitted(r)
  <2>1. bucket \in RetryableBuckets /\ r.attempt_count < MAX_RETRY_ATTEMPTS
    BY <1>2, <1>6 DEF RetryPermitted
  <2>2. /\ s.recovered \in BOOLEAN /\ s.final_count \in Nat
        /\ r.attempt_count < s.final_count /\ s.final_count <= MAX_RETRY_ATTEMPTS
        /\ ~s.recovered => s.final_count = MAX_RETRY_ATTEMPTS
    <3> HIDE DEF bucket
    <3> QED BY <1>1, <2>1, SimulationCases
  <2>3. /\ PlanRow(r).action = d.action
        /\ PlanRow(r).attempts_after = s.final_count
        /\ PlanRow(r).final_status = IF s.recovered THEN "recovered" ELSE "halted"
    BY <1>5, <1>6, PlanRowFields
  <2> HIDE DEF d, s
  <2> QED BY <1>5, <1>6, <2>2, <2>3
<1>7. CASE ~RetryPermitted(r)
  <2>1. /\ PlanRow(r).action = d.action
        /\ PlanRow(r).attempts_after = r.attempt_count
        /\ PlanRow(r).final_status = IF d.action = "escalated" THEN "escalated"
                                                               ELSE "halted"
    BY <1>5, <1>7, PlanRowFields
  <2> HIDE DEF d
  <2> QED BY <1>5, <1>7, <2>1
<1> QED BY <1>6, <1>7

\* The plan of a row is a RowPlan.
LEMMA PlanRowType ==
  ASSUME NEW r \in RowType
  PROVE  PlanRow(r) \in RowPlan
<1> DEFINE d == DecideAction(Classify(r.decline_code),
                             AfaRequired(r.amount, r.mandate_category),
                             r.attempt_count, IsMandateIssue(r.decline_code))
<1>1. /\ r.decline_code \in Code /\ r.attempt_count \in Nat
      /\ r.scheduled_at \in Nat
  BY DEF RowType
<1>2. /\ d.action \in Action /\ d.rule_fired \in RuleFired
      /\ d.action = "retry_scheduled" => d.retry_after \in Nat
  <2>1. Classify(r.decline_code) \in Bucket
    BY <1>1, ClassifyBuckets
  <2>2. /\ AfaRequired(r.amount, r.mandate_category) \in BOOLEAN
        /\ IsMandateIssue(r.decline_code) \in BOOLEAN
    BY DEF AfaRequired, IsMandateIssue
  <2> QED BY <1>1, <2>1, <2>2, DecideActionCases
<1>3. PlanRow(r).action \in Action /\ PlanRow(r).rule_fired \in RuleFired
  BY <1>2, PlanRowFields
<1>4. PlanRow(r).next_action_at \in Nat \cup {None}
  <2>1. PlanRow(r).next_action_at = IF d.action = "retry_scheduled"
                                    THEN r.scheduled_at + d.retry_after ELSE None
    BY DEF PlanRow
  <2> HIDE DEF d
  <2> QED BY <1>1, <1>2, <2>1
<1>5. PlanRow(r).final_status \in FinalStatus /\ PlanRow(r).attempts_after \in Nat
  BY <1>1, PlannedRetry DEF FinalStatus
<1>6. /\ PlanRow(r).ai_task \in {"classify", "message", "none"}
      /\ PlanRow(r).reasoning_source \in ReasoningSource
      /\ PlanRow(r).message_source \in {"none", "ai", "fallback"}
  BY DEF PlanRow, AiTask, ReasoningSource
<1>7. PlanRow(r) = [action |-> PlanRow(r).action,
                    rule_fired |-> PlanRow(r).rule_fired,
                    next_action_at |-> PlanRow(r).next_action_at,
                    final_status |-> PlanRow(r).final_status,
                    attempts_after |-> PlanRow(r).attempts_after,
                    ai_task |-> PlanRow(r).ai_task,
                    reasoning_source |-> PlanRow(r).reasoning_source,
                    message_source |-> PlanRow(r).message_source]
  BY DEF PlanRow
<1> QED BY <1>3, <1>4, <1>5, <1>6, <1>7 DEF RowPlan
=============================================================================
