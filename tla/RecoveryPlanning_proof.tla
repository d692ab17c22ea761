----------------------- MODULE RecoveryPlanning_proof -----------------------
(***************************************************************************)
(* The properties of RecoveryPlanning, DecisionStory and SeedBatch for     *)
(* every set of rows, mandates and amounts.  The inductive invariant of    *)
(* the first two is that a plan is PlanRow of its row; the work is in the  *)
(* lemmas of RecoveryRules_proof.  SeedBatch adds what a seeded row was    *)
(* drawn from.                                                             *)
(***************************************************************************)
EXTENDS SeedBatch, DecisionStory, RecoveryRules_proof

IInv ==
  \/ row = None /\ plan = None
  \/ row \in RowType /\ plan \in {None, PlanRow(row)}

\* Every plan has the types the tables ask for.
LEMMA PlanIsTyped == IInv => TypeOK
BY PlanRowType DEF IInv, TypeOK

\* No payment is attempted, recovered or counted as an attempt unless the
\* taxonomy, the limits and the cap permit it, and then it always is.
LEMMA PlanMovesMoney == IInv => MoneyMovesOnlyWhenPermitted
<1> SUFFICES ASSUME row \in RowType, plan = PlanRow(row)
             PROVE  MoneyMovesOnlyWhenPermitted
  BY DEF IInv, MoneyMovesOnlyWhenPermitted, Planned
<1> QED BY PlannedRetry DEF MoneyMovesOnlyWhenPermitted

\* A row that was halted is never retried, however often it is planned again.
LEMMA PlanHalts == IInv => HaltIsFinal
<1> SUFFICES ASSUME row \in RowType, plan = PlanRow(row),
                    plan.final_status = "halted"
             PROVE  /\ PlanRow([row EXCEPT !.attempt_count = plan.attempts_after]).action
                         # "retry_scheduled"
                    /\ plan.action = "retry_scheduled" =>
                         plan.attempts_after = MAX_RETRY_ATTEMPTS
  BY DEF IInv, HaltIsFinal, Planned
<1> DEFINE again == [row EXCEPT !.attempt_count = plan.attempts_after]
<1>1. plan.attempts_after \in Nat /\ row.attempt_count \in Nat
  BY PlannedRetry DEF RowType
<1>2. again \in RowType /\ again.attempt_count = plan.attempts_after
  BY <1>1 DEF RowType
<1>3. /\ again.decline_code = row.decline_code /\ again.amount = row.amount
      /\ again.mandate_category = row.mandate_category
  BY DEF RowType
<1>4. ~RetryPermitted(again)
  <2>1. CASE RetryPermitted(row)
    <3>1. again.attempt_count = MAX_RETRY_ATTEMPTS
      BY <1>2, <2>1, PlannedRetry
    <3> QED BY <3>1 DEF RetryPermitted, MAX_RETRY_ATTEMPTS
  <2>2. CASE ~RetryPermitted(row)
    <3>1. again.attempt_count = row.attempt_count
      BY <1>2, <2>2, PlannedRetry
    <3> HIDE DEF again
    <3> QED BY <1>3, <2>2, <3>1 DEF RetryPermitted
  <2> QED BY <2>1, <2>2
<1>5. PlanRow(again).action # "retry_scheduled"
  BY <1>2, <1>4, PlannedRetry
<1>6. plan.action = "retry_scheduled" => plan.attempts_after = MAX_RETRY_ATTEMPTS
  BY PlannedRetry
<1> QED BY <1>5, <1>6

\* A row without a usable code reaches a person, and the branch the code calls
\* unreachable is.
LEMMA PlanReachesAPerson == IInv => UnclassifiedGoesToAPerson
<1> SUFFICES ASSUME row \in RowType, plan = PlanRow(row)
             PROVE  UnclassifiedGoesToAPerson
  BY DEF IInv, UnclassifiedGoesToAPerson, Planned
<1> DEFINE bucket == Classify(row.decline_code)
           afa    == AfaRequired(row.amount, row.mandate_category)
           issue  == IsMandateIssue(row.decline_code)
           d      == DecideAction(bucket, afa, row.attempt_count, issue)
<1>1. /\ row.decline_code \in Code /\ row.amount \in Nat
      /\ row.mandate_category \in Category /\ row.attempt_count \in Nat
  BY DEF RowType
<1>2. bucket \in Bucket
  BY <1>1, ClassifyBuckets
<1>3. afa \in BOOLEAN /\ issue \in BOOLEAN
  BY DEF AfaRequired, IsMandateIssue
<1>4. /\ d.rule_fired # "unclassified_fallback"
      /\ d.action = "reauth_link_sent" => afa \/ issue
      /\ ~afa /\ bucket = "compliance" /\ ~issue => d.action = "escalated"
      /\ afa => d.action = "reauth_link_sent"
  <2> HIDE DEF bucket, afa, issue
  <2> QED BY <1>1, <1>2, <1>3, DecideActionCases
<1>5. plan.action = d.action /\ plan.rule_fired = d.rule_fired
  BY PlanRowFields
<1>6. /\ row.decline_code = None \/ row.decline_code.text \notin KnownCodes =>
           bucket = "compliance" /\ ~issue
      /\ issue => row.decline_code.text \in ComplianceCodes
  BY <1>1, UnknownIsCompliance
<1>7. afa => row.amount > AFA_FREE_LIMIT_GENERAL
  BY <1>1, AfaLimits
<1> HIDE DEF bucket, afa, issue, d
<1> QED BY <1>3, <1>4, <1>5, <1>6, <1>7 DEF UnclassifiedGoesToAPerson

-----------------------------------------------------------------------------
\* The lines of a story, from the row, its plan and the answer of the model.
LEMMA StoryLines ==
  ASSUME row \in RowType, plan = PlanRow(row), NEW value \in Suggestions
  PROVE  LET story == Story(MergeAnswer(AuditSnapshot(row, plan), plan, value))
         IN  /\ ~IsUnmapped(row.decline_code) =>
                  story.code = "maps to the bucket" /\ story.by = "deterministic_rule"
             /\ IsUnmapped(row.decline_code) /\ value # None =>
                  /\ story.code = "not in the taxonomy, AI suggestion"
                  /\ story.by = "ai_classifier"
             /\ IsUnmapped(row.decline_code) /\ value = None =>
                  story.code = "not in the taxonomy" /\ story.by = "ai_fallback"
             /\ story.bucket = Classify(row.decline_code)
             /\ story.afa = AfaRequired(row.amount, row.mandate_category)
             /\ story.rule = IF /\ plan.rule_fired = "compliance_decline_no_retry"
                                /\ plan.action = "escalated"
                             THEN "not in the taxonomy" ELSE plan.rule_fired
             /\ story.action = plan.action /\ story.status = plan.final_status
             /\ story.retries = AuditSnapshot(row, plan).retry_simulation
<1> DEFINE s == AuditSnapshot(row, plan)
           m == MergeAnswer(s, plan, value)
<1>1. /\ plan.ai_task = "classify" <=> IsUnmapped(row.decline_code)
      /\ plan.reasoning_source = IF IsUnmapped(row.decline_code) THEN "ai_fallback"
                                                       ELSE "deterministic_rule"
  BY PlanRowFields
<1>2. /\ m.mapped = s.mapped /\ m.bucket = s.bucket /\ m.afa_required = s.afa_required
      /\ m.rule_fired = s.rule_fired /\ m.action_taken = s.action_taken
      /\ m.retry_simulation = s.retry_simulation /\ m.status_after = s.status_after
      /\ m.suggestion = IF plan.ai_task = "classify" THEN value ELSE s.suggestion
      /\ m.reasoning_source = IF plan.ai_task # "classify" THEN s.reasoning_source
                              ELSE IF value # None THEN "ai_classifier" ELSE "ai_fallback"
  BY DEF MergeAnswer, AuditSnapshot
<1>3. /\ s.mapped = ~IsUnmapped(row.decline_code)
      /\ s.bucket = Classify(row.decline_code)
      /\ s.afa_required = AfaRequired(row.amount, row.mandate_category)
      /\ s.rule_fired = plan.rule_fired /\ s.action_taken = plan.action
      /\ s.status_after = plan.final_status
      /\ s.reasoning_source = plan.reasoning_source
  BY DEF AuditSnapshot
<1> HIDE DEF s, m
<1>4. /\ Story(m).code = CodeLine(m) /\ Story(m).bucket = m.bucket
      /\ Story(m).afa = m.afa_required /\ Story(m).rule = RuleLine(m)
      /\ Story(m).retries = m.retry_simulation /\ Story(m).action = m.action_taken
      /\ Story(m).status = m.status_after /\ Story(m).by = m.reasoning_source
  BY DEF Story
<1>5. CodeLine(m) = IF m.mapped THEN "maps to the bucket"
                    ELSE IF m.suggestion # None THEN "not in the taxonomy, AI suggestion"
                    ELSE "not in the taxonomy"
  BY <1>2, <1>3 DEF CodeLine, IsUnmapped
<1> QED BY <1>1, <1>2, <1>3, <1>4, <1>5 DEF RuleLine, s, m

\* The retry line of a story is there for the rows a retry is permitted for.
LEMMA RetryLine ==
  ASSUME row \in RowType, plan = PlanRow(row)
  PROVE  LET retries == AuditSnapshot(row, plan).retry_simulation
         IN  /\ retries # None <=> RetryPermitted(row)
             /\ RetryPermitted(row) =>
                  /\ retries.made = plan.attempts_after - row.attempt_count
                  /\ retries.recovered <=> plan.final_status = "recovered"
<1> DEFINE sim == [made      |-> plan.attempts_after - row.attempt_count,
                   recovered |-> plan.final_status = "recovered"]
<1>1. plan.action = "retry_scheduled" <=> RetryPermitted(row)
  BY PlannedRetry
<1>2. plan.attempts_after \in Nat /\ row.attempt_count \in Nat
  BY PlannedRetry DEF RowType
<1>3. sim \in [made : Int, recovered : BOOLEAN]
  BY <1>2
<1>4. sim # None
  BY <1>3, StoryAssumption
<1>5. AuditSnapshot(row, plan).retry_simulation =
        IF plan.action = "retry_scheduled" THEN sim ELSE None
  BY DEF AuditSnapshot
<1>6. /\ sim.made = plan.attempts_after - row.attempt_count
      /\ sim.recovered <=> plan.final_status = "recovered"
  OBVIOUS
<1> DEFINE retries == AuditSnapshot(row, plan).retry_simulation
<1>7. /\ RetryPermitted(row) => retries = sim
      /\ ~RetryPermitted(row) => retries = None
  BY <1>1, <1>5
<1> HIDE DEF sim, retries
<1>8. /\ retries # None <=> RetryPermitted(row)
      /\ RetryPermitted(row) =>
           /\ retries.made = plan.attempts_after - row.attempt_count
           /\ retries.recovered <=> plan.final_status = "recovered"
  BY <1>4, <1>6, <1>7
<1> QED BY <1>8 DEF retries

LEMMA PlanTellsItsStory == IInv => StoryIsConsistent /\ StoryIsTrueOfTheRow
<1> SUFFICES ASSUME row \in RowType, plan = PlanRow(row), NEW value \in Suggestions
             PROVE  LET story == Story(MergeAnswer(AuditSnapshot(row, plan), plan, value))
                    IN  StoryAgrees(story) /\ StoryHolds(story)
  BY DEF IInv, Planned, StoryIsConsistent, StoryIsTrueOfTheRow, Stories
<1> DEFINE story  == Story(MergeAnswer(AuditSnapshot(row, plan), plan, value))
           code   == row.decline_code
           bucket == Classify(code)
           afa    == AfaRequired(row.amount, row.mandate_category)
           issue  == IsMandateIssue(code)
           d      == DecideAction(bucket, afa, row.attempt_count, issue)
<1>1. /\ code \in Code /\ row.amount \in Nat /\ row.mandate_category \in Category
      /\ row.attempt_count \in Nat
  BY DEF RowType
<1>2. bucket \in Bucket /\ afa \in BOOLEAN /\ issue \in BOOLEAN
  BY <1>1, ClassifyBuckets DEF AfaRequired, IsMandateIssue
<1>3. /\ plan.action = d.action /\ plan.rule_fired = d.rule_fired
  BY PlanRowFields
<1>4. /\ plan.rule_fired \in RuleFired
      /\ plan.rule_fired = "afa_threshold_exceeded" <=> afa
      /\ plan.rule_fired = "compliance_decline_no_retry" /\ plan.action = "escalated" =>
           bucket = "compliance" /\ ~issue
      /\ ~afa /\ bucket = "compliance" /\ ~issue =>
           plan.rule_fired = "compliance_decline_no_retry" /\ plan.action = "escalated"
      /\ plan.rule_fired \in Exhausted => row.attempt_count >= MAX_RETRY_ATTEMPTS
  <2> HIDE DEF bucket, afa, issue
  <2> QED BY <1>1, <1>2, <1>3, DecideActionCases DEF Exhausted
<1>5. bucket = "compliance" /\ ~issue => NoDeclineCode(code) \/ code.text \notin KnownCodes
  BY DEF Classify, BucketOf, IsMandateIssue, KnownCodes, SoftCodes, HardCodes,
         TechnicalCodes, ComplianceCodes, CONSERVATIVE_BUCKET
<1>6. RetryPermitted(row) => ~afa /\ bucket \in RetryableBuckets
  <2>1. d.action = "retry_scheduled" =>
          ~afa /\ bucket \in RetryableBuckets
    <3> HIDE DEF bucket, afa, issue
    <3> QED BY <1>1, <1>2, DecideActionCases
  <2> QED BY <1>3, <2>1, PlannedRetry
<1>7. /\ story.rule = "not in the taxonomy" => bucket = "compliance" /\ ~issue
      /\ story.rule # "not in the taxonomy" => story.rule = plan.rule_fired
      /\ story.rule \in Exhausted => plan.rule_fired \in Exhausted
  BY <1>4, StoryLines DEF RuleFired, Exhausted
<1>8. StoryAgrees(story)
  <2>1. /\ story.by = "ai_classifier" <=> story.code = "not in the taxonomy, AI suggestion"
        /\ story.by = "deterministic_rule" <=> story.code = "maps to the bucket"
    BY StoryLines
  <2>2. story.rule = "afa_threshold_exceeded" <=> story.afa
    BY <1>4, StoryLines
  <2>3. story.rule = "not in the taxonomy" /\ story.code = "maps to the bucket" <=>
          NoDeclineCode(code) /\ ~story.afa
    <3>1. story.afa = afa /\ (story.code = "maps to the bucket" <=> ~IsUnmapped(code))
      BY StoryLines
    <3>2. story.rule = "not in the taxonomy" => bucket = "compliance" /\ ~issue /\ ~afa
      BY <1>4, <1>7, StoryLines DEF RuleFired
    <3>3. ~afa /\ bucket = "compliance" /\ ~issue => story.rule = "not in the taxonomy"
      BY <1>4, StoryLines
    <3>4. NoDeclineCode(code) => bucket = "compliance" /\ ~issue /\ ~IsUnmapped(code)
      BY DEF Classify, CONSERVATIVE_BUCKET, IsMandateIssue, IsUnmapped
    <3>5. bucket = "compliance" /\ ~issue /\ ~IsUnmapped(code) => NoDeclineCode(code)
      BY <1>5 DEF IsUnmapped
    <3> HIDE DEF story, afa, bucket, issue
    <3> QED BY <1>2, <3>1, <3>2, <3>3, <3>4, <3>5
  <2>4. /\ story.action = "retry_scheduled" <=> story.retries # None
        /\ story.retries # None =>
             /\ ~story.afa /\ story.bucket \in RetryableBuckets
             /\ story.retries.recovered <=> story.status = "recovered"
    <3>1. /\ story.afa = afa /\ story.bucket = bucket /\ story.action = plan.action
          /\ story.status = plan.final_status
          /\ story.retries = AuditSnapshot(row, plan).retry_simulation
      BY StoryLines
    <3>2. plan.action = "retry_scheduled" <=> RetryPermitted(row)
      BY PlannedRetry
    <3>3. /\ story.retries # None <=> RetryPermitted(row)
          /\ RetryPermitted(row) =>
               (story.retries.recovered <=> plan.final_status = "recovered")
      BY <3>1, RetryLine
    <3> HIDE DEF story, afa, bucket
    <3> QED BY <1>2, <1>6, <3>1, <3>2, <3>3
  <2> QED BY <2>1, <2>2, <2>3, <2>4 DEF StoryAgrees
<1>9. StoryHolds(story)
  <2>1. story.rule = "not in the taxonomy" => NoDeclineCode(code) \/ code.text \notin KnownCodes
    BY <1>5, <1>7
  <2>2. story.rule \in Exhausted => row.attempt_count >= MAX_RETRY_ATTEMPTS
    BY <1>4, <1>7
  <2>3. ASSUME story.retries # None
        PROVE  LET used == row.attempt_count + story.retries.made
               IN  /\ story.retries.made > 0 /\ used <= MAX_RETRY_ATTEMPTS
                   /\ ~story.retries.recovered => used = MAX_RETRY_ATTEMPTS
    <3>1. /\ RetryPermitted(row)
          /\ story.retries.made = plan.attempts_after - row.attempt_count
          /\ story.retries.recovered <=> plan.final_status = "recovered"
      BY <2>3, StoryLines, RetryLine
    <3>2. /\ plan.attempts_after \in Nat /\ row.attempt_count < plan.attempts_after
          /\ plan.attempts_after <= MAX_RETRY_ATTEMPTS
          /\ plan.final_status # "recovered" => plan.attempts_after = MAX_RETRY_ATTEMPTS
      BY <3>1, PlannedRetry
    <3> HIDE DEF story
    <3> QED BY <1>1, <3>1, <3>2 DEF MAX_RETRY_ATTEMPTS
  <2>4. story.code # "maps to the bucket" =>
          ~NoDeclineCode(code) /\ code.text \notin KnownCodes
    BY StoryLines DEF IsUnmapped
  <2> QED BY <2>1, <2>2, <2>3, <2>4 DEF StoryHolds
<1> QED BY <1>8, <1>9

-----------------------------------------------------------------------------
\* A plan is always plan_row of the row it was made for.
LEMMA PlanStep ==
  ASSUME IInv, Plan
  PROVE  IInv'
BY DEF IInv, Plan

LEMMA PlanOfRow == Spec => []IInv
<1>1. Init => IInv
  BY DEF Init, IInv
<1>2. IInv /\ [Next]_vars => IInv'
  <2> SUFFICES ASSUME IInv, [Next]_vars PROVE IInv'
    OBVIOUS
  <2>1. CASE FetchRow
    <3>1. plan = None
      BY <2>1, RowsAssumption DEF IInv, FetchRow
    <3> QED BY <2>1, <3>1, RowsAssumption DEF IInv, FetchRow
  <2>2. CASE Plan
    BY <2>2, PlanStep
  <2>3. CASE UNCHANGED vars
    BY <2>3 DEF IInv, vars
  <2> QED BY <2>1, <2>2, <2>3 DEF Next
<1> QED BY <1>1, <1>2, PTL DEF Spec

\* Type correctness of the planning of any one row.
THEOREM TypeCorrect == Spec => []TypeOK
BY PlanIsTyped, PlanOfRow, PTL

\* Money moves only when taxonomy, limits and cap permit it.
THEOREM MoneyIsSafe == Spec => []MoneyMovesOnlyWhenPermitted
BY PlanMovesMoney, PlanOfRow, PTL

\* No halted row is ever retried.
THEOREM HaltsAreFinal == Spec => []HaltIsFinal
BY PlanHalts, PlanOfRow, PTL

\* What cannot be classified reaches a person.
THEOREM UnclassifiedIsHandled == Spec => []UnclassifiedGoesToAPerson
BY PlanReachesAPerson, PlanOfRow, PTL

\* The lines of a story agree with each other, but for the rows that have no
\* code and are within the limit: exactly those are told to be mapped and not
\* in the taxonomy at once (worker.py:228, dashboard.py:241).
THEOREM StoriesAgreeButWithoutACode == Spec => []StoryIsConsistent
BY PlanTellsItsStory, PlanOfRow, PTL

\* What a story says of its row is so.
THEOREM StoriesAreTrue == Spec => []StoryIsTrueOfTheRow
BY PlanTellsItsStory, PlanOfRow, PTL

\* The links without a message are those of the rows with an unknown code and
\* an amount over the limit: all of them, and no other.
THEOREM LinksLackingAMessage == Spec => []LinkWithoutMessageIsUnmapped
<1>1. IInv => LinkWithoutMessageIsUnmapped
  <2> SUFFICES ASSUME row \in RowType, plan = PlanRow(row)
               PROVE  LinkWithoutMessageIsUnmapped
    BY DEF IInv, LinkWithoutMessageIsUnmapped, Planned
  <2> DEFINE bucket == Classify(row.decline_code)
             afa    == AfaRequired(row.amount, row.mandate_category)
             issue  == IsMandateIssue(row.decline_code)
             d      == DecideAction(bucket, afa, row.attempt_count, issue)
  <2>1. /\ row.decline_code \in Code /\ row.attempt_count \in Nat
        /\ bucket \in Bucket /\ afa \in BOOLEAN /\ issue \in BOOLEAN
    BY ClassifyBuckets DEF RowType, AfaRequired, IsMandateIssue
  <2>2. /\ plan.ai_task = AiTask(row.decline_code, plan.action)
        /\ plan.action = d.action
    BY PlanRowFields DEF PlanRow
  <2>3. plan.action = "reauth_link_sent" =>
          (plan.ai_task # "message" <=> IsUnmapped(row.decline_code))
    BY <2>2 DEF AiTask
  <2>4. IsUnmapped(row.decline_code) => ~issue
    BY <2>1, UnknownIsCompliance DEF IsUnmapped
  <2>5. /\ d.action = "reauth_link_sent" => afa \/ issue
        /\ afa => d.action = "reauth_link_sent"
    <3> HIDE DEF bucket, afa, issue
    <3> QED BY <2>1, DecideActionCases
  <2>6. /\ afa <=> row.amount > AfaFreeLimitFor(row.mandate_category)
        /\ IsUnmapped(row.decline_code) <=>
             ~NoDeclineCode(row.decline_code) /\ row.decline_code.text \notin KnownCodes
    BY DEF AfaRequired, IsUnmapped
  <2> HIDE DEF bucket, afa, issue, d
  <2> QED BY <2>2, <2>3, <2>4, <2>5, <2>6 DEF LinkWithoutMessageIsUnmapped
<1> QED BY <1>1, PlanOfRow, PTL

-----------------------------------------------------------------------------
(***************************************************************************)
(* The rows of the seeder.  SeededRow says what a row owes to the mandate, *)
(* the slot and the event it was drawn from.                               *)
(***************************************************************************)
DrawnFrom(r, origin) ==
  /\ r \in RowType /\ origin \in Origin
  /\ r.amount \in PickAmount(r.mandate_category, origin.boundary)
  /\ \E event \in DeclineEvents(origin.status) :
       /\ r.decline_code = [text |-> event[1], padded |-> FALSE]
       /\ origin.bucket = event[2]

SeededRow == seeded # None => DrawnFrom(row, seeded)

SeedStage ==
  /\ mandates \in {None} \cup UNION {[1..n -> Mandate] : n \in MandateCounts}
  /\ seeder \in {"idle", "building", "built", "done", "raised"}
  /\ seeder \in {"building", "built", "raised"} <=> mandates # None
  /\ seeder # "done" => seeded = None
  /\ seeder \in {"building", "built", "raised"} => row = None

SBInv == IInv /\ SeededRow /\ SeedStage

\* A mended list of mandates still is one.
LEMMA GuaranteeType ==
  ASSUME NEW n, NEW ms \in [1..n -> Mandate], NEW categories, NEW i,
         NEW category \in Category
  PROVE  Guarantee(ms, categories, i, category) \in [1..n -> Mandate]
<1>1. [category |-> category, status |-> "active"] \in Mandate
  BY DEF Mandate, MandateStatus
<1> QED BY <1>1 DEF Guarantee

LEMMA MendedType ==
  ASSUME NEW n \in MandateCounts, NEW ms \in [1..n -> Mandate]
  PROVE  Mended(ms) \in [1..n -> Mandate]
<1>1. "general" \in Category /\ "mutual_fund_sip" \in Category
  BY DEF Category, PRIORITY_CATEGORIES
<1> QED BY <1>1, GuaranteeType DEF Mended

\* The events of a mandate: a known code with its bucket, or an unknown one as
\* compliance; one of the compliance codes when the mandate is not active.
LEMMA EventOf ==
  ASSUME NEW status \in MandateStatus, NEW event \in DeclineEvents(status)
  PROVE  /\ event[1] \in STRING /\ event[1] # ""
         /\ event[2] = BucketOf(event[1])
         /\ event[2] \in Bucket
         /\ status # "active" => event[1] \in ComplianceCodes
<1>1. CASE status # "active"
  <2>1. /\ event = <<NonActiveMandateCode(status), "compliance">>
        /\ NonActiveMandateCode(status) \in {"mandate_cancelled", "mandate_expired"}
    BY <1>1 DEF DeclineEvents, NonActiveMandateCode
  <2>2. \A code \in {"mandate_cancelled", "mandate_expired"} :
          /\ code \in STRING /\ code # "" /\ code \in ComplianceCodes
          /\ BucketOf(code) = "compliance"
    BY CodesAreStrings DEF BucketOf, KnownCodes, SoftCodes, HardCodes, TechnicalCodes, ComplianceCodes,
           CONSERVATIVE_BUCKET
  <2> QED BY <2>1, <2>2 DEF Bucket
<1>2. CASE status = "active"
  <2>1. event \in TaxonomyEvents \cup UnknownCodes \X {"compliance"}
    BY <1>2 DEF DeclineEvents
  <2>2. CASE event \in TaxonomyEvents
    <3>1. PICK code \in KnownCodes : event = <<code, BucketOf(code)>>
      BY <2>2 DEF TaxonomyEvents
    <3>2. code \in STRING /\ code # ""
      BY CodesAreStrings
         DEF KnownCodes, SoftCodes, HardCodes, TechnicalCodes, ComplianceCodes
    <3>3. BucketOf(code) \in Bucket
      BY DEF BucketOf, Bucket, CONSERVATIVE_BUCKET
    <3> QED BY <1>2, <3>1, <3>2, <3>3
  <2>3. CASE event \in UnknownCodes \X {"compliance"}
    <3>1. PICK code \in UnknownCodes : event = <<code, "compliance">>
      BY <2>3
    <3>2. code \in STRING /\ code # "" /\ BucketOf(code) = "compliance"
      BY CodesAreStrings
         DEF UnknownCodes, BucketOf, SoftCodes, HardCodes, TechnicalCodes,
             CONSERVATIVE_BUCKET
    <3> QED BY <1>2, <3>1, <3>2 DEF Bucket
  <2> QED BY <2>1, <2>2, <2>3
<1> QED BY <1>1, <1>2

\* A drawn row is well typed and remembers what it was drawn from.
LEMMA DrawnRow ==
  ASSUME NEW mandate \in Mandate,
         NEW boundary \in {"at", "just_over", "well_over", "none"},
         DrawTransaction(mandate, boundary)
  PROVE  row' \in RowType /\ SeededRow'
<1>1. PICK amount \in PickAmount(mandate.category, boundary),
           event \in DeclineEvents(mandate.status), attempts \in 0..3, luck \in Lucks :
        /\ row' = [decline_code |-> [text |-> event[1], padded |-> FALSE],
                   amount |-> amount, mandate_category |-> mandate.category,
                   attempt_count |-> attempts, luck |-> luck, scheduled_at |-> 1]
        /\ seeded' = [status |-> mandate.status, boundary |-> boundary,
                      bucket |-> event[2]]
  BY DEF DrawTransaction
<1>2. mandate.category \in Category /\ mandate.status \in MandateStatus
  BY DEF Mandate
<1>3. event[1] \in STRING /\ event[2] \in Bucket
  BY <1>2, EventOf
<1>4. amount \in Nat /\ attempts \in Nat /\ luck \in Nat \ {0}
  BY SeedAssumption DEF PickAmount
<1>5. row' \in RowType
  <2>1. [text |-> event[1], padded |-> FALSE] \in Code
    BY <1>3 DEF Code
  <2> QED BY <1>1, <1>2, <1>4, <2>1 DEF RowType
<1>6. seeded' \in Origin
  BY <1>1, <1>2, <1>3 DEF Origin, Bucket
<1>7. amount \in PickAmount(row'.mandate_category, seeded'.boundary)
      /\ event \in DeclineEvents(seeded'.status)
  BY <1>1
<1>8. /\ row'.amount = amount /\ seeded'.bucket = event[2]
      /\ row'.decline_code = [text |-> event[1], padded |-> FALSE]
  BY <1>1
<1>9. DrawnFrom(row', seeded')
  BY <1>5, <1>6, <1>7, <1>8 DEF DrawnFrom
<1> QED BY <1>5, <1>9 DEF SeededRow

LEMMA SeededInvariant == SBSpec => []SBInv
<1>1. SBInit => SBInv
  BY DEF SBInit, Init, SBInv, IInv, SeededRow, SeedStage
<1>2. SBInv /\ [SBNext]_sbVars => SBInv'
  <2> SUFFICES ASSUME SBInv, [SBNext]_sbVars PROVE SBInv'
    OBVIOUS
  <2> USE DEF SBInv
  <2>1. CASE DrawMandates
    <3>1. UNCHANGED <<row, plan, seeded>>
      BY <2>1 DEF DrawMandates, vars
    <3>2. IInv' /\ SeededRow'
      BY <3>1 DEF IInv, SeededRow
    <3>3. mandates' # None
          /\ mandates' \in UNION {[1..n -> Mandate] : n \in MandateCounts}
      BY <2>1, SeedAssumption DEF DrawMandates
    <3>4. SeedStage'
      BY <2>1, <3>1, <3>3 DEF DrawMandates, SeedStage
    <3> QED BY <3>2, <3>4
  <2>2. CASE MendMandates
    <3>1. UNCHANGED <<row, plan, seeded>>
      BY <2>2 DEF MendMandates, vars
    <3>2. IInv' /\ SeededRow'
      BY <3>1 DEF IInv, SeededRow
    <3>3. PICK n \in MandateCounts : mandates \in [1..n -> Mandate]
      BY <2>2 DEF MendMandates, SeedStage
    <3>4. mandates' \in [1..n -> Mandate] /\ mandates' # None
      BY <2>2, <3>3, MendedType, SeedAssumption DEF MendMandates
    <3>5. seeder' \in {"built", "raised"}
      BY <2>2 DEF MendMandates
    <3>6. SeedStage'
      BY <2>2, <3>1, <3>4, <3>5 DEF MendMandates, SeedStage
    <3> QED BY <3>2, <3>6
  <2>3. CASE GenerateTransaction
    <3>1. PICK n \in MandateCounts : mandates \in [1..n -> Mandate]
      BY <2>3 DEF GenerateTransaction, SeedStage
    <3>2. PICK slot \in Slots :
            \E i \in Pool(slot[2]) : DrawTransaction(mandates[i], slot[1])
      BY <2>3 DEF GenerateTransaction
    <3>3. PICK i \in Pool(slot[2]) : DrawTransaction(mandates[i], slot[1])
      BY <3>2
    <3>4. mandates[i] \in Mandate
      BY <3>1 DEF Pool, ActiveOf
    <3>5. slot[1] \in {"at", "just_over", "well_over", "none"}
      BY DEF Slots, SlotAt
    <3>6. row' \in RowType /\ SeededRow'
      BY <3>3, <3>4, <3>5, DrawnRow
    <3>7. plan' = None
      BY <2>3, RowsAssumption DEF GenerateTransaction, SeedStage, IInv
    <3>8. SeedStage'
      BY <2>3 DEF GenerateTransaction, SeedStage
    <3> QED BY <3>6, <3>7, <3>8 DEF IInv
  <2>4. CASE NoMandateForSlot
    <3>1. UNCHANGED <<row, plan, seeded, mandates>>
      BY <2>4 DEF NoMandateForSlot, vars
    <3>2. IInv' /\ SeededRow'
      BY <3>1 DEF IInv, SeededRow
    <3>3. SeedStage'
      BY <2>4, <3>1 DEF NoMandateForSlot, SeedStage
    <3> QED BY <3>2, <3>3
  <2>5. CASE OtherRow
    <3>1. seeded = None /\ UNCHANGED seeded /\ plan' = None /\ row' \in RowType
      BY <2>5, RowsAssumption DEF OtherRow, FetchRow, SeedStage, seed, IInv
    <3>2. IInv' /\ SeededRow'
      BY <3>1 DEF IInv, SeededRow
    <3>3. SeedStage'
      BY <2>5 DEF OtherRow, SeedStage, seed
    <3> QED BY <3>2, <3>3
  <2>6. CASE PlanAny
    <3>1. UNCHANGED <<row, seeded>>
      BY <2>6 DEF PlanAny, Plan, seed
    <3>2. IInv'
      BY <2>6, PlanStep DEF PlanAny
    <3>3. SeededRow'
      BY <3>1 DEF SeededRow
    <3>4. SeedStage'
      BY <2>6, <3>1 DEF PlanAny, SeedStage, seed
    <3> QED BY <3>2, <3>3, <3>4
  <2>7. CASE UNCHANGED sbVars
    <3>1. UNCHANGED <<row, plan, mandates, seeded, seeder>>
      BY <2>7 DEF sbVars, vars, seed
    <3> QED BY <3>1 DEF IInv, SeededRow, SeedStage
  <2> QED BY <2>1, <2>2, <2>3, <2>4, <2>5, <2>6, <2>7 DEF SBNext
<1> QED BY <1>1, <1>2, PTL DEF SBSpec

\* A code that is not empty is a code.
LEMMA TextIsACode ==
  ASSUME NEW text \in STRING, text # ""
  PROVE  ~NoDeclineCode([text |-> text, padded |-> FALSE])
<1> DEFINE code == [text |-> text, padded |-> FALSE]
<1>1. code \in [text : STRING, padded : BOOLEAN]
  OBVIOUS
<1>2. code # None
  BY <1>1, SeedAssumption
<1>3. code # [text |-> "", padded |-> FALSE]
  OBVIOUS
<1> QED BY <1>2, <1>3 DEF NoDeclineCode

\* An amount placed at a boundary exceeds the limit unless it is placed at it.
LEMMA PlacedSide ==
  ASSUME NEW boundary \in {"at", "just_over", "well_over"}, NEW limit \in Nat,
         NEW category, NEW amount \in Nat,
         PlacedAt(boundary, limit, category, amount)
  PROVE  amount > limit <=> boundary # "at"
BY DEF PlacedAt, Between

\* A seeded row and its plan, as the properties below need them.
LEMMA SeededPlan ==
  ASSUME SBInv, Planned, seeded # None
  PROVE  /\ row \in RowType /\ plan = PlanRow(row) /\ DrawnFrom(row, seeded)
         /\ seeded.bucket = Classify(row.decline_code)
         /\ seeded.status # "active" =>
              Classify(row.decline_code) = "compliance" /\ IsMandateIssue(row.decline_code)
<1>1. row \in RowType /\ plan = PlanRow(row) /\ DrawnFrom(row, seeded)
  BY DEF SBInv, IInv, Planned, SeededRow
<1>2. PICK event \in DeclineEvents(seeded.status) :
        /\ row.decline_code = [text |-> event[1], padded |-> FALSE]
        /\ seeded.bucket = event[2]
  BY <1>1 DEF DrawnFrom
<1>3. /\ event[1] \in STRING /\ event[1] # "" /\ event[2] = BucketOf(event[1])
      /\ seeded.status # "active" => event[1] \in ComplianceCodes
  BY <1>1, EventOf DEF DrawnFrom, Origin
<1>4. row.decline_code.text = event[1]
  BY <1>2
<1>5. ~NoDeclineCode(row.decline_code)
  BY <1>2, <1>3, TextIsACode
<1>6. Classify(row.decline_code) = BucketOf(event[1])
  BY <1>4, <1>5 DEF Classify
<1>7. event[1] \in ComplianceCodes =>
        BucketOf(event[1]) = "compliance" /\ IsMandateIssue(row.decline_code)
  <2>1. event[1] \in ComplianceCodes => BucketOf(event[1]) = "compliance"
    BY DEF BucketOf, SoftCodes, HardCodes, TechnicalCodes, ComplianceCodes,
           CONSERVATIVE_BUCKET
  <2> QED BY <1>4, <1>5, <2>1 DEF IsMandateIssue
<1> QED BY <1>1, <1>2, <1>3, <1>6, <1>7

\* The decision on a seeded row, from the lemmas about decide_action.
LEMMA SeededDecision ==
  ASSUME SBInv, Planned, seeded # None
  PROVE  /\ seeded.status # "active" =>
              /\ plan.action = "reauth_link_sent" /\ plan.final_status = "halted"
              /\ plan.attempts_after = row.attempt_count
         /\ plan.rule_fired = "afa_threshold_exceeded" <=>
              AfaRequired(row.amount, row.mandate_category)
<1> DEFINE bucket == Classify(row.decline_code)
           afa    == AfaRequired(row.amount, row.mandate_category)
           issue  == IsMandateIssue(row.decline_code)
           d      == DecideAction(bucket, afa, row.attempt_count, issue)
<1>1. /\ row \in RowType /\ plan = PlanRow(row)
      /\ seeded.status # "active" => bucket = "compliance" /\ issue
  BY SeededPlan
<1>2. bucket \in Bucket /\ row.attempt_count \in Nat
  BY <1>1, ClassifyBuckets DEF RowType
<1>3. afa \in BOOLEAN /\ issue \in BOOLEAN
  BY DEF AfaRequired, IsMandateIssue
<1>4. /\ bucket = "compliance" /\ issue => d.action = "reauth_link_sent"
      /\ d.rule_fired = "afa_threshold_exceeded" <=> afa
  <2> HIDE DEF bucket, afa, issue
  <2> QED BY <1>2, <1>3, DecideActionCases
<1>5. /\ plan.action = d.action /\ plan.rule_fired = d.rule_fired
      /\ d.action # "retry_scheduled" =>
           /\ plan.attempts_after = row.attempt_count
           /\ plan.final_status = IF d.action = "escalated" THEN "escalated" ELSE "halted"
  BY <1>1, PlanRowFields
<1> HIDE DEF bucket, afa, issue, d
<1> QED BY <1>1, <1>4, <1>5 DEF bucket, afa, issue, d

-----------------------------------------------------------------------------
\* Whatever mandates and rows are drawn, no debit is attempted on a mandate
\* that is paused or revoked.
THEOREM InactiveMandatesAreSafe == SBSpec => []InactiveMandateIsNeverCharged
<1>1. SBInv => InactiveMandateIsNeverCharged
  BY SeededDecision DEF InactiveMandateIsNeverCharged
<1> QED BY <1>1, SeededInvariant, PTL

\* Boundary rows are on the side of the limit that they were made for.
THEOREM BoundariesAreMet == SBSpec => []BoundaryRowsMeetTheLimit
<1>1. SBInv => BoundaryRowsMeetTheLimit
  <2> SUFFICES ASSUME SBInv, Planned, seeded # None, seeded.boundary # "none"
               PROVE  plan.rule_fired = "afa_threshold_exceeded" <=> seeded.boundary # "at"
    BY DEF BoundaryRowsMeetTheLimit
  <2> DEFINE limit == AfaFreeLimitFor(row.mandate_category)
  <2>1. /\ row.amount \in PickAmount(row.mandate_category, seeded.boundary)
        /\ row.amount \in Nat /\ seeded.boundary \in {"at", "just_over", "well_over"}
    BY SeededPlan DEF DrawnFrom, RowType, Origin
  <2>2. PlacedAt(seeded.boundary, limit, row.mandate_category, row.amount)
    BY <2>1 DEF PickAmount
  <2>3. limit \in Nat
    BY DEF AfaFreeLimitFor, AFA_FREE_LIMIT_GENERAL, AFA_FREE_LIMIT_PRIORITY
  <2>4. row.amount > limit <=> seeded.boundary # "at"
    <3> HIDE DEF limit
    <3> QED BY <2>1, <2>2, <2>3, PlacedSide
  <2>5. AfaRequired(row.amount, row.mandate_category) <=> row.amount > limit
    BY DEF AfaRequired
  <2> QED BY <2>4, <2>5, SeededDecision
<1> QED BY <1>1, SeededInvariant, PTL

\* The bucket on record is the one the worker decides by.
THEOREM BucketsAgree == SBSpec => []RecordedBucketIsClassified
<1>1. SBInv => RecordedBucketIsClassified
  BY SeededPlan DEF RecordedBucketIsClassified
<1> QED BY <1>1, SeededInvariant, PTL

\* Type correctness of the seeder and of the plans of its rows.
THEOREM SeederTypeCorrect == SBSpec => []SBTypeOK
<1>1. SBInv => SBTypeOK
  BY PlanIsTyped DEF SBInv, SeedStage, SeededRow, DrawnFrom, SBTypeOK
<1> QED BY <1>1, SeededInvariant, PTL

\* The policy theorems, for the rows of the seeder and any others beside them.
THEOREM SeededPlansAreSafe ==
  SBSpec => []( /\ MoneyMovesOnlyWhenPermitted
                /\ HaltIsFinal
                /\ UnclassifiedGoesToAPerson )
<1>1. SBInv => /\ MoneyMovesOnlyWhenPermitted
               /\ HaltIsFinal
               /\ UnclassifiedGoesToAPerson
  BY PlanMovesMoney, PlanHalts, PlanReachesAPerson DEF SBInv
<1> QED BY <1>1, SeededInvariant, PTL

-----------------------------------------------------------------------------
\* The only active mandate of the list is the second, and it is a general one.
OnlyGeneralIsSecond(ms) ==
  ActiveOf(ms, Category) = {2} /\ ms[2].category = "general"

\* The repairs of build_mandates: the second one has no mandate to be made on if
\* there is but one, and takes the only general one away if that is the second.
LEMMA MendedShapes ==
  ASSUME NEW n \in MandateCounts, NEW ms \in [1..n -> Mandate]
  PROVE  /\ ActiveOf(Mended(ms), PRIORITY_CATEGORIES) = {} <=> n = 1
         /\ ActiveOf(Mended(ms), {"general"}) = {} <=> OnlyGeneralIsSecond(ms)
<1> DEFINE general(m)  == ActiveOf(m, {"general"})
           priority(m) == ActiveOf(m, PRIORITY_CATEGORIES)
           first       == Guarantee(ms, {"general"}, 1, "general")
           made        == [category |-> "mutual_fund_sip", status |-> "active"]
<1>1. n \in Nat /\ 1 \in 1..n /\ (2 \in 1..n <=> n # 1)
  BY SeedAssumption
<1>2. /\ "general" \in Category /\ "general" \notin PRIORITY_CATEGORIES
      /\ "mutual_fund_sip" \in PRIORITY_CATEGORIES /\ "mutual_fund_sip" # "general"
  BY DEF Category, PRIORITY_CATEGORIES
<1>3. first \in [1..n -> Mandate]
  BY <1>2, GuaranteeType
<1>4. ASSUME general(ms) = {}
      PROVE  1 \in general(first)
  <2>1. first = [ms EXCEPT ![1] = [category |-> "general", status |-> "active"]]
    BY <1>1, <1>4 DEF Guarantee
  <2>2. first[1] = [category |-> "general", status |-> "active"] /\ 1 \in DOMAIN first
    BY <1>1, <2>1
  <2> HIDE DEF first
  <2> QED BY <2>2 DEF ActiveOf
<1>5. general(ms) # {} => first = ms
  BY DEF Guarantee
<1>6. general(first) # {}
  BY <1>4, <1>5
<1>7. /\ ActiveOf(ms, Category) = general(ms) \cup priority(ms)
      /\ general(ms) \cap priority(ms) = {}
  BY <1>2 DEF ActiveOf, Category
<1>8. OnlyGeneralIsSecond(ms) <=> general(ms) = {2} /\ priority(ms) = {}
  <2>1. OnlyGeneralIsSecond(ms) => 2 \in general(ms)
    BY DEF OnlyGeneralIsSecond, ActiveOf
  <2>2. 2 \in general(ms) => ms[2].category = "general"
    BY DEF ActiveOf
  <2> HIDE DEF general, priority
  <2> QED BY <1>7, <2>1, <2>2 DEF OnlyGeneralIsSecond
<1>9. general(first) = {2} /\ priority(first) = {} <=> OnlyGeneralIsSecond(ms)
  <2> HIDE DEF general, priority, first
  <2> QED BY <1>4, <1>5, <1>8
<1>10. Mended(ms) = Guarantee(first, PRIORITY_CATEGORIES, 2, "mutual_fund_sip")
  BY DEF Mended
<1>11. \A i \in general(first) : i # 2 \/ n # 1
  BY <1>1, <1>3 DEF ActiveOf
<1>12. CASE priority(first) # {}
  <2>1. Mended(ms) = first
    BY <1>10, <1>12 DEF Guarantee
  <2>2. n # 1
    <3>1. SUFFICES ASSUME n = 1 PROVE FALSE
      OBVIOUS
    <3>2. DOMAIN first = {1}
      BY <1>3, <3>1
    <3> HIDE DEF first
    <3>3. first[1].category = "general"
      BY <1>6, <3>2 DEF ActiveOf
    <3> QED BY <1>2, <1>12, <3>2, <3>3 DEF ActiveOf
  <2> HIDE DEF general, priority, first
  <2>3. ~OnlyGeneralIsSecond(ms)
    BY <1>9, <1>12
  <2> QED BY <1>6, <1>12, <2>1, <2>2, <2>3 DEF general, priority
<1>13. CASE priority(first) = {} /\ n = 1
  <2>1. Mended(ms) = first
    BY <1>1, <1>3, <1>10, <1>13 DEF Guarantee
  <2>2. general(first) # {2}
    BY <1>11, <1>13
  <2> HIDE DEF general, priority, first
  <2> QED BY <1>6, <1>9, <1>13, <2>1, <2>2 DEF general, priority
<1>14. CASE priority(first) = {} /\ n # 1
  <2>1. Mended(ms) = [first EXCEPT ![2] = made]
    BY <1>1, <1>3, <1>10, <1>14 DEF Guarantee
  <2>2. 2 \in priority(Mended(ms))
    BY <1>1, <1>2, <1>3, <1>14, <2>1 DEF ActiveOf
  <2>3. general(Mended(ms)) = general(first) \ {2}
    <3> HIDE DEF first
    <3> QED BY <1>1, <1>2, <1>3, <1>14, <2>1 DEF ActiveOf
  <2> HIDE DEF general, priority, first
  <2>4. general(Mended(ms)) = {} <=> general(first) = {2}
    BY <1>6, <2>3
  <2> QED BY <1>9, <1>14, <2>2, <2>4 DEF general, priority
<1> QED BY <1>12, <1>13, <1>14

(***************************************************************************)
(* How far EveryShapeIsGuaranteed fails: build_mandates leaves no priority *)
(* mandate exactly if it was asked for a single one, and no general one    *)
(* exactly if the only active mandate it drew is the second and general.   *)
(***************************************************************************)
ShapesMissing ==
  MendMandates =>
    /\ ActiveOf(mandates', PRIORITY_CATEGORIES) = {} <=> DOMAIN mandates = {1}
    /\ ActiveOf(mandates', {"general"}) = {} <=> OnlyGeneralIsSecond(mandates)

\* Which draws, exactly, build_mandates does not give both shapes.
THEOREM ShapesMissingExactly == SBSpec => [][ShapesMissing]_sbVars
<1>1. SBInv /\ [SBNext]_sbVars => [ShapesMissing]_sbVars
  <2> SUFFICES ASSUME SBInv, MendMandates
               PROVE  /\ ActiveOf(mandates', PRIORITY_CATEGORIES) = {} <=> DOMAIN mandates = {1}
                      /\ ActiveOf(mandates', {"general"}) = {} <=> OnlyGeneralIsSecond(mandates)
    BY DEF ShapesMissing
  <2>1. PICK n \in MandateCounts : mandates \in [1..n -> Mandate]
    BY DEF MendMandates, SBInv, SeedStage
  <2>2. mandates' = Mended(mandates)
    BY DEF MendMandates
  <2>3. DOMAIN mandates = {1} <=> n = 1
    BY <2>1, SeedAssumption
  <2> QED BY <2>1, <2>2, <2>3, MendedShapes
<1> QED BY <1>1, SeededInvariant, PTL DEF SBSpec
=============================================================================
