---------------------------- MODULE SeedBatch -----------------------------
(***************************************************************************)
(* The rows that scripts/seed.py generates, composed with the planning of  *)
(* a row.  The seeder draws the mandates of a batch, mends them so that    *)
(* the boundary rows have mandates to be placed on, and draws every        *)
(* transaction and its decline event independently of the others: here one *)
(* transaction of the batch is followed into its plan.  PAGE_QUERY drops   *)
(* the status of the mandate, so the worker cannot know it; history        *)
(* variables keep what the row was generated from.                         *)
(***************************************************************************)
EXTENDS RecoveryPlanning, Sequences

CONSTANTS MandateCounts,  \* the values of --mandates
          Transactions,   \* --transactions
          Amounts,        \* the amounts considered
          Lucks           \* the random streams considered

MandateStatus == {"active", "paused", "revoked"}
Mandate       == [category : Category, status : MandateStatus]

UnknownCodes == {"XX99", "BANK_ERR_7734", "NPCI_UNLISTED", "RC-000", "PSP_TIMEOUT_X"}

ASSUME SeedAssumption ==
  /\ MandateCounts \subseteq Nat \ {0}
  /\ \A n \in MandateCounts : None \notin [1..n -> Mandate]
  /\ None \notin [text : STRING, padded : BOOLEAN]
  /\ Transactions \in Nat
  /\ Amounts \subseteq Nat
  /\ Lucks \subseteq Nat \ {0}

ASSUME CodesAreStrings == KnownCodes \cup UnknownCodes \subseteq STRING

VARIABLES mandates,  \* mandates of build_transactions, None outside it
          seeded,    \* history: what the row was generated from, None
          seeder     \* "idle", "building", "built", "done" or "raised"

seed   == <<mandates, seeded, seeder>>
sbVars == <<vars, seed>>

SBInit == Init /\ mandates = None /\ seeded = None /\ seeder = "idle"

ActiveOf(ms, categories) ==
  {i \in DOMAIN ms : ms[i].status = "active" /\ ms[i].category \in categories}

-----------------------------------------------------------------------------
(***************************************************************************)
(* build_mandates                                                          *)
(***************************************************************************)
DrawMandates ==
  /\ seeder = "idle" /\ row = None
  /\ \E n \in MandateCounts : mandates' \in [1..n -> Mandate]
  /\ seeder' = "building"
  /\ UNCHANGED <<vars, seeded>>

\* At least one active mandate of these categories: if there is none, the
\* i-th becomes one, or does not exist.
Guarantee(ms, categories, i, category) ==
  IF ActiveOf(ms, categories) # {} \/ i \notin DOMAIN ms THEN ms
  ELSE [ms EXCEPT ![i] = [category |-> category, status |-> "active"]]

Mended(ms) ==
  Guarantee(Guarantee(ms, {"general"}, 1, "general"),
            PRIORITY_CATEGORIES, 2, "mutual_fund_sip")

\* mandates[1] of a single mandate is an IndexError.
MendMandates ==
  /\ seeder = "building"
  /\ mandates' = Mended(mandates)
  /\ seeder' = IF ActiveOf(mandates', PRIORITY_CATEGORIES) = {} THEN "raised"
                                                               ELSE "built"
  /\ UNCHANGED <<vars, seeded>>

-----------------------------------------------------------------------------
(***************************************************************************)
(* build_transactions: the plan of `Transactions` slots, each the boundary *)
(* its amount is placed at and the kind of mandate it asks for.            *)
(***************************************************************************)
AtLeast(least, n) == IF n < least THEN least ELSE n
Per      == AtLeast(4, Transactions \div 300)
WellOver == AtLeast(10, Transactions \div 100)

SlotAt(i) ==
  CASE i <= Per                -> <<"at", {"general"}>>
    [] i \in Per+1 .. 2*Per    -> <<"at", PRIORITY_CATEGORIES>>
    [] i \in 2*Per+1 .. 3*Per  -> <<"just_over", {"general"}>>
    [] i \in 3*Per+1 .. 4*Per  -> <<"just_over", PRIORITY_CATEGORIES>>
    [] i \in 4*Per+1 .. 4*Per + WellOver -> <<"well_over", Category>>
    [] OTHER                   -> <<"none", Category>>

Slots == {SlotAt(i) : i \in 1..Transactions}

\* random.choice of the mandates a slot asks for; one without a hint takes any.
Pool(categories) ==
  IF categories = Category THEN DOMAIN mandates ELSE ActiveOf(mandates, categories)

\* random.randint
Between(least, amount, most) == least <= amount /\ amount <= most

\* The amounts that pick_amount can place at a boundary of the limit.
PlacedAt(boundary, limit, category, amount) ==
  \/ boundary = "at" /\ amount = limit
  \/ boundary = "just_over" /\ amount = limit + 1
  \/ boundary = "well_over" /\ Between(limit + 50000, amount, limit + 5000000)
  \/ boundary = "none" /\ category = "general" /\ Between(4900, amount, 2500000)
  \/ boundary = "none" /\ category # "general" /\ Between(50000, amount, 12000000)

\* Mutant: the limit of the general category is used for all of them.
PickAmountGeneral(category, boundary) ==
  {amount \in Amounts :
     PlacedAt(boundary, AFA_FREE_LIMIT_GENERAL, category, amount)}

PickAmount(category, boundary) ==
  {amount \in Amounts :
     PlacedAt(boundary, AfaFreeLimitFor(category), category, amount)}

\* CODES_BY_BUCKET: the taxonomy of the configuration, by bucket.
TaxonomyEvents == {<<code, BucketOf(code)>> : code \in KnownCodes}

\* NON_ACTIVE_MANDATE_CODE
NonActiveMandateCode(status) ==
  IF status = "revoked" THEN "mandate_cancelled" ELSE "mandate_expired"

\* Mutant: an unknown code is recorded as what its name suggests.
DeclineEventsGuessed(status) ==
  IF status # "active" THEN {<<NonActiveMandateCode(status), "compliance">>}
  ELSE TaxonomyEvents \cup UnknownCodes \X {"technical"}

\* Mutant: every transaction draws its code from the mix.
DeclineEventsDrawn(status) ==
  TaxonomyEvents \cup UnknownCodes \X {"compliance"}

\* The code and the bucket of the decline event.  A mandate that is not
\* active has a code of its own.
DeclineEvents(status) ==
  IF status # "active" THEN {<<NonActiveMandateCode(status), "compliance">>}
  ELSE TaxonomyEvents \cup UnknownCodes \X {"compliance"}

\* One transaction on a mandate, and its decline event.
DrawTransaction(mandate, boundary) ==
  \E amount \in PickAmount(mandate.category, boundary),
     event \in DeclineEvents(mandate.status), attempts \in 0..3, luck \in Lucks :
    /\ row' = [decline_code |-> [text |-> event[1], padded |-> FALSE],
               amount |-> amount, mandate_category |-> mandate.category,
               attempt_count |-> attempts, luck |-> luck, scheduled_at |-> 1]
    /\ seeded' = [status |-> mandate.status, boundary |-> boundary,
                  bucket |-> event[2]]

\* Nothing is written unless every slot finds a mandate.
GenerateTransaction ==
  /\ seeder = "built"
  /\ \A slot \in Slots : Pool(slot[2]) # {}
  /\ \E slot \in Slots : \E i \in Pool(slot[2]) :
       DrawTransaction(mandates[i], slot[1])
  /\ mandates' = None
  /\ seeder' = "done"
  /\ UNCHANGED plan

\* random.choice of an empty list.
NoMandateForSlot ==
  /\ seeder = "built"
  /\ \E slot \in Slots : Pool(slot[2]) = {}
  /\ seeder' = "raised"
  /\ UNCHANGED <<vars, mandates, seeded>>

\* A row that was inserted by something else than the seeder.
OtherRow ==
  /\ seeder = "idle"
  /\ FetchRow
  /\ UNCHANGED seed

PlanAny == Plan /\ UNCHANGED seed

SBNext ==
  \/ DrawMandates \/ MendMandates \/ GenerateTransaction \/ NoMandateForSlot
  \/ OtherRow \/ PlanAny

SBSpec == SBInit /\ [][SBNext]_sbVars

-----------------------------------------------------------------------------
Origin == [status : MandateStatus, boundary : {"at", "just_over", "well_over", "none"},
           bucket : {"soft", "hard", "technical", "compliance"}]

SBTypeOK ==
  /\ TypeOK
  /\ mandates \in {None} \cup UNION {[1..n -> Mandate] : n \in MandateCounts}
  /\ seeded \in Origin \cup {None}
  /\ seeder \in {"idle", "building", "built", "done", "raised"}
  /\ seeder \in {"building", "built", "raised"} <=> mandates # None

(***************************************************************************)
(* No debit is attempted on a mandate that is paused or revoked: neither   *)
(* the page query nor the rules know the status of the mandate, only the   *)
(* code the seeder forces on such a row (seed.py:32-37) keeps it away from *)
(* a retry, and sends the customer a link instead.                         *)
(***************************************************************************)
InactiveMandateIsNeverCharged ==
  Planned /\ seeded # None /\ seeded.status # "active" =>
    /\ plan.action = "reauth_link_sent"
    /\ plan.final_status = "halted" /\ plan.attempts_after = row.attempt_count

(***************************************************************************)
(* The boundary rows are what the rule engine takes for boundary rows, for *)
(* each category: exactly at the limit no re-authentication is asked for   *)
(* because of the amount, and from one paisa over it always is.            *)
(***************************************************************************)
BoundaryRowsMeetTheLimit ==
  Planned /\ seeded # None /\ seeded.boundary # "none" =>
    (plan.rule_fired = "afa_threshold_exceeded" <=> seeded.boundary # "at")

(***************************************************************************)
(* The bucket that decline_events records, which the dashboard counts, is  *)
(* the one the worker decides by, unknown codes included.                  *)
(***************************************************************************)
RecordedBucketIsClassified ==
  Planned /\ seeded # None => seeded.bucket = Classify(row.decline_code)

(***************************************************************************)
(* seed.py:123: "Guarantee at least one active mandate of each "shape" for *)
(* boundary placement."  Once build_mandates has ended there is one with   *)
(* the general limit and one with the higher limit.  A single mandate ends *)
(* it with an IndexError instead, and making mandates[1] the priority one  *)
(* may take the only general one away.                                     *)
(***************************************************************************)
EveryShapeIsGuaranteed ==
  seeder \in {"built", "raised"} =>
    /\ ActiveOf(mandates, {"general"}) # {}
    /\ ActiveOf(mandates, PRIORITY_CATEGORIES) # {}
=============================================================================
