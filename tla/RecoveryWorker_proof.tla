------------------------ MODULE RecoveryWorker_proof ------------------------
(***************************************************************************)
(* Type correctness of RecoveryWorker, that it implements DecisionLedger,  *)
(* also as Dashboard reads it, and what is on record of fallback messages, *)
(* for any number of transactions and workers, any page size, breaker      *)
(* setting and number of faults.                                           *)
(***************************************************************************)
EXTENDS RecoveryWorker, RecoveryRules_proof, FiniteSetTheorems

\* The plan of a transaction is a RowPlan.
LEMMA RouteType == ASSUME NEW t \in Txn PROVE Route[t] \in RowPlan
<1>1. Row[t] \in RowType
  BY WorkerAssumption
<1> QED BY <1>1, PlanRowType DEF Route

\* The scenario of a row that needs the AI is one of the cached keys.
LEMMA ScenarioType ==
  ASSUME NEW t \in NeedsAI
  PROVE  ScenarioKey(t) \in Scenario
BY DEF Scenario

\* What it takes to be a permitted plan.
LEMMA PermittedIntro ==
  ASSUME NEW t \in Txn, NEW reason \in PermittedReasons(t),
         NEW message \in PermittedMessages(t)
  PROVE  WithSources(Route[t], reason, message) \in PermittedPlans(t)
BY DEF PermittedPlans

\* _merge_ai changes the reason and the source of the message only, and only
\* to what the policy permits, whatever the AI answered.
LEMMA MergeAIPermitted ==
  ASSUME NEW t \in Txn, NEW res
  PROVE  /\ MergeAI(Route[t], res) \in RowPlan
         /\ Route[t].ai_task # "none" => MergeAI(Route[t], res) \in PermittedPlans(t)
<1>1. Route[t] \in RowPlan
  BY RouteType
<1>2. /\ Route[t].ai_task \in {"classify", "message", "none"}
      /\ Route[t].reasoning_source =
           IF Route[t].ai_task = "classify" THEN "ai_fallback" ELSE "deterministic_rule"
      /\ Route[t].message_source = "none"
  BY DEF Route, PlanRow, AiTask
<1>3. CASE Route[t].ai_task = "classify"
  <2> DEFINE rs == IF res = "ok" THEN "ai_classifier" ELSE "ai_fallback"
  <2>1. MergeAI(Route[t], res) = [Route[t] EXCEPT !.reasoning_source = rs]
    BY <1>3 DEF MergeAI
  <2>2. [Route[t] EXCEPT !.reasoning_source = rs] =
          WithSources(Route[t], rs, "none")
    BY <1>1, <1>2 DEF RowPlan, WithSources
  <2>3. rs \in {"ai_classifier", "ai_fallback"}
    OBVIOUS
  <2> HIDE DEF rs
  <2>4. [Route[t] EXCEPT !.reasoning_source = rs] \in RowPlan
    BY <1>1, <2>3 DEF RowPlan, ReasoningSource
  <2>5. WithSources(Route[t], rs, "none") \in PermittedPlans(t)
    BY <1>3, <2>3, PermittedIntro DEF PermittedReasons, PermittedMessages
  <2> QED BY <2>1, <2>2, <2>4, <2>5
<1>4. CASE Route[t].ai_task = "message"
  <2> DEFINE ms == IF res = "ok" THEN "ai" ELSE "fallback"
  <2>1. MergeAI(Route[t], res) = [Route[t] EXCEPT !.message_source = ms]
    BY <1>4 DEF MergeAI
  <2>2. [Route[t] EXCEPT !.message_source = ms] =
          WithSources(Route[t], "deterministic_rule", ms)
    BY <1>1, <1>2, <1>4 DEF RowPlan, WithSources
  <2>3. ms \in {"ai", "fallback"}
    OBVIOUS
  <2> HIDE DEF ms
  <2>4. [Route[t] EXCEPT !.message_source = ms] \in RowPlan
    BY <1>1, <2>3 DEF RowPlan
  <2>5. WithSources(Route[t], "deterministic_rule", ms) \in PermittedPlans(t)
    BY <1>4, <2>3, PermittedIntro DEF PermittedReasons, PermittedMessages
  <2> QED BY <2>1, <2>2, <2>4, <2>5
<1>5. CASE Route[t].ai_task = "none"
  BY <1>1, <1>5 DEF MergeAI
<1> QED BY <1>2, <1>3, <1>4, <1>5

\* So whatever a worker writes is a permitted plan of the row.
LEMMA MergedPermitted ==
  ASSUME NEW w \in Worker, NEW t \in Txn
  PROVE  Merged(w, t) \in RowPlan /\ Merged(w, t) \in PermittedPlans(t)
<1>1. CASE t \in NeedsAI
  BY <1>1, MergeAIPermitted DEF Merged, NeedsAI, AsksAI
<1>2. CASE t \notin NeedsAI
  <2>1. Merged(w, t) = Route[t] /\ Route[t].ai_task = "none"
    BY <1>2 DEF Merged, NeedsAI, AsksAI
  <2>2. /\ Route[t].reasoning_source = "deterministic_rule"
        /\ Route[t].message_source = "none"
    BY <2>1 DEF Route, PlanRow
  <2>3. Route[t] = WithSources(Route[t], "deterministic_rule", "none")
    BY <2>2, RouteType DEF RowPlan, WithSources
  <2>4. WithSources(Route[t], "deterministic_rule", "none") \in PermittedPlans(t)
    BY <2>1, PermittedIntro DEF PermittedReasons, PermittedMessages
  <2> QED BY <2>1, <2>3, <2>4, RouteType
<1> QED BY <1>1, <1>2

-----------------------------------------------------------------------------
\* What WRITE_ROW puts into the tables has their types.
LEMMA WriteRowsType ==
  ASSUME TypeOK, NEW w \in Worker, NEW S \in SUBSET Txn, WriteRows(w, S)
  PROVE  /\ decisions' \in [Txn -> DecisionType \cup {None}]
         /\ audit' \in [Txn -> Seq(SnapshotType)]
         /\ status' \in [Txn -> {"pending"} \cup FinalStatus]
         /\ attempts' \in [Txn -> Nat]
<1>1. ASSUME NEW t \in Txn
      PROVE  /\ DecisionRow(Merged(w, t)) \in DecisionType
             /\ Snapshot(Merged(w, t)) \in SnapshotType
             /\ Merged(w, t).final_status \in FinalStatus
             /\ Merged(w, t).attempts_after \in Nat
  <2> DEFINE p == Merged(w, t)
  <2>1. p \in RowPlan
    BY MergedPermitted
  <2> HIDE DEF p
  <2>2. /\ DecisionRow(p) \in DecisionType /\ Snapshot(p) \in SnapshotType
        /\ p.final_status \in FinalStatus /\ p.attempts_after \in Nat
    BY <2>1 DEF RowPlan, DecisionRow, DecisionType, Snapshot, SnapshotType
  <2> QED BY <2>2 DEF p
<1>2. ASSUME NEW t \in Txn PROVE Append(audit[t], Snapshot(Merged(w, t))) \in Seq(SnapshotType)
  BY <1>1, <1>2 DEF TypeOK
<1>3. decisions' \in [Txn -> DecisionType \cup {None}]
  BY <1>1 DEF WriteRows, TypeOK
<1>4. audit' \in [Txn -> Seq(SnapshotType)]
  BY <1>2 DEF WriteRows, TypeOK
<1>5. status' \in [Txn -> {"pending"} \cup FinalStatus]
  BY <1>1 DEF WriteRows, TypeOK
<1>6. attempts' \in [Txn -> Nat]
  BY <1>1 DEF WriteRows, TypeOK
<1> QED BY <1>3, <1>4, <1>5, <1>6

\* What _write_progress writes.
LEMMA ReportType ==
  ASSUME TypeOK, NEW w \in Worker, NEW r \in BOOLEAN
  PROVE  Report(w, pages[w], r) \in ProgressType
<1>1. Cardinality(backlog[w]) \in Nat
  <2>1. backlog[w] \in SUBSET Txn
    BY DEF TypeOK
  <2>2. IsFiniteSet(backlog[w])
    BY <2>1, WorkerAssumption, FS_Subset
  <2> QED BY <2>2, FS_CardinalityType
<1>2. ASSUME NEW c \in Nat, NEW n \in Nat \ {0}
      PROVE  (c + n - 1) \div n \in Nat
  BY <1>2
<1>3. PagesEstimated(w) \in Nat
  BY <1>1, <1>2, WorkerAssumption DEF PagesEstimated
<1>4. pages[w] \in Nat
  BY DEF TypeOK
<1> QED BY <1>3, <1>4 DEF Report, ProgressType

\* The rows a query or a page selects are transactions.
LEMMA RowSetsType ==
  ASSUME TypeOK
  PROVE  /\ Undecided \in SUBSET Txn
         /\ \A k : Eligible(k) \in SUBSET Txn
         /\ \A S \in SUBSET Txn : First(S) \in SUBSET S /\ Inserted(S) \in SUBSET S
BY DEF TypeOK, Undecided, Eligible, First, Inserted

-----------------------------------------------------------------------------
\* The initial state is well typed.
LEMMA InitTypeOK == Init => TypeOK
<1> SUFFICES ASSUME Init PROVE TypeOK
  OBVIOUS
<1>1. Row \in [Txn -> RowType] /\ InitialTxns \subseteq Txn
  BY WorkerAssumption
<1>2. \A t \in Txn : Row[t].attempt_count \in Nat
  BY <1>1 DEF RowType
<1>3. attempts \in [Txn -> Nat]
  BY <1>2 DEF Init
<1>4. audit \in [Txn -> Seq(SnapshotType)]
  BY DEF Init
<1>5. aiCache \in [Worker -> [Scenario -> {"missing", "ok", "failed"}]]
  BY DEF Init
<1>6. cursor \in [Worker -> Nat \X Nat]
  BY DEF Init
<1> QED BY <1>1, <1>3, <1>4, <1>5, <1>6 DEF Init, TypeOK, Running, Ended

\* Every step of a run, a start and a batch of the seeder keep the types.
LEMMA StepTypeOK == TypeOK /\ [Next]_vars => TypeOK'
<1> SUFFICES ASSUME TypeOK, [Next]_vars PROVE TypeOK'
  OBVIOUS
<1> USE DEF Running, Ended
<1>1. ASSUME NEW S \in SUBSET (Txn \ present), Seed(S)
      PROVE  TypeOK'
  BY <1>1 DEF Seed, TypeOK, ledger, paging, writing, totals, bounds
<1>2. ASSUME NEW w \in Worker, Start(w)
      PROVE  TypeOK'
  <2>1. Undecided \in SUBSET Txn
    BY RowSetsType
  <2>2. [k \in Scenario |-> "missing"] \in [Scenario -> {"missing", "ok", "failed"}]
    OBVIOUS
  <2>3. cursor' \in [Worker -> Nat \X Nat]
    BY <1>2 DEF Start, TypeOK
  <2>4. aiCache' \in [Worker -> [Scenario -> {"missing", "ok", "failed"}]]
    BY <1>2, <2>2 DEF Start, TypeOK
  <2> QED BY <1>2, <2>1, <2>3, <2>4 DEF Start, TypeOK, ledger, writing
<1>3. ASSUME NEW w \in Worker, FetchPage(w)
      PROVE  TypeOK'
  <2> PICK last \in Eligible(cursor[w]) :
         /\ page' = [page EXCEPT ![w] = UpTo(Eligible(cursor[w]), last)]
         /\ cursor' = [cursor EXCEPT ![w] = Key(last)]
    BY <1>3 DEF FetchPage
  <2>1. last \in Txn /\ UpTo(Eligible(cursor[w]), last) \in SUBSET Txn
    BY RowSetsType DEF UpTo
  <2>2. Key(last) \in Nat \X Nat
    BY <2>1, WorkerAssumption DEF Key, RowType
  <2>3. page' \in [Worker -> SUBSET Txn] /\ cursor' \in [Worker -> Nat \X Nat]
    BY <2>1, <2>2 DEF TypeOK
  <2>4. pages' \in [Worker -> Nat] /\ pc' \in [Worker -> Running \cup Ended]
    BY <1>3 DEF FetchPage, TypeOK
  <2> QED BY <1>3, <2>3, <2>4 DEF FetchPage, TypeOK, ledger, writing, totals, bounds
<1>4. ASSUME NEW w \in Worker, Forget(w)
      PROVE  /\ conn' \in [Worker -> {"up", "lost"}]
             /\ page' \in [Worker -> SUBSET Txn] /\ todo' \in [Worker -> SUBSET Txn]
             /\ staged' \in [Worker -> SUBSET Txn] /\ failed' \in [Worker -> SUBSET Txn]
  BY <1>4 DEF Forget, TypeOK
<1>5. ASSUME NEW w \in Worker, NEW how \in Ended, Finish(w, how)
      PROVE  TypeOK'
  <2>1. progress' \in ProgressType
    BY <1>5, ReportType DEF Finish
  <2>2. Forget(w) /\ pc' \in [Worker -> Running \cup Ended]
    BY <1>5 DEF Finish, TypeOK
  <2> QED BY <1>4, <1>5, <2>1, <2>2 DEF Finish, TypeOK, ledger, bounds
<1>6. ASSUME NEW w \in Worker, NEW how \in Ended, Abort(w, how), faults' \in Nat
      PROVE  TypeOK'
  <2>1. Forget(w) /\ pc' \in [Worker -> Running \cup Ended]
    BY <1>6 DEF Abort, TypeOK
  <2> QED BY <1>4, <1>6, <2>1 DEF Abort, TypeOK, ledger, totals
<1>7. ASSUME NEW w \in Worker, FetchEmpty(w) \/ PageLimitReached(w)
      PROVE  TypeOK'
  BY <1>5, <1>7 DEF FetchEmpty, PageLimitReached
<1>8. ASSUME Fault PROVE faults' \in Nat
  BY <1>8 DEF Fault, TypeOK
<1>9. ASSUME NEW w \in Worker, FetchRaises(w) \/ FetchFault(w) \/ Kill(w)
      PROVE  TypeOK'
  <2>1. faults' \in Nat
    BY <1>8, <1>9 DEF FetchRaises, FetchFault, Kill, TypeOK
  <2> QED BY <1>6, <1>9, <2>1 DEF FetchRaises, FetchFault, Kill
<1>10. ASSUME NEW w \in Worker, ApplyAI(w)
       PROVE  TypeOK'
  <2> PICK results \in [MissingScenarios(w) -> {"ok", "failed"}] :
         aiCache' = [aiCache EXCEPT ![w] =
           [k \in DOMAIN @ |-> IF k \in DOMAIN results THEN results[k] ELSE @[k]]]
    BY <1>10 DEF ApplyAI
  <2> DEFINE cache == [k \in DOMAIN aiCache[w] |->
                         IF k \in DOMAIN results THEN results[k] ELSE aiCache[w][k]]
  <2>1. cache \in [Scenario -> {"missing", "ok", "failed"}]
    BY DEF TypeOK
  <2> HIDE DEF cache
  <2>2. aiCache' \in [Worker -> [Scenario -> {"missing", "ok", "failed"}]]
    BY <2>1 DEF TypeOK, cache
  <2>3. todo' \in [Worker -> SUBSET Txn] /\ pc' \in [Worker -> Running \cup Ended]
    BY <1>10 DEF ApplyAI, TypeOK
  <2> QED BY <1>10, <2>2, <2>3 DEF ApplyAI, TypeOK, ledger, paging, totals, bounds
<1>11. ASSUME NEW w \in Worker, BatchRow(w)
       PROVE  TypeOK'
  <2> PICK t \in First(todo[w]) :
         /\ todo' = [todo EXCEPT ![w] = @ \ {t}]
         /\ staged' = [staged EXCEPT ![w] = @ \cup Inserted({t})]
    BY <1>11 DEF BatchRow
  <2>0. t \in Txn
    BY RowSetsType DEF TypeOK
  <2>1. Inserted({t}) \in SUBSET Txn
    BY <2>0 DEF Inserted
  <2>2. todo' \in [Worker -> SUBSET Txn] /\ staged' \in [Worker -> SUBSET Txn]
    BY <2>1 DEF TypeOK
  <2> QED BY <1>11, <2>2 DEF BatchRow, TypeOK, ledger, paging, totals, bounds
<1>12. ASSUME NEW w \in Worker, BatchCommits(w)
       PROVE  TypeOK'
  <2>1. staged[w] \in SUBSET Txn /\ WriteRows(w, staged[w])
    BY <1>12 DEF BatchCommits, TypeOK
  <2>2. /\ decisions' \in [Txn -> DecisionType \cup {None}]
        /\ audit' \in [Txn -> Seq(SnapshotType)]
        /\ status' \in [Txn -> {"pending"} \cup FinalStatus]
        /\ attempts' \in [Txn -> Nat]
    BY <2>1, WriteRowsType
  <2>3. staged' \in [Worker -> SUBSET Txn] /\ pc' \in [Worker -> Running \cup Ended]
    BY <1>12 DEF BatchCommits, TypeOK
  <2> QED BY <1>12, <2>2, <2>3 DEF BatchCommits, TypeOK, paging, totals, bounds
<1>13. ASSUME NEW w \in Worker, NEW c \in {"up", "lost"}, RetryRows(w, c),
              faults' \in Nat,
              \/ UNCHANGED ledger
              \/ \E S \in SUBSET Txn : WriteRows(w, S)
       PROVE  TypeOK'
  <2>1. /\ decisions' \in [Txn -> DecisionType \cup {None}]
        /\ audit' \in [Txn -> Seq(SnapshotType)]
        /\ status' \in [Txn -> {"pending"} \cup FinalStatus]
        /\ attempts' \in [Txn -> Nat]
    <3>1. CASE UNCHANGED ledger
      BY <3>1 DEF ledger, TypeOK
    <3> QED BY <1>13, <3>1, WriteRowsType
  <2>2. /\ pc' \in [Worker -> Running \cup Ended] /\ conn' \in [Worker -> {"up", "lost"}]
        /\ todo' \in [Worker -> SUBSET Txn] /\ staged' \in [Worker -> SUBSET Txn]
    BY <1>13 DEF RetryRows, TypeOK
  <2> QED BY <1>13, <2>1, <2>2 DEF RetryRows, TypeOK, paging, totals
<1>14. ASSUME NEW w \in Worker, BatchFails(w) \/ BatchFault(w) \/ BatchAckLost(w)
       PROVE  TypeOK'
  <2>1. faults' \in Nat
    BY <1>8, <1>14 DEF BatchFails, BatchFault, BatchAckLost, TypeOK
  <2>2. staged[w] \in SUBSET Txn
    BY DEF TypeOK
  <2> QED BY <1>13, <1>14, <2>1, <2>2 DEF BatchFails, BatchFault, BatchAckLost
<1>15. ASSUME NEW w \in Worker, RowWrites(w)
       PROVE  TypeOK'
  <2> PICK t \in First(todo[w]) : /\ WriteRows(w, {t})
                                 /\ todo' = [todo EXCEPT ![w] = @ \ {t}]
    BY <1>15 DEF RowWrites
  <2>1. {t} \in SUBSET Txn
    BY RowSetsType DEF TypeOK
  <2>2. /\ decisions' \in [Txn -> DecisionType \cup {None}]
        /\ audit' \in [Txn -> Seq(SnapshotType)]
        /\ status' \in [Txn -> {"pending"} \cup FinalStatus]
        /\ attempts' \in [Txn -> Nat]
    BY <2>1, WriteRowsType
  <2>3. todo' \in [Worker -> SUBSET Txn]
    BY DEF TypeOK
  <2> QED BY <1>15, <2>2, <2>3 DEF RowWrites, TypeOK, paging, totals, bounds
<1>16. ASSUME NEW w \in Worker, NEW t \in First(todo[w]), NEW c \in {"up", "lost"},
              RowError(w, t, c), faults' \in Nat,
              UNCHANGED ledger \/ WriteRows(w, {t})
       PROVE  TypeOK'
  <2>1. {t} \in SUBSET Txn
    BY RowSetsType DEF TypeOK
  <2>2. /\ decisions' \in [Txn -> DecisionType \cup {None}]
        /\ audit' \in [Txn -> Seq(SnapshotType)]
        /\ status' \in [Txn -> {"pending"} \cup FinalStatus]
        /\ attempts' \in [Txn -> Nat]
    <3>1. CASE UNCHANGED ledger
      BY <3>1 DEF ledger, TypeOK
    <3> QED BY <1>16, <2>1, <3>1, WriteRowsType
  <2>3. /\ conn' \in [Worker -> {"up", "lost"}] /\ todo' \in [Worker -> SUBSET Txn]
        /\ failed' \in [Worker -> SUBSET Txn]
    BY <1>16, <2>1 DEF RowError, TypeOK
  <2> QED BY <1>16, <2>2, <2>3 DEF RowError, TypeOK, paging, totals
<1>17. ASSUME NEW w \in Worker, RowFails(w) \/ RowFault(w) \/ RowAckLost(w)
       PROVE  TypeOK'
  <2>1. faults' \in Nat
    BY <1>8, <1>17 DEF RowFails, RowFault, RowAckLost, TypeOK
  <2>2. conn[w] \in {"up", "lost"}
    BY DEF TypeOK
  <2> QED BY <1>16, <1>17, <2>1, <2>2 DEF RowFails, RowFault, RowAckLost
<1>18. ASSUME NEW w \in Worker, PageTallied(w) \/ BreakerTrips(w)
       PROVE  TypeOK'
  <2>1. Tally(w)
    BY <1>18 DEF PageTallied, BreakerTrips
  <2>2. errorIds' \in [Worker -> SUBSET Txn] /\ tallied' \in [Txn -> Nat]
    BY <2>1 DEF Tally, TypeOK
  <2>3. progress' \in ProgressType
    BY <1>18, ReportType DEF PageTallied, BreakerTrips
  <2>4. pc' \in [Worker -> Running \cup Ended]
    BY <1>18 DEF PageTallied, BreakerTrips, TypeOK
  <2>5. /\ conn' \in [Worker -> {"up", "lost"}]
        /\ page' \in [Worker -> SUBSET Txn] /\ todo' \in [Worker -> SUBSET Txn]
        /\ staged' \in [Worker -> SUBSET Txn] /\ failed' \in [Worker -> SUBSET Txn]
    BY <1>4, <1>18 DEF PageTallied, BreakerTrips, TypeOK
  <2> QED BY <2>1, <2>2, <2>3, <2>4, <2>5 DEF Tally, TypeOK, ledger, bounds
<1>19. CASE UNCHANGED vars
  BY <1>19 DEF TypeOK, vars, ledger, paging, writing, totals, bounds
<1> QED
  BY <1>1, <1>2, <1>3, <1>7, <1>9, <1>10, <1>11, <1>12, <1>14, <1>15, <1>17, <1>18,
     <1>19 DEF Next, Step, FaultStep

\* Every variable keeps its type, however many workers, transactions, runs and
\* faults there are.
THEOREM TypeCorrect == Spec => []TypeOK
BY InitTypeOK, StepTypeOK, PTL DEF Spec

-----------------------------------------------------------------------------
(***************************************************************************)
(* RecoveryWorker implements DecisionLedger.  The refinement needs two     *)
(* facts about the reachable states: a transaction is untouched or carries *)
(* a whole permitted entry, so that a row the INSERT takes effect on is    *)
(* untouched in all four tables; and the rows a worker has inserted and    *)
(* not yet committed exist.  The steps are sorted by what they do to the   *)
(* tables alone, so that a composition with a reset can use the lemmas.    *)
(***************************************************************************)
PermittedEntries(t) == {LedgerEntry(p) : p \in PermittedPlans(t)}

WrittenEntry(t) == [decision |-> decisions[t], audit |-> audit[t],
                    status |-> status[t], attempts |-> attempts[t]]

Entered(t) == /\ decisions[t] # None /\ t \in present
              /\ WrittenEntry(t) \in PermittedEntries(t)

LedgerIsWhole == \A t \in Txn : Untouched(t) \/ Entered(t)

StagedRowsExist == \A w \in Worker : staged[w] \subseteq present

LedgerInv == TypeOK /\ LedgerIsWhole /\ StagedRowsExist

-----------------------------------------------------------------------------
\* WRITE_ROW, inserting for existing rows only: the rows whose insert takes effect were
\* untouched and now carry the whole entry of the worker's plan; every other
\* row is as it was.
LEMMA WriteRowsEffect ==
  ASSUME LedgerInv, NEW w \in Worker, NEW S \in SUBSET Txn,
         Inserted(S) \subseteq present, WriteRows(w, S)
  PROVE  /\ \A t \in Inserted(S) :
              /\ t \in Txn /\ t \in present /\ Untouched(t)
              /\ decisions'[t] # None
              /\ WrittenEntry(t)' \in PermittedEntries(t)
         /\ \A t \in Txn \ Inserted(S) :
              /\ decisions'[t] = decisions[t] /\ audit'[t] = audit[t]
              /\ status'[t] = status[t] /\ attempts'[t] = attempts[t]
<1>1. ASSUME NEW t \in Inserted(S)
      PROVE  /\ t \in Txn /\ t \in present /\ Untouched(t)
             /\ decisions'[t] # None
             /\ WrittenEntry(t)' \in PermittedEntries(t)
  <2> DEFINE p == Merged(w, t)
  <2>1. t \in S /\ t \in Txn /\ t \in present /\ decisions[t] = None
    BY <1>1 DEF Inserted, LedgerInv, TypeOK
  <2>2. Untouched(t)
    BY <2>1 DEF LedgerInv, LedgerIsWhole, Entered
  <2>3. p \in RowPlan /\ p \in PermittedPlans(t)
    BY <2>1, MergedPermitted
  <2>4. /\ decisions'[t] = DecisionRow(p) /\ audit'[t] = Append(audit[t], Snapshot(p))
        /\ status'[t] = p.final_status /\ attempts'[t] = p.attempts_after
    BY <1>1, <2>1, <2>2 DEF WriteRows, Untouched
  <2> HIDE DEF p
  <2>5. audit'[t] = <<Snapshot(p)>>
    BY <2>2, <2>4 DEF Untouched
  <2>6. DecisionRow(p) # None
    <3>1. DecisionRow(p) \in DecisionType
      BY <2>3 DEF RowPlan, DecisionRow, DecisionType
    <3> QED BY <3>1, NoneAssumption DEF DecisionType
  <2>7. WrittenEntry(t)' = LedgerEntry(p)
    BY <2>4, <2>5 DEF WrittenEntry, LedgerEntry
  <2> QED BY <2>1, <2>2, <2>3, <2>4, <2>6, <2>7 DEF PermittedEntries
<1>2. ASSUME NEW t \in Txn \ Inserted(S)
      PROVE  /\ decisions'[t] = decisions[t] /\ audit'[t] = audit[t]
             /\ status'[t] = status[t] /\ attempts'[t] = attempts[t]
  BY <1>2 DEF WriteRows
<1> QED BY <1>1, <1>2

\* The three ways a step treats the four tables and the rows there are.
LedgerStep(w, S) ==
  Inserted(S) \subseteq present /\ WriteRows(w, S) /\ UNCHANGED present

TableStep ==
  \/ \E S \in SUBSET (Txn \ present) : present' = present \cup S /\ UNCHANGED ledger
  \/ UNCHANGED <<present, ledger>>
  \/ \E w \in Worker, S \in SUBSET Txn : LedgerStep(w, S)

\* Every step of the specification is one of them.
LEMMA StepTables == LedgerInv /\ [Next]_vars => TableStep
<1> SUFFICES ASSUME LedgerInv, [Next]_vars PROVE TableStep
  OBVIOUS
<1>1. ASSUME NEW S \in SUBSET (Txn \ present), Seed(S) PROVE TableStep
  BY <1>1 DEF Seed, TableStep, ledger
<1>2. ASSUME NEW w \in Worker, Start(w) PROVE TableStep
  BY <1>2 DEF Start, TableStep
<1>3. ASSUME NEW w \in Worker,
             \/ FetchPage(w) \/ FetchEmpty(w) \/ PageLimitReached(w) \/ FetchRaises(w)
             \/ ApplyAI(w) \/ BatchRow(w) \/ PageTallied(w) \/ BreakerTrips(w)
             \/ FetchFault(w) \/ Kill(w)
      PROVE  TableStep
  BY <1>3 DEF FetchPage, FetchEmpty, PageLimitReached, FetchRaises, ApplyAI, BatchRow,
              PageTallied, BreakerTrips, Tally, FetchFault, Kill, Finish, Abort, TableStep
<1>4. ASSUME NEW w \in Worker, BatchFails(w) \/ BatchFault(w) PROVE TableStep
  BY <1>4 DEF BatchFails, BatchFault, RetryRows, TableStep
<1>5. ASSUME NEW w \in Worker, RowFails(w) \/ RowFault(w) PROVE TableStep
  BY <1>5 DEF RowFails, RowFault, RowError, TableStep
<1>6. ASSUME NEW w \in Worker, BatchCommits(w) \/ BatchAckLost(w) PROVE TableStep
  <2>1. LedgerStep(w, staged[w])
    BY <1>6 DEF BatchCommits, BatchAckLost, RetryRows, LedgerStep, LedgerInv,
                StagedRowsExist, Inserted
  <2>2. staged[w] \in SUBSET Txn
    BY DEF LedgerInv, TypeOK
  <2> QED BY <2>1, <2>2 DEF TableStep
<1>7. ASSUME NEW w \in Worker, RowWrites(w) \/ RowAckLost(w) PROVE TableStep
  <2> PICK t \in First(todo[w]) : ~Raises(t) /\ WriteRows(w, {t})
    BY <1>7 DEF RowWrites, RowAckLost
  <2>1. Inserted({t}) \subseteq present /\ t \in Txn
    BY DEF First, Raises, Inserted, LedgerInv, TypeOK
  <2>2. LedgerStep(w, {t})
    BY <1>7, <2>1 DEF RowWrites, RowAckLost, RowError, LedgerStep
  <2> QED BY <2>1, <2>2 DEF TableStep
<1>8. CASE UNCHANGED vars
  BY <1>8 DEF vars, TableStep
<1> QED
  BY <1>1, <1>2, <1>3, <1>4, <1>5, <1>6, <1>7, <1>8 DEF Next, Step, FaultStep

\* No step takes a transaction apart.
LEMMA StepLedgerIsWhole == LedgerInv /\ TableStep => LedgerIsWhole'
<1> SUFFICES ASSUME LedgerInv, TableStep, NEW t \in Txn
             PROVE  Untouched(t)' \/ Entered(t)'
  BY DEF LedgerIsWhole
<1>0. Untouched(t) \/ Entered(t)
  BY DEF LedgerInv, LedgerIsWhole
<1>1. ASSUME UNCHANGED ledger, present \subseteq present'
      PROVE  Untouched(t)' \/ Entered(t)'
  BY <1>0, <1>1 DEF Untouched, Entered, WrittenEntry, ledger
<1>2. ASSUME NEW w \in Worker, NEW S \in SUBSET Txn, LedgerStep(w, S)
      PROVE  Untouched(t)' \/ Entered(t)'
  <2>1. Inserted(S) \subseteq present /\ WriteRows(w, S) /\ present' = present
    BY <1>2 DEF LedgerStep
  <2>2. CASE t \in Inserted(S)
    BY <2>1, <2>2, WriteRowsEffect DEF Entered
  <2>3. CASE t \notin Inserted(S)
    <3>1. /\ decisions'[t] = decisions[t] /\ audit'[t] = audit[t]
          /\ status'[t] = status[t] /\ attempts'[t] = attempts[t]
      BY <2>1, <2>3, WriteRowsEffect
    <3> QED BY <1>0, <2>1, <3>1 DEF Untouched, Entered, WrittenEntry
  <2> QED BY <2>2, <2>3
<1> QED BY <1>1, <1>2 DEF TableStep

\* A row is inserted only while it exists, and a step takes no row away.
LEMMA StepStagedRows == LedgerInv /\ [Next]_vars => StagedRowsExist'
<1> SUFFICES ASSUME LedgerInv, [Next]_vars PROVE StagedRowsExist'
  OBVIOUS
<1>0. present \subseteq present'
  BY StepTables DEF TableStep, LedgerStep
<1>1. ASSUME NEW w \in Worker,
             staged' = [staged EXCEPT ![w] = {}] \/ UNCHANGED staged
      PROVE  StagedRowsExist'
  BY <1>0, <1>1 DEF StagedRowsExist, LedgerInv, TypeOK
<1>2. ASSUME NEW w \in Worker, BatchRow(w) PROVE StagedRowsExist'
  <2> PICK t \in First(todo[w]) : /\ ~Raises(t)
                                /\ staged' = [staged EXCEPT ![w] = @ \cup Inserted({t})]
    BY <1>2 DEF BatchRow
  <2>1. Inserted({t}) \subseteq present
    BY DEF Inserted, Raises
  <2> QED BY <1>0, <2>1 DEF StagedRowsExist, LedgerInv, TypeOK
<1>3. ASSUME NEW w \in Worker,
             \/ Start(w) \/ FetchPage(w) \/ ApplyAI(w) \/ PageTallied(w)
             \/ RowWrites(w) \/ RowFails(w) \/ RowFault(w) \/ RowAckLost(w)
      PROVE  UNCHANGED staged
  BY <1>3 DEF Start, FetchPage, ApplyAI, PageTallied, RowWrites, RowFails, RowFault,
              RowAckLost, RowError, writing
<1>4. ASSUME NEW w \in Worker,
             \/ FetchEmpty(w) \/ PageLimitReached(w) \/ FetchRaises(w) \/ BreakerTrips(w)
             \/ FetchFault(w) \/ Kill(w) \/ BatchCommits(w) \/ BatchFails(w)
             \/ BatchFault(w) \/ BatchAckLost(w)
      PROVE  staged' = [staged EXCEPT ![w] = {}]
  BY <1>4 DEF FetchEmpty, PageLimitReached, FetchRaises, BreakerTrips, FetchFault, Kill,
              Finish, Abort, Forget, BatchCommits, BatchFails, BatchFault, BatchAckLost,
              RetryRows
<1>5. ASSUME NEW S \in SUBSET (Txn \ present), Seed(S) PROVE StagedRowsExist'
  BY <1>0, <1>5 DEF Seed, writing, StagedRowsExist, LedgerInv
<1>6. CASE UNCHANGED vars
  BY <1>0, <1>6 DEF vars, writing, StagedRowsExist, LedgerInv
<1> QED
  BY <1>1, <1>2, <1>3, <1>4, <1>5, <1>6 DEF Next, Step, FaultStep

\* It holds of empty tables, and every step keeps it.
LEMMA InitLedgerInv == Init => LedgerInv
<1> SUFFICES ASSUME Init PROVE LedgerInv
  OBVIOUS
<1>1. LedgerIsWhole
  BY DEF Init, LedgerIsWhole, Untouched
<1>2. StagedRowsExist
  BY DEF Init, StagedRowsExist
<1> QED BY <1>1, <1>2, InitTypeOK DEF LedgerInv

LEMMA StepLedgerInv == LedgerInv /\ [Next]_vars => LedgerInv'
BY StepTypeOK, StepTables, StepLedgerIsWhole, StepStagedRows DEF LedgerInv

\* The invariant of the refinement.
THEOREM LedgerInvariant == Spec => []LedgerInv
BY InitLedgerInv, StepLedgerInv, PTL DEF Spec

-----------------------------------------------------------------------------
\* A write is a step of the ledger that decides the rows inserted.
LEMMA WriteDecides ==
  ASSUME LedgerInv, NEW w \in Worker, NEW S \in SUBSET Txn, LedgerStep(w, S)
  PROVE  Ledger!Next
<1> DEFINE new == Inserted(S)
<1>1. Inserted(S) \subseteq present /\ WriteRows(w, S) /\ present' = present
  BY DEF LedgerStep
<1>2. new \in SUBSET present
  BY <1>1
<1>3. \A t \in new : /\ t \in Txn /\ EntryOf(t) = None
                     /\ EntryOf(t)' \in {LedgerEntry(p) : p \in PermittedPlans(t)}
  BY <1>1, WriteRowsEffect DEF EntryOf, Untouched, WrittenEntry, PermittedEntries
<1>4. \A t \in Txn \ new : EntryOf(t)' = EntryOf(t)
  <2> SUFFICES ASSUME NEW t \in Txn \ new PROVE EntryOf(t)' = EntryOf(t)
    OBVIOUS
  <2>1. /\ decisions'[t] = decisions[t] /\ audit'[t] = audit[t]
        /\ status'[t] = status[t] /\ attempts'[t] = attempts[t]
    BY <1>1, WriteRowsEffect
  <2> QED BY <2>1 DEF EntryOf, Untouched
<1> HIDE DEF new
<1>5. Ledger!Decide(new)
  BY <1>1, <1>3, <1>4 DEF Ledger!Decide
<1> QED BY <1>2, <1>5 DEF Ledger!Next

\* The four tables, read together, behave as the ledger: whole permitted
\* entries, one per transaction, for ever.
THEOREM LedgerImplemented == Spec => ImplementsDecisionLedger
<1>1. Init => Ledger!Init
  BY DEF Init, Ledger!Init, EntryOf, Untouched
<1>2. LedgerInv /\ [Next]_vars => [Ledger!Next]_Ledger!vars
  <2> SUFFICES ASSUME LedgerInv, [Next]_vars PROVE [Ledger!Next]_Ledger!vars
    OBVIOUS
  <2>1. ASSUME UNCHANGED ledger
        PROVE  [t \in Txn |-> EntryOf(t)]' = [t \in Txn |-> EntryOf(t)]
    BY <2>1 DEF EntryOf, Untouched, ledger
  <2>2. ASSUME NEW S \in SUBSET (Txn \ present), present' = present \cup S,
               UNCHANGED ledger
        PROVE  Ledger!Next
    BY <2>1, <2>2 DEF Ledger!Next, Ledger!Arrive
  <2>3. ASSUME UNCHANGED <<present, ledger>> PROVE UNCHANGED Ledger!vars
    BY <2>1, <2>3 DEF Ledger!vars
  <2>4. TableStep
    BY StepTables
  <2> QED BY <2>2, <2>3, <2>4, WriteDecides DEF TableStep
<1> QED BY <1>1, <1>2, LedgerInvariant, PTL
        DEF Spec, ImplementsDecisionLedger, Ledger!Spec
-----------------------------------------------------------------------------
(***************************************************************************)
(* What Dashboard assumes of the tables: it knows an entry by its status,  *)
(* and takes decision and record to be there exactly when it is final.     *)
(***************************************************************************)
Shown == INSTANCE DecisionLedger
  WITH arrived <- present,
       entry <- [t \in Txn |-> IF status[t] = "pending" THEN None ELSE status[t]],
       Permitted <- [t \in Txn |-> {Route[t].final_status}]

ShownTogether ==
  \A t \in Txn : /\ status[t] = "pending" <=> decisions[t] = None
                 /\ decisions[t] = None <=> audit[t] = <<>>

\* The AI changes nothing of a plan that the rule engine decides.
LEMMA PermittedAsPlanned ==
  ASSUME NEW t \in Txn, NEW p \in PermittedPlans(t)
  PROVE  /\ p.action = Route[t].action /\ p.rule_fired = Route[t].rule_fired
         /\ p.final_status = Route[t].final_status /\ p.final_status # "pending"
<1>1. Route[t] \in RowPlan
  BY RouteType
<1> PICK reason \in PermittedReasons(t), message \in PermittedMessages(t) :
       p = WithSources(Route[t], reason, message)
  BY DEF PermittedPlans
<1>2. p = [Route[t] EXCEPT !.reasoning_source = reason, !.message_source = message]
  BY DEF WithSources
<1>3. Route[t] = [action |-> Route[t].action, rule_fired |-> Route[t].rule_fired,
                  next_action_at |-> Route[t].next_action_at,
                  final_status |-> Route[t].final_status,
                  attempts_after |-> Route[t].attempts_after,
                  ai_task |-> Route[t].ai_task,
                  reasoning_source |-> Route[t].reasoning_source,
                  message_source |-> Route[t].message_source]
  BY <1>1 DEF RowPlan
<1>4. Route[t].final_status # "pending"
  BY <1>1 DEF RowPlan, FinalStatus
<1> QED BY <1>2, <1>3, <1>4

\* A row that has its entry has it as it was planned.
LEMMA EnteredAsPlanned ==
  ASSUME NEW t \in Txn, Entered(t)
  PROVE  /\ decisions[t].action_taken = Route[t].action
         /\ decisions[t].rule_fired = Route[t].rule_fired
         /\ status[t] = Route[t].final_status /\ status[t] # "pending"
         /\ Len(audit[t]) = 1 /\ audit[t] # <<>>
<1> PICK p \in PermittedPlans(t) : WrittenEntry(t) = LedgerEntry(p)
  BY DEF Entered, PermittedEntries
<1>1. /\ decisions[t] = DecisionRow(p) /\ audit[t] = <<Snapshot(p)>>
      /\ status[t] = p.final_status
  BY DEF WrittenEntry, LedgerEntry
<1> QED BY <1>1, PermittedAsPlanned DEF DecisionRow

\* What is written at once is shown at once.
LEMMA ShownDecides ==
  ASSUME LedgerInv, NEW w \in Worker, NEW S \in SUBSET Txn, LedgerStep(w, S)
  PROVE  Shown!Next
<1> DEFINE new == Inserted(S)
<1>1. new \subseteq present /\ WriteRows(w, S) /\ present' = present
  BY DEF LedgerStep
<1>2. ASSUME NEW t \in new
      PROVE  t \in Txn /\ status[t] = "pending" /\ status'[t] # "pending"
             /\ status'[t] = Route[t].final_status
  <2>1. t \in Txn /\ Untouched(t) /\ WrittenEntry(t)' \in PermittedEntries(t)
    BY <1>1, WriteRowsEffect
  <2> PICK p \in PermittedPlans(t) : WrittenEntry(t)' = LedgerEntry(p)
    BY <2>1 DEF PermittedEntries
  <2>2. status'[t] = p.final_status
    BY DEF WrittenEntry, LedgerEntry
  <2> QED BY <2>1, <2>2, PermittedAsPlanned DEF Untouched
<1>3. \A t \in Txn \ new : status'[t] = status[t]
  BY <1>1, WriteRowsEffect
<1> HIDE DEF new
<1>4. Shown!Decide(new)
  BY <1>1, <1>2, <1>3 DEF Shown!Decide
<1>5. new \in SUBSET present
  BY <1>1
<1> QED BY <1>4, <1>5 DEF Shown!Next, Shown!Decide

\* Read by their status alone, the tables are a ledger too: the one whose
\* writers Dashboard has; and status, decision and record of a transaction
\* are there together.
THEOREM WorkerServesDashboard == Spec => Shown!Spec /\ []ShownTogether
<1>1. Init => Shown!Init
  BY DEF Init, Shown!Init
<1>2. LedgerInv /\ [Next]_vars => [Shown!Next]_Shown!vars
  <2> SUFFICES ASSUME LedgerInv, [Next]_vars PROVE [Shown!Next]_Shown!vars
    OBVIOUS
  <2>1. CASE UNCHANGED ledger
    <3>1. [t \in Txn |-> IF status'[t] = "pending" THEN None ELSE status'[t]]
            = [t \in Txn |-> IF status[t] = "pending" THEN None ELSE status[t]]
      BY <2>1 DEF ledger
    <3>2. ASSUME NEW S \in SUBSET (Txn \ present), present' = present \cup S
          PROVE  Shown!Next
      BY <3>1, <3>2 DEF Shown!Next, Shown!Arrive
    <3>3. present' = present => UNCHANGED Shown!vars
      BY <3>1 DEF Shown!vars
    <3> QED BY <2>1, <3>2, <3>3, StepTables DEF TableStep, LedgerStep
  <2> QED BY <2>1, ShownDecides, StepTables DEF TableStep
<1>3. LedgerInv => ShownTogether
  BY EnteredAsPlanned DEF LedgerInv, LedgerIsWhole, Untouched, Entered, ShownTogether
<1> QED BY <1>1, <1>2, <1>3, LedgerInvariant, PTL DEF Spec, Shown!Spec

(***************************************************************************)
(* How far FallbackIsRecorded fails: for every fallback message, and for   *)
(* nothing else.  The audit record of a link with a fallback message says  *)
(* deterministic_rule; ai_fallback on record always means that the code of *)
(* the row was asked about in vain.                                        *)
(***************************************************************************)
FallbackMessagesAreRuleDecisions ==
  \A t \in Txn : \A i \in 1..Len(audit[t]) :
    /\ audit[t][i].message_source = "fallback" =>
         /\ audit[t][i].reasoning_source = "deterministic_rule"
         /\ audit[t][i].action_taken = "reauth_link_sent"
         /\ ~IsUnmapped(Row[t].decline_code)
    /\ audit[t][i].reasoning_source \in {"ai_classifier", "ai_fallback"} <=>
         IsUnmapped(Row[t].decline_code)

LEMMA SourcesAsPlanned ==
  ASSUME NEW t \in Txn, NEW p \in PermittedPlans(t)
  PROVE  /\ p.message_source = "fallback" =>
              /\ p.reasoning_source = "deterministic_rule"
              /\ p.action = "reauth_link_sent" /\ ~IsUnmapped(Row[t].decline_code)
         /\ p.reasoning_source \in {"ai_classifier", "ai_fallback"} <=>
              IsUnmapped(Row[t].decline_code)
<1>1. /\ Route[t] \in RowPlan /\ Row[t] \in RowType /\ Route[t] = PlanRow(Row[t])
  BY RouteType, WorkerAssumption DEF Route
<1>2. Route[t].ai_task = AiTask(Row[t].decline_code, Route[t].action)
  BY <1>1 DEF PlanRow
<1> PICK reason \in PermittedReasons(t), message \in PermittedMessages(t) :
       p = WithSources(Route[t], reason, message)
  BY DEF PermittedPlans
<1>3. /\ p.reasoning_source = reason /\ p.message_source = message
      /\ p.action = Route[t].action
  BY <1>1 DEF WithSources, RowPlan
<1> QED BY <1>2, <1>3 DEF PermittedReasons, PermittedMessages, AiTask

\* A fallback message never changes the source of the decision on record.
THEOREM FallbacksAreRuleDecisions == Spec => []FallbackMessagesAreRuleDecisions
<1>1. LedgerInv => FallbackMessagesAreRuleDecisions
  <2> SUFFICES ASSUME LedgerInv, NEW t \in Txn, NEW i \in 1..Len(audit[t])
               PROVE  /\ audit[t][i].message_source = "fallback" =>
                           /\ audit[t][i].reasoning_source = "deterministic_rule"
                           /\ audit[t][i].action_taken = "reauth_link_sent"
                           /\ ~IsUnmapped(Row[t].decline_code)
                      /\ audit[t][i].reasoning_source \in {"ai_classifier", "ai_fallback"} <=>
                           IsUnmapped(Row[t].decline_code)
    BY DEF FallbackMessagesAreRuleDecisions
  <2>1. Entered(t)
    BY DEF LedgerInv, LedgerIsWhole, Untouched
  <2> PICK p \in PermittedPlans(t) : WrittenEntry(t) = LedgerEntry(p)
    BY <2>1 DEF Entered, PermittedEntries
  <2>2. audit[t] = <<Snapshot(p)>>
    BY DEF WrittenEntry, LedgerEntry
  <2>3. audit[t][i] = Snapshot(p)
    BY <2>2
  <2> QED BY <2>3, SourcesAsPlanned DEF Snapshot
<1> QED BY <1>1, LedgerInvariant, PTL
=============================================================================
