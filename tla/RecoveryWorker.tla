--------------------------- MODULE RecoveryWorker ---------------------------
(***************************************************************************)
(* run() of src/worker.py: any number of worker processes page through the *)
(* pending transactions of one PostgreSQL database, plan each row, merge   *)
(* what the AI layer returned, and write decision, audit record and status *)
(* of the row in one statement; with the seeder adding transactions beside *)
(* them, lost connections, lost acknowledgements, rows that cannot be      *)
(* written, and processes that are killed and started again.               *)
(*                                                                         *)
(* External, modelled from how the code uses it: PostgreSQL (statements of *)
(* one executemany are one implicit transaction, sent in pipeline mode;    *)
(* INSERT ... ON CONFLICT waits for an uncommitted insert of the same key) *)
(* and the AI provider, whose answer to a scenario is ok or failed.        *)
(***************************************************************************)
EXTENDS RecoveryRules, FiniteSets, Sequences

CONSTANTS Txn,           \* transaction ids, numbers for their order
          Row,           \* [Txn -> RowType]: what the page query reads
          InitialTxns,   \* the transactions of the first batch
          Poison,        \* transactions whose write always raises
          Worker,        \* worker processes
          PageSize,      \* page_size
          MaxPages,      \* max_pages of each worker, None for no limit
          CircuitBreaker,\* circuit_breaker
          MinErrors,     \* CIRCUIT_BREAKER_MIN_ERRORS
          ThresholdPct,  \* CIRCUIT_BREAKER_THRESHOLD, in percent
          MaxRuns,       \* bound: calls of run(), over all workers
          MaxFaults      \* bound: faults and kills, over all workers

ASSUME WorkerAssumption ==
  /\ Txn \subseteq Nat \ {0} /\ IsFiniteSet(Txn)
  /\ Row \in [Txn -> RowType]
  /\ InitialTxns \subseteq Txn /\ Poison \subseteq Txn
  /\ PageSize \in Nat \ {0}
  /\ MaxPages \in [Worker -> Nat \cup {None}]
  /\ CircuitBreaker \in BOOLEAN
  /\ MinErrors \in Nat /\ ThresholdPct \in Nat
  /\ MaxRuns \in Nat /\ MaxFaults \in Nat

ASSUME NoneAssumption ==
  None \notin Nat \cup [rule_fired : RuleFired, action_taken : Action,
                        reasoning_source : ReasoningSource,
                        next_action_at : Nat \cup {None}]

VARIABLES
  \* the database
  present,    \* the rows of transactions
  decisions,  \* agent_decisions: [Txn -> a row, or None]
  audit,      \* audit_log: [Txn -> the payload snapshots of the transaction]
  status,     \* transactions.status
  attempts,   \* transactions.attempt_count
  progress,   \* worker_progress.json, None before the first write
  \* one run() per worker
  pc,         \* where the run is, or how it ended
  conn,       \* its connection: "up" or "lost"
  cursor,     \* <<cursor_ts, cursor_id>>
  page,       \* the rows of the current page
  pages,      \* result.pages
  backlog,    \* the rows _estimate_total_pages counted
  aiCache,    \* ai_cache: [Scenario -> "missing", "ok" or "failed"]
  todo,       \* the rows write_page has still to execute
  staged,     \* the rows inserted by its open transaction
  failed,     \* the keys of the page's errors
  errorIds,   \* result.error_ids
  \* history
  tallied,    \* [Txn -> how many runs counted it as processed]
  runs,       \* calls of run() so far
  faults      \* faults so far

ledger  == <<decisions, audit, status, attempts>>
paging  == <<cursor, page, pages, backlog>>
writing == <<todo, staged, failed>>
totals  == <<progress, errorIds, tallied>>
bounds  == <<runs, faults>>
vars    == <<present, ledger, paging, writing, totals, bounds, pc, conn, aiCache>>

Running == {"fetch", "ai", "batch", "rowwise", "tally"}
Ended   == {"idle", "completed", "max_pages", "tripped", "raised", "killed"}

-----------------------------------------------------------------------------
(***************************************************************************)
(* The plan of a row: plan_row and _merge_ai.                              *)
(***************************************************************************)
\* A row is updated only together with its decision, so a row the page query
\* returns still reads as it was ingested.
Route == [t \in Txn |-> PlanRow(Row[t])]

ScenarioKey(t) ==
  IF Route[t].ai_task = "classify"
  THEN <<"classify", Row[t].decline_code.text>>
  ELSE <<"message", Route[t].rule_fired, Row[t].mandate_category>>

AsksAI(t) == Route[t].ai_task # "none"

NeedsAI  == {t \in Txn : AsksAI(t)}
Scenario == {ScenarioKey(t) : t \in NeedsAI}

\* Mutant: the status of the AI call is written where the source belongs.
MergeAIStatus(plan, res) ==
  IF plan.ai_task = "none" THEN plan ELSE [plan EXCEPT !.reasoning_source = res]

\* Mutant: a bucket suggested by the model is acted upon.
MergeAIRoutes(plan, res) ==
  IF plan.ai_task = "classify" /\ res = "ok"
  THEN [plan EXCEPT !.reasoning_source = "ai_classifier",
                    !.action = "retry_scheduled"]
  ELSE plan

MergeAI(plan, res) ==
  CASE plan.ai_task = "classify" ->
         [plan EXCEPT !.reasoning_source =
            IF res = "ok" THEN "ai_classifier" ELSE "ai_fallback"]
    [] plan.ai_task = "message" ->
         [plan EXCEPT !.message_source = IF res = "ok" THEN "ai" ELSE "fallback"]
    [] OTHER -> plan

\* The plan worker w writes for row t.
Merged(w, t) ==
  IF AsksAI(t) THEN MergeAI(Route[t], aiCache[w][ScenarioKey(t)]) ELSE Route[t]

DecisionRow(plan) ==
  [rule_fired |-> plan.rule_fired, action_taken |-> plan.action,
   reasoning_source |-> plan.reasoning_source,
   next_action_at |-> plan.next_action_at]

Snapshot(plan) ==
  [rule_fired |-> plan.rule_fired, action_taken |-> plan.action,
   reasoning_source |-> plan.reasoning_source,
   status_after |-> plan.final_status,
   attempt_count_after |-> plan.attempts_after,
   message_source |-> plan.message_source]

-----------------------------------------------------------------------------
(***************************************************************************)
(* The statements of the worker.                                           *)
(***************************************************************************)
\* Mutant: the page query selects every row and leaves it to the write to
\* skip the decided ones.
UndecidedAll == present

Undecided == {t \in present : status[t] = "pending" /\ decisions[t] = None}

Key(t) == <<Row[t].scheduled_at, t>>

KeyAfter(j, k) == j[1] > k[1] \/ (j[1] = k[1] /\ j[2] > k[2])

\* Mutant: the cursor compares the time and not the id.
EligibleByTime(k) == {t \in Undecided : Row[t].scheduled_at > k[1]}

\* Mutant: rows another worker is writing are skipped (SKIP LOCKED).
EligibleUnlocked(k) == {t \in Undecided : /\ KeyAfter(Key(t), k)
                                         /\ \A w \in Worker : t \notin staged[w]}

\* Mutant: no cursor, the pending filter alone moves the pages on.
EligibleFromStart(k) == Undecided

\* The rows PAGE_QUERY selects from, before its LIMIT.
Eligible(k) == {t \in Undecided : KeyAfter(Key(t), k)}

UpTo(S, last) == {t \in S : ~KeyAfter(Key(t), Key(last))}

\* Mutant: the rows of a page are executed in any order.
FirstAny(S) == S

First(S) == {t \in S : \A u \in S : ~KeyAfter(Key(t), Key(u))}

\* Mutant: ON CONFLICT DO UPDATE.
InsertedAlways(S) == S

\* The rows whose INSERT takes effect: ON CONFLICT (transaction_id) DO NOTHING.
Inserted(S) == {t \in S : decisions[t] = None}

\* WRITE_ROW for each row of S: the audit insert and the update depend on the
\* decision insert, the update also on status = 'pending'.
WriteRows(w, S) ==
  LET new     == Inserted(S)
      updated == {t \in new : status[t] = "pending"}
  IN  /\ decisions' = [t \in Txn |-> IF t \in new THEN DecisionRow(Merged(w, t))
                                                  ELSE decisions[t]]
      /\ audit'    = [t \in Txn |-> IF t \in new
                                    THEN Append(audit[t], Snapshot(Merged(w, t)))
                                    ELSE audit[t]]
      /\ status'   = [t \in Txn |-> IF t \in updated THEN Merged(w, t).final_status
                                                     ELSE status[t]]
      /\ attempts' = [t \in Txn |-> IF t \in updated THEN Merged(w, t).attempts_after
                                                     ELSE attempts[t]]

\* An uncommitted decision of another worker for t makes the insert wait.
Locked(w, t) == \E v \in Worker \ {w} : t \in staged[v]

\* Mutant: agent_decisions has no foreign key.
RaisesUnreferenced(t) == decisions[t] = None /\ t \in Poison

\* Executing WRITE_ROW for t raises: only an actual insert can, and it does
\* when transactions has no row for it to refer to.
Raises(t) == decisions[t] = None /\ (t \in Poison \/ t \notin present)

PagesEstimated(w) == (Cardinality(backlog[w]) + PageSize - 1) \div PageSize

\* _write_progress
Report(w, done, isRunning) ==
  [running |-> isRunning, pages_done |-> done, pages_estimated |-> PagesEstimated(w)]

\* Mutant: a fraction is compared with a percentage.
TrippedFraction(errors, len) ==
  len > 0 /\ errors >= MinErrors /\ errors > ThresholdPct * len

Tripped(errors, len) ==
  len > 0 /\ errors >= MinErrors /\ errors * 100 > ThresholdPct * len

-----------------------------------------------------------------------------
Init ==
  /\ present = InitialTxns
  /\ decisions = [t \in Txn |-> None]
  /\ audit = [t \in Txn |-> <<>>]
  /\ status = [t \in Txn |-> "pending"]
  /\ attempts = [t \in Txn |-> Row[t].attempt_count]
  /\ progress = None
  /\ pc = [w \in Worker |-> "idle"]
  /\ conn = [w \in Worker |-> "lost"]
  /\ cursor = [w \in Worker |-> <<0, 0>>]
  /\ page = [w \in Worker |-> {}]
  /\ pages = [w \in Worker |-> 0]
  /\ backlog = [w \in Worker |-> {}]
  /\ aiCache = [w \in Worker |-> [k \in Scenario |-> "missing"]]
  /\ todo = [w \in Worker |-> {}]
  /\ staged = [w \in Worker |-> {}]
  /\ failed = [w \in Worker |-> {}]
  /\ errorIds = [w \in Worker |-> {}]
  /\ tallied = [t \in Txn |-> 0]
  /\ runs = 0 /\ faults = 0

\* The seeder commits a batch; its rows may sort before a running cursor.
Seed(S) ==
  /\ S # {}
  /\ present' = present \cup S
  /\ UNCHANGED <<ledger, paging, writing, totals, bounds, pc, conn, aiCache>>

(***************************************************************************)
(* run(): start, page query and its end.                                   *)
(***************************************************************************)
\* Everything a process forgets when its run ends, however it ends.
Forget(w) ==
  /\ conn' = [conn EXCEPT ![w] = "lost"]
  /\ page' = [page EXCEPT ![w] = {}]
  /\ todo' = [todo EXCEPT ![w] = {}]
  /\ staged' = [staged EXCEPT ![w] = {}]
  /\ failed' = [failed EXCEPT ![w] = {}]

Start(w) ==
  /\ pc[w] \in Ended
  /\ runs < MaxRuns
  /\ runs' = runs + 1
  /\ pc' = [pc EXCEPT ![w] = "fetch"]
  /\ conn' = [conn EXCEPT ![w] = "up"]
  /\ cursor' = [cursor EXCEPT ![w] = <<0, 0>>]
  /\ pages' = [pages EXCEPT ![w] = 0]
  /\ backlog' = [backlog EXCEPT ![w] = Undecided]
  /\ aiCache' = [aiCache EXCEPT ![w] = [k \in Scenario |-> "missing"]]
  /\ errorIds' = [errorIds EXCEPT ![w] = {}]
  /\ UNCHANGED <<present, ledger, page, writing, progress, tallied, faults>>

PagesLeft(w) == MaxPages[w] # None => pages[w] < MaxPages[w]

FetchPage(w) ==
  /\ pc[w] = "fetch" /\ conn[w] = "up" /\ PagesLeft(w)
  /\ \E last \in Eligible(cursor[w]) :
       LET rows == UpTo(Eligible(cursor[w]), last)
       IN  /\ \/ Cardinality(rows) = PageSize
              \/ Cardinality(rows) < PageSize /\ rows = Eligible(cursor[w])
           /\ page' = [page EXCEPT ![w] = rows]
           /\ cursor' = [cursor EXCEPT ![w] = Key(last)]
  /\ pages' = [pages EXCEPT ![w] = @ + 1]
  /\ pc' = [pc EXCEPT ![w] = "ai"]
  /\ UNCHANGED <<present, ledger, backlog, writing, totals, bounds, conn, aiCache>>

\* The loop ends, on an empty page or at max_pages, and the run returns.
Finish(w, how) ==
  /\ pc' = [pc EXCEPT ![w] = how]
  /\ progress' = Report(w, pages[w], FALSE)
  /\ Forget(w)
  /\ UNCHANGED <<present, ledger, cursor, pages, backlog, errorIds, tallied,
                 bounds, aiCache>>

FetchEmpty(w) ==
  /\ pc[w] = "fetch" /\ conn[w] = "up" /\ PagesLeft(w)
  /\ Eligible(cursor[w]) = {}
  /\ Finish(w, "completed")

PageLimitReached(w) ==
  /\ pc[w] = "fetch" /\ ~PagesLeft(w)
  /\ Finish(w, "max_pages")

\* The run ends without a last progress report.
Abort(w, how) ==
  /\ pc' = [pc EXCEPT ![w] = how]
  /\ Forget(w)
  /\ UNCHANGED <<present, ledger, cursor, pages, backlog, totals, runs, aiCache>>

\* Mutant: a failing page query is tried again for ever.
FetchRaisesRetry(w) ==
  /\ pc[w] = "fetch" /\ conn[w] = "lost" /\ PagesLeft(w)
  /\ UNCHANGED vars

FetchRaises(w) ==
  /\ pc[w] = "fetch" /\ conn[w] = "lost" /\ PagesLeft(w)
  /\ Abort(w, "raised")
  /\ UNCHANGED faults

(***************************************************************************)
(* apply_ai: the scenarios of the page that are not cached are fetched;    *)
(* each is ok or failed (an error, an unusable answer, or the deadline).   *)
(***************************************************************************)
MissingScenarios(w) ==
  {k \in {ScenarioKey(t) : t \in {u \in page[w] : AsksAI(u)}} : aiCache[w][k] = "missing"}

ApplyAI(w) ==
  /\ pc[w] = "ai"
  /\ \E results \in [MissingScenarios(w) -> {"ok", "failed"}] :
       aiCache' = [aiCache EXCEPT ![w] =
         [k \in DOMAIN @ |-> IF k \in DOMAIN results THEN results[k] ELSE @[k]]]
  /\ pc' = [pc EXCEPT ![w] = "batch"]
  /\ todo' = [todo EXCEPT ![w] = page[w]]
  /\ UNCHANGED <<present, ledger, paging, staged, failed, totals, bounds, conn>>

(***************************************************************************)
(* write_page, the batch: the rows are executed in order in one implicit   *)
(* transaction and all become visible when it commits.                     *)
(***************************************************************************)
BatchRow(w) ==
  /\ pc[w] = "batch" /\ conn[w] = "up"
  /\ \E t \in First(todo[w]) :
       /\ ~Locked(w, t) /\ ~Raises(t)
       /\ todo' = [todo EXCEPT ![w] = @ \ {t}]
       /\ staged' = [staged EXCEPT ![w] = @ \cup Inserted({t})]
  /\ UNCHANGED <<present, ledger, paging, failed, totals, bounds, pc, conn, aiCache>>

BatchCommits(w) ==
  /\ pc[w] = "batch" /\ conn[w] = "up" /\ todo[w] = {}
  /\ WriteRows(w, staged[w])
  /\ staged' = [staged EXCEPT ![w] = {}]
  /\ pc' = [pc EXCEPT ![w] = "tally"]
  /\ UNCHANGED <<present, paging, todo, failed, totals, bounds, conn, aiCache>>

\* Mutant: the retry starts at the row that failed.
RetryRest(w, c) ==
  /\ pc' = [pc EXCEPT ![w] = "rowwise"]
  /\ conn' = [conn EXCEPT ![w] = c]
  /\ staged' = [staged EXCEPT ![w] = {}]
  /\ UNCHANGED <<present, paging, todo, failed, totals, runs, aiCache>>

\* executemany raises: the rows are retried one at a time.
RetryRows(w, c) ==
  /\ pc' = [pc EXCEPT ![w] = "rowwise"]
  /\ conn' = [conn EXCEPT ![w] = c]
  /\ todo' = [todo EXCEPT ![w] = page[w]]
  /\ staged' = [staged EXCEPT ![w] = {}]
  /\ UNCHANGED <<present, paging, failed, totals, runs, aiCache>>

BatchFails(w) ==
  /\ pc[w] = "batch" /\ conn[w] = "up"
  /\ \E t \in First(todo[w]) : ~Locked(w, t) /\ Raises(t)
  /\ RetryRows(w, "up")
  /\ UNCHANGED <<ledger, faults>>

(***************************************************************************)
(* write_page, row by row: every row is a transaction of its own.          *)
(***************************************************************************)
RowWrites(w) ==
  /\ pc[w] = "rowwise" /\ conn[w] = "up"
  /\ \E t \in First(todo[w]) :
       /\ ~Locked(w, t) /\ ~Raises(t)
       /\ WriteRows(w, {t})
       /\ todo' = [todo EXCEPT ![w] = @ \ {t}]
  /\ UNCHANGED <<present, paging, staged, failed, totals, bounds, pc, conn, aiCache>>

\* Mutant: the exception is printed and not kept.
RowErrorSwallowed(w, t, c) ==
  /\ todo' = [todo EXCEPT ![w] = @ \ {t}]
  /\ conn' = [conn EXCEPT ![w] = c]
  /\ UNCHANGED <<present, paging, staged, failed, totals, runs, pc, aiCache>>

\* The exception is kept under the row's id and the loop goes on.
RowError(w, t, c) ==
  /\ todo' = [todo EXCEPT ![w] = @ \ {t}]
  /\ failed' = [failed EXCEPT ![w] = @ \cup {t}]
  /\ conn' = [conn EXCEPT ![w] = c]
  /\ UNCHANGED <<present, paging, staged, totals, runs, pc, aiCache>>

RowFails(w) ==
  /\ pc[w] = "rowwise"
  /\ \E t \in First(todo[w]) :
       /\ conn[w] = "lost" \/ (~Locked(w, t) /\ Raises(t))
       /\ RowError(w, t, conn[w])
  /\ UNCHANGED <<ledger, faults>>

(***************************************************************************)
(* After write_page has returned: counters, progress, circuit breaker.     *)
(***************************************************************************)
PageWritten(w) == pc[w] = "tally" \/ (pc[w] = "rowwise" /\ todo[w] = {})

PageTripped(w) ==
  CircuitBreaker /\ Tripped(Cardinality(failed[w]), Cardinality(page[w]))

Tally(w) ==
  /\ PageWritten(w)
  /\ errorIds' = [errorIds EXCEPT ![w] = @ \cup failed[w]]
  /\ tallied' = [t \in Txn |-> IF t \in page[w] \ failed[w] THEN tallied[t] + 1
                                                          ELSE tallied[t]]
  /\ UNCHANGED <<present, ledger, cursor, pages, backlog, bounds, aiCache>>

PageTallied(w) ==
  /\ Tally(w)
  /\ ~PageTripped(w)
  /\ progress' = Report(w, pages[w], TRUE)
  /\ pc' = [pc EXCEPT ![w] = "fetch"]
  /\ page' = [page EXCEPT ![w] = {}]
  /\ failed' = [failed EXCEPT ![w] = {}]
  /\ UNCHANGED <<todo, staged, conn>>

\* Mutant: the breaker raises before the last progress report.
BreakerTripsUnreported(w) ==
  /\ Tally(w)
  /\ PageTripped(w)
  /\ progress' = Report(w, pages[w], TRUE)
  /\ pc' = [pc EXCEPT ![w] = "tripped"]
  /\ Forget(w)

BreakerTrips(w) ==
  /\ Tally(w)
  /\ PageTripped(w)
  /\ progress' = Report(w, pages[w], FALSE)
  /\ pc' = [pc EXCEPT ![w] = "tripped"]
  /\ Forget(w)

(***************************************************************************)
(* Faults, bounded by MaxFaults.                                           *)
(***************************************************************************)
Fault == faults < MaxFaults /\ faults' = faults + 1

\* The page query fails on a connection that was up.
FetchFault(w) ==
  /\ Fault /\ pc[w] = "fetch" /\ conn[w] = "up" /\ PagesLeft(w)
  /\ Abort(w, "raised")

\* The batch fails before its commit; the connection may be lost with it.
BatchFault(w) ==
  /\ Fault /\ pc[w] = "batch" /\ conn[w] = "up"
  /\ \E c \in {"up", "lost"} : RetryRows(w, c)
  /\ UNCHANGED ledger

\* The batch is committed and the connection lost before the client knows.
BatchAckLost(w) ==
  /\ Fault /\ pc[w] = "batch" /\ conn[w] = "up" /\ todo[w] = {}
  /\ WriteRows(w, staged[w])
  /\ RetryRows(w, "lost")

\* A single row fails; the connection may be lost with it.
RowFault(w) ==
  /\ Fault /\ pc[w] = "rowwise" /\ conn[w] = "up"
  /\ \E t \in First(todo[w]), c \in {"up", "lost"} : RowError(w, t, c)
  /\ UNCHANGED ledger

\* A single row is committed and the connection lost before the client knows.
RowAckLost(w) ==
  /\ Fault /\ pc[w] = "rowwise" /\ conn[w] = "up"
  /\ \E t \in First(todo[w]) :
       /\ ~Locked(w, t) /\ ~Raises(t)
       /\ WriteRows(w, {t})
       /\ RowError(w, t, "lost")

\* The process dies; the server rolls its open transaction back.
Kill(w) ==
  /\ Fault /\ pc[w] \in Running
  /\ Abort(w, "killed")

-----------------------------------------------------------------------------
Step(w) ==
  \/ FetchPage(w) \/ FetchEmpty(w) \/ PageLimitReached(w) \/ FetchRaises(w)
  \/ ApplyAI(w)
  \/ BatchRow(w) \/ BatchCommits(w) \/ BatchFails(w)
  \/ RowWrites(w) \/ RowFails(w)
  \/ PageTallied(w) \/ BreakerTrips(w)

FaultStep(w) ==
  \/ FetchFault(w) \/ BatchFault(w) \/ BatchAckLost(w)
  \/ RowFault(w) \/ RowAckLost(w) \/ Kill(w)

Next ==
  \/ \E S \in SUBSET (Txn \ present) : Seed(S)
  \/ \E w \in Worker : Start(w) \/ Step(w) \/ FaultStep(w)

Spec == Init /\ [][Next]_vars

\* A process that is not blocked on another's transaction runs on; nothing
\* obliges the operator to start one, or a fault to happen.
Fairness == \A w \in Worker : WF_vars(Step(w))

FairSpec == Spec /\ Fairness

-----------------------------------------------------------------------------
(***************************************************************************)
(* Types.                                                                  *)
(***************************************************************************)
DecisionType == [rule_fired : RuleFired, action_taken : Action,
                 reasoning_source : ReasoningSource,
                 next_action_at : Nat \cup {None}]

SnapshotType == [rule_fired : RuleFired, action_taken : Action,
                 reasoning_source : ReasoningSource,
                 status_after : FinalStatus, attempt_count_after : Nat,
                 message_source : {"none", "ai", "fallback"}]

ProgressType == [running : BOOLEAN, pages_done : Nat, pages_estimated : Nat]

TypeOK ==
  /\ present \in SUBSET Txn
  /\ decisions \in [Txn -> DecisionType \cup {None}]
  /\ audit \in [Txn -> Seq(SnapshotType)]
  /\ status \in [Txn -> {"pending"} \cup FinalStatus]
  /\ attempts \in [Txn -> Nat]
  /\ progress \in ProgressType \cup {None}
  /\ pc \in [Worker -> Running \cup Ended]
  /\ conn \in [Worker -> {"up", "lost"}]
  /\ cursor \in [Worker -> Nat \X Nat]
  /\ page \in [Worker -> SUBSET Txn]
  /\ pages \in [Worker -> Nat]
  /\ backlog \in [Worker -> SUBSET Txn]
  /\ aiCache \in [Worker -> [Scenario -> {"missing", "ok", "failed"}]]
  /\ todo \in [Worker -> SUBSET Txn]
  /\ staged \in [Worker -> SUBSET Txn]
  /\ failed \in [Worker -> SUBSET Txn]
  /\ errorIds \in [Worker -> SUBSET Txn]
  /\ tallied \in [Txn -> Nat]
  /\ runs \in Nat /\ faults \in Nat

-----------------------------------------------------------------------------
(***************************************************************************)
(* The ledger the tables implement.                                        *)
(***************************************************************************)
\* What may be written for t: what the rule engine and the executor say, and
\* of the AI only where the reason and the message come from.
PermittedReasons(t) ==
  IF Route[t].ai_task = "classify" THEN {"ai_classifier", "ai_fallback"}
                                   ELSE {"deterministic_rule"}

PermittedMessages(t) ==
  IF Route[t].ai_task = "message" THEN {"ai", "fallback"} ELSE {"none"}

WithSources(plan, reason, message) ==
  [plan EXCEPT !.reasoning_source = reason, !.message_source = message]

PermittedPlans(t) ==
  {WithSources(Route[t], reason, message) :
     reason \in PermittedReasons(t), message \in PermittedMessages(t)}

LedgerEntry(plan) ==
  [decision |-> DecisionRow(plan), audit |-> <<Snapshot(plan)>>,
   status |-> plan.final_status, attempts |-> plan.attempts_after]

Untouched(t) == /\ decisions[t] = None /\ audit[t] = <<>>
                /\ status[t] = "pending" /\ attempts[t] = Row[t].attempt_count

EntryOf(t) ==
  IF Untouched(t) THEN None
  ELSE [decision |-> decisions[t], audit |-> audit[t],
        status |-> status[t], attempts |-> attempts[t]]

Ledger == INSTANCE DecisionLedger
  WITH arrived <- present, entry <- [t \in Txn |-> EntryOf(t)],
       Permitted <- [t \in Txn |-> {LedgerEntry(p) : p \in PermittedPlans(t)}]

(***************************************************************************)
(* The four tables behave as the ledger: through every crash, retry and    *)
(* overlap a transaction is either untouched or carries one decision, one  *)
(* audit record, the status and the attempt count of one and the same      *)
(* plan, the plan is the rule engine's whatever the AI answered, and it    *)
(* never changes (src/worker.py:1-17; PRINCIPLES.md Rules 1, 4 and 5).     *)
(***************************************************************************)
ImplementsDecisionLedger == Ledger!Spec

(***************************************************************************)
(* The keyset cursor passes over no row: whatever was pending when a run   *)
(* started and sorts up to its cursor has a decision, is on the page being *)
(* worked on, or is reported in error_ids; and a run that completes leaves *)
(* nothing of that backlog behind (PAGE_QUERY and the cursor of run()).    *)
(***************************************************************************)
NoRowSkipped ==
  \A w \in Worker : \A t \in backlog[w] :
    \/ decisions[t] # None
    \/ t \in errorIds[w]
    \/ /\ pc[w] \in Running
       /\ t \in page[w] \/ KeyAfter(Key(t), cursor[w])
    \/ pc[w] \in {"idle", "max_pages", "tripped", "raised", "killed"}

(***************************************************************************)
(* What a run counts as processed is in the database, although the batch   *)
(* may have been rolled back and retried row by row in between, and the    *)
(* counters are taken from the plans and not from the rows written.        *)
(***************************************************************************)
CountedIsDecided == \A t \in Txn : tallied[t] > 0 => decisions[t] # None

(***************************************************************************)
(* Over all its runs a transaction is counted as processed at most once    *)
(* (PRINCIPLES.md:34-37, src/worker.py:16-17: restarting mid-batch never   *)
(* double-counts).                                                         *)
(***************************************************************************)
CountedAtMostOnce == \A t \in Txn : tallied[t] <= 1

(***************************************************************************)
(* Workers that write the same rows never wait for each other in a circle, *)
(* because each executes its page in the order of the page query.          *)
(***************************************************************************)
WaitsFor(w, v) ==
  /\ pc[w] \in {"batch", "rowwise"} /\ conn[w] = "up"
  /\ \E t \in First(todo[w]) : t \in staged[v]

NoLockCycle ==
  \A S \in (SUBSET Worker) \ {{}} :
    \E w \in S : \A v \in S \ {w} : ~WaitsFor(w, v)

(***************************************************************************)
(* While nothing is ingested, a run never works on more pages than it      *)
(* announced when it started: no page is short except the last one, even   *)
(* with another worker emptying the table.                                 *)
(***************************************************************************)
PagesWithinEstimate ==
  \A w \in Worker : backlog[w] # {} => pages[w] <= PagesEstimated(w)

(***************************************************************************)
(* With the breaker on, a run that is still going has met fewer errors     *)
(* than the breaker tolerates on each of its pages so far; a run it stops  *)
(* has met at most one page more (DECISION_RULES.md, step 4).              *)
(***************************************************************************)
Tolerated == Cardinality({e \in 1..PageSize :
                            e < MinErrors \/ e * 100 <= ThresholdPct * PageSize})

BreakerBoundsErrors ==
  CircuitBreaker => \A w \in Worker :
    Cardinality(errorIds[w]) <=
      IF pc[w] = "tripped" THEN (pages[w] - 1) * Tolerated + PageSize
                           ELSE pages[w] * Tolerated

(***************************************************************************)
(* With one worker, the progress file of a run that ended by itself or was *)
(* stopped by the breaker says so; only a run that was killed or raised    *)
(* leaves a file that still reads as running.                              *)
(***************************************************************************)
StoppedRunIsReported ==
  \A w \in Worker :
    pc[w] \in {"completed", "max_pages", "tripped"} =>
      progress = Report(w, pages[w], FALSE)

(***************************************************************************)
(* steps/04_ai_layer.md:36-38: when the AI call fails and the fallback is  *)
(* used, the recorded reasoning source is ai_fallback.                     *)
(***************************************************************************)
FallbackIsRecorded ==
  \A t \in Txn : \A i \in 1..Len(audit[t]) :
    audit[t][i].message_source = "fallback" =>
      audit[t][i].reasoning_source = "ai_fallback"

(***************************************************************************)
(* Every run ends: through lost connections, rows that never succeed and   *)
(* rows another worker holds, the cursor moves on and nobody waits for     *)
(* ever.                                                                   *)
(***************************************************************************)
RunTerminates == \A w \in Worker : pc[w] \in Running ~> pc[w] \in Ended

=============================================================================
