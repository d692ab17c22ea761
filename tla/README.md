# Verification of the payment recovery pipeline

TLA+ specifications, TLC configurations and TLAPS proofs for the recurring-payment
recovery agent in this repository. They cover its policy engine, its planner, its
worker with the AI thread pool, its seeder, the load test around a run, the reads of
its dashboard, and the story the dashboard tells of a decision.

Line numbers below are those of the files of this commit.

## 1. The system

| Component | Source | State it keeps | Operations |
|---|---|---|---|
| Policy engine | `src/rules.py`, `src/config.py` | none | `classify`, `is_mandate_issue`, `check_afa_threshold`, `decide_action` |
| Mock executor | `src/executor.py` | a random stream seeded by the transaction id | `simulate_retry_schedule` |
| Planner | `src/worker.py:154-261` | none | `plan_row`, `_resolve_outcome`, `_is_unmapped` |
| Worker page loop | `src/worker.py:383-478` | cursor, page, counters, `error_ids`, AI cache, connection | `run`, `_estimate_total_pages`, `_write_progress` |
| Writer | `src/worker.py:350-380` | the open batch | `write_page` (one `executemany`, then row by row) |
| AI phase | `src/worker.py:264-347` | thread pool, per-run cache | `apply_ai`, `_merge_ai` |
| AI client | `src/ai.py` | provider client or none | `classify_decline_code`, `draft_reauth_message` |
| Tables | `SCHEMA.sql` | `transactions`, `agent_decisions`, `audit_log`, ... | constraints only |
| Seeder | `scripts/seed.py` | none | builds a batch and commits it at once; `--reset` truncates first |
| Dashboard | `src/dashboard.py`, `app.py` | one connection, a summary cache of 3 s | read-only queries |
| Load test | `scripts/load_test.py` | page times seen by a polling thread | runs the worker, verifies the tables |

The worker reads a page of pending rows after a keyset cursor, plans each row with
the policy engine and the executor, lets the AI phase fill in texts and reasons,
writes decision, audit record and status of each row with one statement, counts,
writes `worker_progress.json`, consults the circuit breaker and goes on. The
processes share only the database and that file: several workers, the seeder, the
dashboard and the load test may run at the same time, and nothing but the
`UNIQUE` constraint on `agent_decisions.transaction_id` keeps two workers apart.

### What is hard here

* **Atomicity and idempotency.** Three tables are written per row, in a batch that may
  be rolled back, retried row by row, cut off by a crash, or committed without the
  client learning of it. Nothing may be half written or written twice.
* **Concurrency.** Two workers can hold the same page; each holds locks on the rows of
  its open batch.
* **The cursor.** It only moves forward, while rows arrive behind it and other workers
  empty the table in front of it.
* **Counting.** The totals are taken from plans, not from what was written.
* **Policy boundaries.** Amounts at a limit, attempt counts at the cap, and codes that
  are missing, padded or unknown meet three different tests of the same string.
* **Time.** AI answers race a deadline; the dashboard and the monitor read state that
  is being rewritten.

`PROJECT.json` lists the individual hazards at their lines.

### What makes each component correct

* Policy engine, executor, planner: a payment is attempted only if code, amount and
  attempt count permit it; a halt is final; what cannot be classified reaches a person.
* Tables and writer: a transaction is untouched, or carries exactly one permitted
  decision with its audit record, status and count, for ever.
* Page loop: no pending row is passed over; what is counted is in the database; the
  breaker bounds the damage; the progress file tells whether the run is over; every
  run ends.
* AI phase: one call and one result per scenario and run, bounded waiting, no effect
  of late answers, none on routing.
* Seeder: what is generated means to the worker what it was generated for (boundary
  amounts, mandates that cannot be charged, recorded buckets).
* Load test: a test that passes has left every transaction decided, and a correct batch
  passes, whatever other workers do to the tables.
* Dashboard: the summary is never older than its lifetime says, no view shows a final
  status without its decision, page links lead to rows, and the story of a decision is true.

## 2. Modules

| Module | Role |
|---|---|
| `RecoveryRules` | The pure functions: limits, taxonomy, rule engine, executor, `PlanRow` |
| `RecoveryPlanning` | `plan_row` applied to any one row, and what the policy documents say about the result |
| `SeedBatch` | `build_mandates` and `build_transactions`, one transaction followed into its plan |
| `DecisionStory` | The audit snapshot of a plan, the answer of the model, and `humanize_decision` |
| `DecisionLedger` | Abstract specification: a transaction arrives, and once gets one permitted entry |
| `RecoveryWorker` | The detailed specification of `run()`, any number of processes, faults and restarts |
| `ScenarioCache` | Abstract specification: each page gets one lasting result per scenario |
| `AIPhase` | The detailed specification of `apply_ai`: thread pool, deadline, late answers |
| `LoadTest` | `main()` of the load test around `RecoveryWorker`: reset, count, run, monitor, verdict |
| `Dashboard` | The views, one SQL statement at a time, over the tables of `DecisionLedger` |
| `DashboardConnection` | `_connection()`, shared by the request threads |
| `MCRecoveryPlanning`, `MCSeedBatch`, `MCRecoveryWorker`, `MCAIPhase`, `MCLoadTest`, `MCDashboard` | Values for the constants of the runs |
| `RecoveryRules_proof`, `RecoveryPlanning_proof` | Lemmas about the functions; the theorems about plans, seeded rows and stories |
| `RecoveryWorker_proof` | Type correctness of the worker; it implements `DecisionLedger`, also as `Dashboard` reads it |
| `RecoveryCursor_proof` | Nothing is skipped, counts are backed, one process counts once |
| `RecoveryRun_proof` | No circular wait, the last report, the breaker's bound, the estimate, the AI cache of a run |
| `AIPhase_proof` | Types, one call per scenario, no late calls, the cap of a pool, `ScenarioCache` is implemented |
| `LoadTest_proof` | Resets keep the ledger and the counts; what a passed and a clean test mean; the monitor |
| `Dashboard_proof` | Summaries are recent, final statuses explained, lists and links add up; one thread keeps autocommit |

### `RecoveryRules`

Each Python function is one operator of the same name. A decline code is `None` or
`[text, padded]`: the stored string without surrounding white space, and whether it had
any, which is all that its truth value and `.strip()` depend on. The random stream of a
transaction is `luck`, the index of its first draw below the bucket's success
probability; the probability itself does not matter, every index is possible. Amounts are
integers in paise, as in the code. Fields of the audit snapshot that no property and no
other component reads are left out.

### `SeedBatch`

`build_mandates` draws any list of mandates (`DrawMandates`) and repairs it (`MendMandates`,
lines 123-127, two uses of `Guarantee`). `build_transactions` then fills a plan of slots, and
since it draws every transaction independently of the others, `GenerateTransaction` follows one
of them into `plan_row`, provided every slot finds a mandate; otherwise it raises
(`NoMandateForSlot`). `seeded` is a history variable: the status of the mandate, the boundary
and the recorded bucket, which the page query does not return. The script seeds its generator
with 42, so that a given number of mandates gives one list only; the model considers every draw,
because nothing in the code depends on that number. What it finds wrong with a draw is
therefore one thing and whether seed 42 gives that draw another; section 3 says which it does.
A single mandate always raises (line 127).
`OtherRow` is a row that something other than the seeder inserted.

### `DecisionStory`

The only things that reach the detail page from a decision are its audit snapshot and what
`_merge_ai` changed in it. `Story` has one field per line of `humanize_decision`, with the
choice between the sentences of a line (`CodeLine`, `RuleLine`) but not their wording.
`StoryIsConsistent` compares lines that come from different functions, `StoryIsTrueOfTheRow`
compares lines with the row, for every answer the model may give. Two lines do contradict each
other: a row without any code and within its limit is said to map to the bucket
(`src/worker.py:171`, `228`) and not to be in the taxonomy (`src/dashboard.py:241`) at once. No document speaks
of that case, so it is no disagreement of section 3, but it is not left out either: `StoryIsConsistent` says that it
happens to exactly these rows. That such a row "maps to the bucket" is not compared with its code, since it has none.

### `RecoveryWorker`

State: `present`, `decisions`, `audit`, `status`, `attempts` are the tables; `progress`
is the file; everything indexed by a worker is a local variable of its `run()`, or of the
transaction its connection has open (`staged`). `tallied` is a history variable: how many
runs have counted a transaction as processed. Writing down which line an action is:

| Action | Code |
|---|---|
| `Start` | connect, estimate, fresh cursor, cache and counters (404-417) |
| `FetchPage`, `FetchEmpty`, `PageLimitReached`, `FetchRaises` | the loop head and the page query (418-426) |
| `ApplyAI` | planning and `apply_ai` (428-429), with any result for each scenario not cached |
| `BatchRow`, `BatchCommits`, `BatchFails` | `executemany` (367-372): one row executed, the commit at its end, a row that raises |
| `RowWrites`, `RowFails` | the row-by-row retry (374-379) |
| `PageTallied`, `BreakerTrips` | everything after `write_page` (433-466), the progress report included |
| `FetchFault`, `BatchFault`, `BatchAckLost`, `RowFault`, `RowAckLost`, `Kill` | the environment: a statement or the connection fails, before or after its commit; the process dies |
| `Seed` | the commit of `scripts/seed.py:295` |

Grain of atomicity. A row of a batch is executed in a step of its own, because executing
it takes the lock that another worker waits for; its effects become visible at the
commit. Planning and AI read nothing shared, so they are one step. Counting, reporting
and the breaker touch only the worker's own variables and the file, so they are one step.

External behaviour, modelled from the way the code depends on it: on an autocommit
connection psycopg sends an `executemany` as one implicit transaction; `INSERT ... ON
CONFLICT DO NOTHING` waits for an uncommitted insert of the same key; the server rolls
back the open transaction of a connection that ends; the AI provider's answer to a
scenario is ok or failed.

A poison row is one whose insert always raises. It stands for any persistent error of a
single row.

### `DecisionLedger` and the refinement

The abstract state is the set of transactions that exist and one entry, or none, for each.
`RecoveryWorker` maps to it by `EntryOf`: a transaction whose four columns still have their
initial values has no entry, and anything else is the entry made of all four. A torn write
(a decision without its audit record, a status without a decision, two audit records)
therefore is an entry that no plan permits and breaks the refinement, as does any change to
an entry already made. What is permitted is the plan of the rule engine, with only
`reasoning_source` and the message source left to the AI.

### `AIPhase` and `ScenarioCache`

In `RecoveryWorker` the AI phase is one step, in which every scenario without a cached
result gets any result, and keeps it: the step of `ScenarioCache`. `AIPhase` is how
`apply_ai` does it, page after page of one run. The worker's own thread looks for missing
scenarios (`ServeCached`, `ServeDisabled`, `Submit`: lines 303-327), takes finished futures
from `as_completed` (`Collect`), gives up at the deadline (`Expire`), cancels and caches
what is left one future at a time (`Abandon`, in the `finally` block), and leaves the pool
without waiting (`Leave`). The threads start a queued call when their pool has room
(`StartCall`) and end it at any time or never (`EndCall`). `ImplementsScenarioCache` hides
the results of a page until the page leaves: then all of them appear in one step.

A page is its set of scenarios; which rows share a scenario is `RecoveryWorker`'s concern.
What the provider replies (`Reply`) becomes the status of an `AIResult` in `AnswerOf`, as `_try` and
the two calls of `AIClient` do it: prose is a message but no bucket, an empty text is neither.
The wording of an answer is not modelled. The pool, its futures and
the provider are external and modelled by the documented contract of
`concurrent.futures`.

### `LoadTest`

`main()` of the load test as a process beside those of `RecoveryWorker`: `SeedReset`,
`SeedSkipped` and `SeedFails` (its call of the seeder), `CountSeeded`, `RunStarts`, `Poll` (the monitor thread),
and the three ends `Verify`, `RunTripped` and `RunAborted`. The worker it calls is one of
the workers, `Harness`; the others come and go as they like and write the same tables and the
same progress file.

* `TRUNCATE` needs exclusive locks, so a reset waits for the open transactions of the workers;
  a page that was only read is no obstacle. Its rows are gone when they are written, and the foreign keys
  (`SCHEMA.sql`) make every such insert raise: `Raises` in `RecoveryWorker`.
* `Verify` runs all its queries as one step. Another worker can change the tables between
  two of them only if a row was still pending at the first, and then that one has failed the test already.
* The rows of the spot check are a random sample; the model checks all.
* Whether two recorded pages are 30 seconds apart is the clock's affair and is a free choice
  once two pages are recorded.
* `LedgerBetweenResets` is the abstract specification: the steps of `DecisionLedger`, and a
  reset that replaces all of it by a new batch without entries.

### `Dashboard` and `DashboardConnection`

The writers of `Dashboard` are the actions of `DecisionLedger`, so that what is shown of the
views holds for everything that implements the ledger, the worker in particular. A view is
a sequence of statements (`Statements`), each of which sees the tables as they are at
that moment (`Read`), with commits in between. `get_summary` additionally has the
module-level cache: `BeginSummary` reads the clock and tests the lifetime, the data
is returned in a later step, and `Store` writes data and stamp together, as
`dict.update` does. `taken` and `stored` are history: when the numbers were read and stored.

`DashboardConnection` has one action per line of `_connection()` and one for the statement
that follows. What psycopg and PostgreSQL make of a statement in and out of autocommit
mode (`After`) is external.

## 3. Runs

| Run | Configuration | What it shows |
|---|---|---|
| `planning` | batches of 1 to 3 mandates of any category and status, 27 transactions, amounts at both ends of every range; beside them 2,600 rows of any other origin: a code of every bucket, an unknown one, empty, padded and missing ones; amounts 0, at and one over both limits; attempts 0 to 4; first success at draw 1 to 4 | plans are well typed; money moves only when permitted; halts are final; the unclassified reach a person; inactive mandates are not charged; boundary rows and recorded buckets mean what they were made for; which links go without a message; stories are true |
| `one_worker` | 5 rows, pages of 3, one row that never succeeds, one that arrives later and sorts first, up to 3 runs, 2 faults | nothing skipped, torn, counted twice or left unreported; the breaker's bound |
| `two_workers` | 4 rows, pages of 2, two processes, 2 faults | the ledger is implemented under interleaving; no circular wait; the estimate is an upper bound |
| `load_test` | a batch of three rows, a page and a half, seeded over an older one with a row that can never be written; the harness and another worker limited to one page, 2 runs, one fault, fairness | the tables are a ledger between resets; counts are backed; a clean test passes, and a test that passed left nothing undecided; every run ends |
| `ai_phase` | 4 scenarios, 4 pages (more scenarios than threads; half cached; all cached; none), 2 threads, client on or off, fairness of the worker's thread | one call and one result per scenario, no call after its page, `ScenarioCache` is implemented, every page leaves |
| `dashboard` | 2 transactions, one of them late, pages of one row, 2 request threads, lifetime 2 of 3 seconds | summaries are recent, final statuses are explained, lists and links agree with their totals |
| `in_flight` | as `ai_phase` | expected violation, see below |
| `connection` | 2 request threads, 2 connections | expected violation, see below |
| `double_count` | as `two_workers` | expected violation, see below |
| `seed_shapes` | as `planning` | expected violation, see below |
| `fallback_source` | as `one_worker` | expected violation, see below |
| `monitor` | as `load_test` | expected violation, see below |

**Bounds.** `MaxRuns` bounds the calls of `run()`, `MaxFaults` the faults; both count over
all processes. Rows, page size and percentage are small: what matters is that there is
more than one page, that a page boundary falls on a tie of `scheduled_at` (rows 1, 3 and 5
have the same time), that page order is not id order, that a late row sorts before the
cursor, and that the breaker can both trip and not trip. `one_worker` uses 70 % and a floor
of two so that on a page of three rows one error passes, two errors are below the
ratio and three trip it; with the values of the repository (20 %, five, 200 rows) the same cases would need
pages far too large to enumerate. Two faults are enough for a fault during the recovery
from a fault. Two workers are enough for every overlap the code has, since workers only
interact through a row; in `two_workers` one of them is started with `max_pages`. Deadlock is not checked by TLC because runs end: that nobody waits
for ever is `NoLockCycle` and `RunTerminates`.

`planning`: one, two and three mandates are the numbers at which the repairs of the list
can fail, undo each other, or leave a third mandate alone. 27 transactions are the smallest batch with slots of
all six kinds. Every other amount in a range compares with the limits as one of those considered.

`load_test`: three new rows on pages of two make a page boundary, the old poison row makes a page that
errors, and with 20 % and a floor of two one error passes and a page whose two rows were
truncated under the worker trips the breaker. Two runs are the harness and one beside it. The
assumption `RoutesArePlans` only makes TLC keep the plans of the rows instead of
computing them at every use.

`ai_phase`: the pages cover every way a page can meet the cache, and the first has
more scenarios than there are threads, so that queued, running and finished futures
exist together when the deadline passes. `dashboard`: a page of one row puts every row at
a page boundary, and the transaction that arrives late sorts first and moves the other to
the next page; three seconds let a summary expire and be overwritten by a slower request.
`MaxTime` bounds the clock, `MaxPage` the page number. Neither needs a bound on requests.

**Fairness.** `FairSpec` asks for weak fairness of the steps of each process: a process
whose next statement is not blocked eventually executes it. That is what an operating
system and a database give; AI calls are bounded by the page deadline. Nothing
obliges an operator to start a worker, a fault to happen, or a seeder to run. `LTFairSpec` is the
same for the workers of the load test; its `main()` need not go on.
`AIPhase` asks for weak fairness of the steps of the worker's own thread only, `Expire`
among them because the deadline of `as_completed` is a wall-clock time that comes whatever
the provider does. Threads and provider are not fair: a call may never return.

### Disagreements between the code and its documents

* **Double counting** (`double_count`). Two overlapping runs both count a row only one of
  them wrote (`src/worker.py:433-446`), while `src/worker.py:14-17` and `PRINCIPLES.md`
  Rule 4 say that re-running never double-counts. The tables stay right; the totals that the
  run prints and writes to the progress file do not. For a single process, with any number
  of crashes and restarts, the claim holds and is proved (`OneWorkerCountsOnce`).
* **A link without a message** (`planning`). A row with an unmapped code *and* an amount
  over the limit is sent a re-authentication link, but its one AI task is the classification,
  so it gets no customer message, drafted or fallback (`src/worker.py:213-218` against
  `steps/04_ai_layer.md:25-26`). A plan is a function of its row, so that the disagreement can be stated
  exactly instead of by an example: `LinkWithoutMessageIsUnmapped` says that these rows, all of them and no
  other, go without. It holds, and what the document asks for does not.
* **Fallback messages are not recorded as such** (`fallback_source`). When drafting fails,
  `reasoning_source` stays `deterministic_rule` (`src/worker.py:297-300` against
  `steps/04_ai_layer.md:36-38`); only the snapshot's `message_source` tells.
* **More calls in flight than the cap** (`in_flight`). Each page has a pool of
  `AI_MAX_CONCURRENCY` threads of its own and leaves it without waiting
  (`src/worker.py:325`, `342`), so calls that outlive the deadline of their page run beside
  the next page's; `src/config.py:40` and `steps/04_ai_layer.md:39` state a cap on all
  calls in flight.
* **A shared connection outside autocommit** (`connection`). `_connection()` publishes the
  new connection before it sets autocommit (`src/dashboard.py:44-45`). A request that runs a
  statement in between leaves it in a transaction, autocommit can then not be set, and the
  connection stays so, since only `closed` is tested; from the next statement that fails on
  it every later one is refused. `src/dashboard.py:37` promises an autocommit connection.
  With one request thread no such state exists (`OneThreadAutocommits`).
* **A shape that is not guaranteed** (`seed_shapes`). `scripts/seed.py:123` announces "at least one active
  mandate of each shape". For a single mandate there is no `mandates[1]`, and line 127 raises whatever was
  drawn: `--mandates 1` never works. With more, line 127 may undo line 125: if the only active mandate drawn is the
  second, and general, it becomes the priority one, and line 180 raises as soon as a slot asks for a general one.
  Called with seed 42, `build_mandates` draws no such list for any number from 2 to 2999, and the default is 50 or
  more; only another seed, or a generator that has been used before, meets the second case.
* **A page recorded before it is done** (`monitor`). The monitor starts before the run and takes
  whatever the progress file says (`scripts/load_test.py:52-55`): the report of an earlier run, or of
  another worker. `scripts/load_test.py:42` says that it records when each page completed. The page
  gap it derives from these times is then not one of this run.

## 4. Proofs

The proofs hold for every value of the constants: any finite set of transactions with
any rows, any number of workers and request threads, any page size, limits and bounds. They assume

* `WorkerAssumption` (the constants are of their types, transactions are positive numbers)
  and `NoneAssumption` (the value `None` is none of the values it is distinguished from),
  about the worker; `HarnessAssumption` for the load test;
* `SeedAssumption`, and `CodesAreStrings`, which is true but
  not known to the provers, for which a string literal has no type, about seeded rows;
  `StoryAssumption`, that `None` is no record, about stories;
* `AIAssumption` about the AI phase;
* `DashboardAssumption` and a `NoneAssumption` of its own about the dashboard.

TLC evaluates each of them in a run. Four theorems have a hypothesis of their own:
`OneWorkerCountsOnce` and `OneWorkerReportsItsEnd` are about a single worker process (with two the
first is refuted by `double_count`, and of two the one may report over the other),
`PagesAreEstimated` asks that no batch is ingested meanwhile (`InitialTxns = Txn`), and
`OneThreadAutocommits` that there is one request thread.

1. *Policy.* `RecoveryRules_proof` gives the range and the effect of each function, and
   `PlanOfRow` combines them. `RecoveryPlanning_proof` then has `TypeCorrect`,
   `MoneyIsSafe`, `HaltsAreFinal` and `UnclassifiedIsHandled`, each from the plan of an
   arbitrary row by cases on the bucket. `StoriesAgreeButWithoutACode` and `StoriesAreTrue` need nothing more
   than the fields of a story (`StoryLines`, `RetryLine`). For the seeder, `SBInv` adds what a seeded row was
   drawn from (`DrawnFrom`) and at which stage the mandates exist; `InactiveMandatesAreSafe`,
   `BoundariesAreMet` and `BucketsAgree` follow, for any numbers of mandates and transactions and any
   amounts. `ShapesMissingExactly` follows the two repairs of a drawn list (`MendedShapes`).
2. *Types.* `RecoveryWorker_proof!TypeCorrect`, one step per action.
3. *Ledger.* `ImplementsDecisionLedger` is not inductive: that a batch commits only whole
   entries depends on the rows it staged. `LedgerInv` adds that every transaction is
   untouched or fully entered with a permitted entry (`LedgerIsWhole`) and that the rows
   a worker has inserted and not committed exist (`StagedRowsExist`; the rows of its page may be gone). The key lemma, `WriteRowsEffect`, says what
   `WRITE_ROW` does to a set of rows: those without a decision get a whole permitted entry,
   all others are left alone. Each step then is a `Decide`, an `Arrive` or a stutter.
4. *Cursor and counts.* `NoRowSkipped` says nothing about where a row of the current page
   is while it is being written, so `CursorInv` adds `PageAccounted` (still to be executed,
   staged, failed or decided, by what the worker is doing) and `BacklogAccounted`.
   `CursorSkipsNothing`, `CountsAreBacked` and, for a single worker, `OneWorkerCountsOnce`
   follow. The last one adds to `CursorInv` that no row of a page being worked on has been
   counted before.
5. *Runs.* `RecoveryRun_proof` has four invariants, for every worker by cases on its own steps (`StepOfRun`).
   * `LocksFormNoCycle`: `LockOrder` says that a worker has staged only rows that sort before
     those it has still to execute. In a set of workers, whoever has staged the row with the last key of all
     waits for none of them; an id breaks every tie, so that there is such a row (`LastRow`).
   * `OneWorkerReportsItsEnd`: the steps that end a run write its report themselves (`StepReports`).
   * `BreakerBounds`: `RunErrors` counts what the finished pages may have contributed, `PageErrors` that
     a page holds the errors of its own rows only. `UntrippedIsTolerated` does the arithmetic of ratio
     and floor for a page of any length.
   * `PagesAreEstimated`: the rows of the backlog that are behind the cursor fill the pages
     taken so far, all but the last (`PagesFull`), and what is undecided is of the backlog (`BacklogCounted`).
     Rows that other workers decide leave the backlog and only make the pages fewer.
6. *AI phase.* `OneCallPerScenario` is not inductive:
   that a scenario is not submitted again follows from `SubmittedIsAccounted` (what was
   submitted is waited for or has a result) and `CallsAreStarted`; together with
   `NoCallStartsLate` and the types they are `PoolInv`. The refinement adds, in `PageInv`, which
   pool a scenario is in, since that decides what is hidden until the page leaves. A
   page that leaves, is served from the cache, or runs without a client is a `Serve`
   (`ServesThePage`); every other step is a stutter.
7. *Load test.* `LoadTest_proof` reuses the steps of the workers. `LedgerInv` survives a reset because
   the reset waits for what is staged; `LedgerSurvivesReset` follows. `CountsSurviveReset` needs
   where the rows of a page stand (`PageRecorded`), with the truncated ones on record in `erased`.
   `PassedBatchIsDecided` first shows that the checks force every row to have its whole entry,
   although they compare totals, and then that no step of a worker takes an entry away (`PassedInv`).
   `CleanTestsPass` needs to know what the harness's run has done by its end: `CleanRun` says that while nothing
   goes wrong it has met no error, and that each row of the batch is decided or of its backlog and accounted for, whoever
   decides it. A run that completes then has left nothing behind, and the checks turn green one by one.
8. *Dashboard.* The properties speak of requests that are complete, so `DashboardInv` says of each kind of
   request what each statement it has run so far still means (`DetailInv`, `ListInv`, `CachedInv`,
   `RecomputeInv`), in the order of the code (`ReadsInOrder`). It rests on entries being made once and on
   transactions staying: what was read of an entry is the entry, and totals of final statuses only grow.
   That a page of a list has the rows its offset promises is counting (`RowsWithin`, `PageHasRows`, `Ceiling`).
   For the cache, `StampedInOrder` keeps the stamp no later than the numbers, and those no later than the write.

*Composition.* Each component is proved against the abstract specification of the other. `Dashboard` lets the actions of
`DecisionLedger` write, an entry being its status: `WorkerServesDashboard` shows that the worker implements
this reading of the ledger too, and that decision, record and status of a transaction appear together, which is why one entry may stand for
the three. `RecoveryWorker` has the AI phase of a page as one step: `AIStepsServe` shows that it is one step of
`ScenarioCache` in each run, whatever the pages are, and that a run starts with an empty cache; `ScenarioCacheImplemented`
shows that `apply_ai` does the same with threads and deadline.

*The disagreements.* A theorem gives the extent of each of the seven; six are also counterexamples of
TLC, and for the one about messages the extent is itself checked by `planning`.

| Promised | What holds instead |
|---|---|
| `CountedAtMostOnce` | for one process, through all restarts (`OneWorkerCountsOnce`) |
| a message for every link | exactly the links of rows with an unknown code and an amount over the limit lack one (`LinksLackingAMessage`) |
| `EveryShapeIsGuaranteed` | the priority shape is missing exactly when a single mandate is asked for, the general one exactly when the only active mandate drawn is the second and general (`ShapesMissingExactly`) |
| `FallbackIsRecorded` | every fallback message is recorded as `deterministic_rule`, and an AI source always means an unmapped code (`FallbacksAreRuleDecisions`) |
| `InFlightWithinCap` | each pool keeps to the cap, so that only calls of earlier pages exceed it (`OnlyLateCallsExceedTheCap`) |
| `SharedConnectionAutocommits` | for one request thread (`OneThreadAutocommits`) |
| `MonitorTimesPages` | for a test whose run is the first to use the progress file (`FirstRunIsTimedRight`) |

Only model-checked: `RunTerminates` and `PageLeavesAIPhase`, since liveness under fairness is beyond
the prover. Every invariant and every safety or refinement property of the passing runs is proved.

## 5. Not modelled

* Wording: prompts, the fallback template, the sentences of a story, templates and the
  tokenising of a reply. No property depends on it.
* Of the seeder: identifiers, dates, pre-debit notices and the counts it prints.
* Of the load test: the clock behind the stall check, the timing of a poll, the report file. A reset and
  a worker can block each other through their table locks; PostgreSQL then ends one of them, which is
  `BatchFault` or `SeedFails`.
* Two of the checks of the load test's verification, no transaction with two decisions and a rule for each decision
  (`scripts/load_test.py:112-122`): in the model a transaction has at most one decision and that has its rule, because
  of `UNIQUE` and `NOT NULL` in the schema and since no rule has an empty name, so that they could only be true.
* Of the dashboard: the progress bar and the declines by bucket, printed as they are read; and a reset
  (`scripts/seed.py:246`) among its writers. `Commit` only decides and adds transactions. A `TRUNCATE` between two
  statements of a view may leave it with a status and no decision, or a list and the total of another batch, until
  it is loaded again, and what is proved about the views is meant between two resets.
* Argument parsing, the DSN helper and the schema scripts have no logic of their own.
* Row contents other than what the page query returns do not exist. `mandates` and
  `decline_events` are never written by the worker and are constants of a row, except in `SeedBatch`.
* A row whose commit was acknowledged too late is in `error_ids` although it is decided
  (`src/worker.py:379`), and counted by no run. The code accepts it and no document promises otherwise.

## 6. Plan

1. Done: rules, planning, ledger, worker, and their proofs.
2. Done: `AIPhase` with `ScenarioCache` and its proofs; `Dashboard` over `DecisionLedger` and
   `DashboardConnection`.
3. Done: `LoadTest` with resets under a running worker and the monitor; `SeedBatch`;
   `DecisionStory`; the replies of the AI client; all with their proofs.
4. Done: proofs of every safety property of the runs (`RecoveryRun_proof`, `Dashboard_proof`, `CleanTestsPass`),
   of the two compositions, and of the extent of each disagreement.
5. Left: `OneThreadAutocommits` for any number of threads as long as no two open a connection at once;
   `MonitorTimesPages` for a later run, from the first report of that run on.
