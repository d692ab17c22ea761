------------------------- MODULE RecoveryRun_proof -------------------------
(***************************************************************************)
(* What holds of whole runs: workers never wait for each other in a        *)
(* circle, because a page is executed in the order of its keys; a run      *)
(* takes no more pages than it announced; the breaker bounds its errors;   *)
(* its last report is the one its end deserves; and its AI phase is a step *)
(* of ScenarioCache, page by page.                                         *)
(***************************************************************************)
EXTENDS RecoveryCursor_proof

-----------------------------------------------------------------------------
(***************************************************************************)
(* The order of the page query.                                            *)
(***************************************************************************)
\* Keys order the transactions totally: an id breaks every tie.
LEMMA KeyOrder ==
  /\ \A t, u \in Txn : t # u => KeyAfter(Key(t), Key(u)) \/ KeyAfter(Key(u), Key(t))
  /\ \A t, u \in Txn : KeyAfter(Key(t), Key(u)) => ~KeyAfter(Key(u), Key(t))
  /\ \A t, u \in Txn : \A k \in Nat \X Nat :
       KeyAfter(Key(t), Key(u)) /\ KeyAfter(Key(u), k) => KeyAfter(Key(t), k)
<1>1. \A t \in Txn : t \in Nat /\ Row[t].scheduled_at \in Nat
  BY WorkerAssumption DEF RowType
<1> QED BY <1>1 DEF Key, KeyAfter

\* Txn is finite, so that any of its subsets has a last row.
LEMMA LastRow ==
  ASSUME NEW A \in SUBSET Txn, A # {}
  PROVE  \E t \in A : \A u \in A : ~KeyAfter(Key(u), Key(t))
<1> DEFINE Above(t) == {u \in Txn : KeyAfter(Key(u), Key(t))}
           Aboves   == {Above(t) : t \in A}
<1>1. Aboves \subseteq FiniteSubsetsOf(Txn) /\ Aboves # {}
  <2>1. FiniteSubsetsOf(Txn) = SUBSET Txn
    BY WorkerAssumption, FS_FiniteSubsetsOfFinite
  <2>2. \A t \in A : Above(t) \in SUBSET Txn
    OBVIOUS
  <2> HIDE DEF Above
  <2>3. Aboves \subseteq SUBSET Txn
    BY <2>2
  <2>4. PICK t \in A : TRUE
    OBVIOUS
  <2>5. Above(t) \in Aboves
    OBVIOUS
  <2> QED BY <2>1, <2>3, <2>5
<1>2. IsWellFoundedOn(StrictSubsetOrdering(Txn), FiniteSubsetsOf(Txn))
  BY FS_StrictSubsetOrderingWellFounded
<1> HIDE DEF Aboves
<1>3. PICK X \in Aboves : \A Y \in Aboves : <<Y, X>> \notin StrictSubsetOrdering(Txn)
  BY <1>1, <1>2, WFMin
<1>4. PICK t \in A : X = Above(t)
  BY DEF Aboves
<1>5. ASSUME NEW u \in A, KeyAfter(Key(u), Key(t)) PROVE FALSE
  <2>1. Above(u) \subseteq Above(t)
    <3>1. Key(t) \in Nat \X Nat
      BY WorkerAssumption DEF Key, RowType
    <3> QED BY <1>5, <3>1, KeyOrder
  <2>2. u \in Above(t) /\ u \notin Above(u)
    BY <1>5, KeyOrder
  <2>3. Above(u) \in Aboves
    BY DEF Aboves
  <2>4. <<Above(u), Above(t)>> \in StrictSubsetOrdering(Txn)
    BY <2>1, <2>2 DEF StrictSubsetOrdering
  <2> QED BY <1>3, <1>4, <2>3, <2>4
<1> QED BY <1>5

-----------------------------------------------------------------------------
(***************************************************************************)
(* No circle of locks.                                                     *)
(***************************************************************************)
\* What the open transaction of w has inserted sorts before all it has still
\* to execute; outside the batch it has inserted nothing.
LockOrder(w) ==
  /\ pc[w] # "batch" => staged[w] = {}
  /\ \A t \in staged[w], u \in todo[w] : KeyAfter(Key(u), Key(t))

LockInv == LedgerInv /\ \A w \in Worker : LockOrder(w)

\* The batch takes its rows in the order of their keys.
LEMMA BatchRowOrder ==
  ASSUME LockInv, NEW w \in Worker, BatchRow(w)
  PROVE  LockOrder(w)'
<1> USE DEF LockInv, LedgerInv, TypeOK
<1> PICK t \in First(todo[w]) :
       /\ todo' = [todo EXCEPT ![w] = @ \ {t}]
       /\ staged' = [staged EXCEPT ![w] = @ \cup Inserted({t})]
  BY DEF BatchRow
<1>1. /\ pc' = pc /\ pc[w] = "batch"
      /\ todo'[w] = todo[w] \ {t} /\ staged'[w] \subseteq staged[w] \cup {t}
  BY DEF BatchRow, Inserted
<1>2. todo[w] \in SUBSET Txn /\ t \in todo[w]
      /\ \A u \in todo[w] : ~KeyAfter(Key(t), Key(u))
  BY DEF First
<1>3. \A u \in todo'[w] : KeyAfter(Key(u), Key(t))
  BY <1>1, <1>2, KeyOrder
<1>4. \A s \in staged'[w], u \in todo'[w] : KeyAfter(Key(u), Key(s))
  BY <1>1, <1>3 DEF LockOrder
<1>5. \A s, u : KeyAfter(Key(u), Key(s))' <=> KeyAfter(Key(u), Key(s))
  BY DEF Key, KeyAfter
<1> QED BY <1>1, <1>4, <1>5 DEF LockOrder

\* Every other step of a run leaves nothing inserted, or both sets alone.
LEMMA StepLockOrder ==
  ASSUME LockInv, NEW w \in Worker, Start(w) \/ Step(w) \/ FaultStep(w)
  PROVE  LockOrder(w)'
<1> USE DEF LockInv, LedgerInv, TypeOK
<1>1. CASE staged'[w] = {}
  BY <1>1 DEF LockOrder
<1>2. ASSUME pc[w] # "batch", staged' = staged
      PROVE  LockOrder(w)'
  BY <1>1, <1>2 DEF LockOrder
<1>3. CASE Start(w) \/ FetchPage(w) \/ ApplyAI(w) \/ PageTallied(w)
  BY <1>2, <1>3 DEF Start, FetchPage, ApplyAI, PageTallied, Tally, PageWritten, writing,
                    Ended
<1>4. CASE RowWrites(w) \/ RowFails(w) \/ RowFault(w) \/ RowAckLost(w)
  BY <1>2, <1>4 DEF RowWrites, RowFails, RowFault, RowAckLost, RowError
<1>5. CASE BatchRow(w)
  BY <1>5, BatchRowOrder
<1>6. CASE \/ FetchEmpty(w) \/ PageLimitReached(w) \/ FetchRaises(w) \/ BreakerTrips(w)
           \/ FetchFault(w) \/ Kill(w) \/ BatchCommits(w) \/ BatchFails(w)
           \/ BatchFault(w) \/ BatchAckLost(w)
  BY <1>1, <1>6 DEF FetchEmpty, PageLimitReached, FetchRaises, BreakerTrips, FetchFault,
                    Kill, Finish, Abort, Forget, BatchCommits, BatchFails, BatchFault,
                    BatchAckLost, RetryRows
<1> QED BY <1>3, <1>4, <1>5, <1>6 DEF Step, FaultStep

\* The worker that holds the last of the rows inserted by a set of workers
\* waits for none of them, for the row it waits for would sort after that one.
LEMMA OrderBreaksCircles == LockInv => NoLockCycle
<1> SUFFICES ASSUME LockInv, NEW S \in SUBSET Worker, S # {}
             PROVE  \E w \in S : \A v \in S \ {w} : ~WaitsFor(w, v)
  BY DEF NoLockCycle
<1> USE DEF LockInv, LedgerInv, TypeOK
<1> DEFINE held == UNION {staged[w] : w \in S}
<1>1. CASE held = {}
  <2>1. \A v \in S : staged[v] = {}
    BY <1>1
  <2> QED BY <2>1 DEF WaitsFor
<1>2. CASE held # {}
  <2>1. held \in SUBSET Txn
    OBVIOUS
  <2>2. PICK last \in held : \A u \in held : ~KeyAfter(Key(u), Key(last))
    BY <1>2, <2>1, LastRow
  <2>3. PICK w \in S : last \in staged[w]
    OBVIOUS
  <2>4. ASSUME NEW v \in S, WaitsFor(w, v) PROVE FALSE
    <3>1. PICK t \in todo[w] : t \in staged[v]
      BY <2>4 DEF WaitsFor, First
    <3>2. KeyAfter(Key(t), Key(last))
      BY <2>3, <3>1 DEF LockOrder
    <3>3. t \in held
      BY <3>1
    <3> QED BY <2>2, <3>2, <3>3
  <2> QED BY <2>4
<1> QED BY <1>1, <1>2

\* Any number of workers that write the same rows never wait for each other in
\* a circle.
THEOREM LocksFormNoCycle == Spec => []NoLockCycle
<1>1. Init => LockInv
  BY InitLedgerInv DEF Init, LockInv, LockOrder
<1>2. LockInv /\ [Next]_vars /\ LedgerInv' => LockInv'
  <2> SUFFICES ASSUME LockInv, [Next]_vars, NEW v \in Worker
               PROVE  LockOrder(v)'
    BY DEF LockInv
  <2>1. CASE UNCHANGED RunState(v)
    <3>1. \A t, u : KeyAfter(Key(u), Key(t))' <=> KeyAfter(Key(u), Key(t))
      BY DEF Key, KeyAfter
    <3> QED BY <2>1, <3>1 DEF LockInv, LockOrder, RunState
  <2> QED BY <2>1, StepOfRun, StepLockOrder DEF LockInv
<1> QED BY <1>1, <1>2, LedgerInvariant, OrderBreaksCircles, PTL DEF Spec

-----------------------------------------------------------------------------
(***************************************************************************)
(* The last report of a run.                                               *)
(***************************************************************************)
\* A run that ends by itself or is stopped by the breaker writes its report in
\* the same step, and until the next start nothing it says changes.
LEMMA StepReports ==
  ASSUME LedgerInv, StoppedRunIsReported, NEW w \in Worker,
         Start(w) \/ Step(w) \/ FaultStep(w),
         pc'[w] \in {"completed", "max_pages", "tripped"}
  PROVE  progress' = Report(w, pages[w], FALSE)'
<1> USE DEF LedgerInv, TypeOK
<1>1. ASSUME progress' = Report(w, pages[w], FALSE), pages' = pages, backlog' = backlog
      PROVE  progress' = Report(w, pages[w], FALSE)'
  BY <1>1 DEF Report, PagesEstimated
<1>2. CASE FetchEmpty(w) \/ PageLimitReached(w)
  BY <1>1, <1>2 DEF FetchEmpty, PageLimitReached, Finish
<1>3. CASE BreakerTrips(w)
  BY <1>1, <1>3 DEF BreakerTrips, Tally
<1>4. CASE Start(w) \/ FetchPage(w) \/ ApplyAI(w) \/ BatchCommits(w) \/ PageTallied(w)
  BY <1>4 DEF Start, FetchPage, ApplyAI, BatchCommits, PageTallied
<1>5. CASE FetchRaises(w) \/ FetchFault(w) \/ Kill(w)
  BY <1>5 DEF FetchRaises, FetchFault, Kill, Abort
<1>6. CASE BatchFails(w) \/ BatchFault(w) \/ BatchAckLost(w)
  BY <1>6 DEF BatchFails, BatchFault, BatchAckLost, RetryRows
<1>7. CASE BatchRow(w) \/ RowWrites(w)
  BY <1>7 DEF BatchRow, RowWrites
<1>8. CASE RowFails(w) \/ RowFault(w) \/ RowAckLost(w)
  BY <1>8 DEF RowFails, RowFault, RowAckLost, RowError
<1> QED BY <1>2, <1>3, <1>4, <1>5, <1>6, <1>7, <1>8 DEF Step, FaultStep

\* A single worker process never leaves a run that ended by itself, or by the
\* breaker, reading as running.  (With two, one may report over the other.)
THEOREM OneWorkerReportsItsEnd ==
  ASSUME \A v, w \in Worker : v = w
  PROVE  Spec => []StoppedRunIsReported
<1>1. Init => StoppedRunIsReported
  BY DEF Init, StoppedRunIsReported
<1>2. LedgerInv /\ StoppedRunIsReported /\ [Next]_vars => StoppedRunIsReported'
  <2> SUFFICES ASSUME LedgerInv, StoppedRunIsReported, [Next]_vars, NEW v \in Worker,
                      pc'[v] \in {"completed", "max_pages", "tripped"}
               PROVE  progress' = Report(v, pages[v], FALSE)'
    BY DEF StoppedRunIsReported
  <2>1. ASSUME UNCHANGED <<pc, pages, backlog, progress>>
        PROVE  progress' = Report(v, pages[v], FALSE)'
    BY <2>1 DEF StoppedRunIsReported, Report, PagesEstimated
  <2>2. ASSUME NEW S \in SUBSET (Txn \ present), Seed(S)
        PROVE  UNCHANGED <<pc, pages, backlog, progress>>
    BY <2>2 DEF Seed, paging, totals
  <2>3. CASE UNCHANGED vars
    BY <2>1, <2>3 DEF vars, paging, totals
  <2>4. ASSUME NEW w \in Worker, Start(w) \/ Step(w) \/ FaultStep(w)
        PROVE  progress' = Report(v, pages[v], FALSE)'
    BY <2>4, StepReports
  <2> QED BY <2>1, <2>2, <2>3, <2>4 DEF Next
<1> QED BY <1>1, <1>2, LedgerInvariant, PTL DEF Spec

-----------------------------------------------------------------------------
(***************************************************************************)
(* The errors of a run.                                                    *)
(***************************************************************************)
\* A page on which the breaker does not trip has no more errors than are
\* tolerated, however many rows it has.
LEMMA UntrippedIsTolerated ==
  ASSUME NEW e \in Nat, NEW len \in Nat, e <= len, len <= PageSize, ~Tripped(e, len)
  PROVE  e <= Tolerated
<1> DEFINE tolerable == {k \in 1..PageSize :
                           k < MinErrors \/ k * 100 <= ThresholdPct * PageSize}
<1>0. PageSize \in Nat \ {0} /\ ThresholdPct \in Nat /\ MinErrors \in Nat
  BY WorkerAssumption
<1>1. IsFiniteSet(tolerable)
  <2>1. IsFiniteSet(1..PageSize)
    BY <1>0, FS_Interval
  <2> QED BY <2>1, FS_Subset
<1>2. 1..e \subseteq tolerable
  <2>1. ThresholdPct * len <= ThresholdPct * PageSize
    BY <1>0
  <2>2. CASE e = 0
    BY <2>2
  <2>3. CASE e < MinErrors
    BY <1>0, <2>3
  <2>4. CASE e * 100 <= ThresholdPct * len
    <3>1. ThresholdPct * len \in Int /\ ThresholdPct * PageSize \in Int
      BY <1>0
    <3>2. ASSUME NEW k \in 1..e PROVE k * 100 <= ThresholdPct * PageSize
      BY <2>1, <2>4, <3>1
    <3> QED BY <1>0, <3>2
  <2> QED BY <1>0, <2>2, <2>3, <2>4 DEF Tripped
<1> HIDE DEF tolerable
<1>3. Cardinality(1..e) <= Cardinality(tolerable)
  BY <1>1, <1>2, FS_Subset
<1>4. Cardinality(1..e) = e
  BY FS_Interval
<1> QED BY <1>3, <1>4 DEF Tolerated, tolerable

\* The errors of the pages before the current one, and of the current one.
PageErrors(w) ==
  /\ Cardinality(page[w]) <= PageSize
  /\ todo[w] \subseteq page[w] /\ failed[w] \subseteq page[w]
  /\ pc[w] \in Ended \cup {"fetch"} => page[w] = {}
  /\ pc[w] \notin {"batch", "rowwise"} => todo[w] = {}

RunErrors(w) ==
  LET errors == Cardinality(errorIds[w])
  IN  /\ pc[w] = "fetch" => errors <= pages[w] * Tolerated
      /\ pc[w] \in Running \ {"fetch"} => errors <= (pages[w] - 1) * Tolerated
      /\ pc[w] = "tripped" => errors <= (pages[w] - 1) * Tolerated + PageSize
      /\ pc[w] \in Ended \ {"tripped"} => errors <= pages[w] * Tolerated

BreakerInv == LedgerInv /\ \A w \in Worker : PageErrors(w) /\ RunErrors(w)

\* The rows of a page, its errors and the errors of a run are finitely many.
LEMMA RunSetsFinite ==
  ASSUME LedgerInv, NEW w \in Worker
  PROVE  /\ \A S \in SUBSET Txn : IsFiniteSet(S) /\ Cardinality(S) \in Nat
         /\ page[w] \in SUBSET Txn /\ failed[w] \in SUBSET Txn
         /\ todo[w] \in SUBSET Txn /\ errorIds[w] \in SUBSET Txn
         /\ pages[w] \in Nat
<1>1. \A S \in SUBSET Txn : IsFiniteSet(S)
  BY WorkerAssumption, FS_Subset
<1>2. \A S \in SUBSET Txn : Cardinality(S) \in Nat
  BY <1>1, FS_CardinalityType
<1> QED BY <1>1, <1>2 DEF LedgerInv, TypeOK

\* How many errors are tolerated is a number.
LEMMA ToleratedType == Tolerated \in Nat
<1>1. IsFiniteSet(1..PageSize)
  BY WorkerAssumption, FS_Interval
<1>2. IsFiniteSet({e \in 1..PageSize : e < MinErrors \/ e * 100 <= ThresholdPct * PageSize})
  BY <1>1, FS_Subset
<1> QED BY <1>2, FS_CardinalityType DEF Tolerated

\* While a page is written its rows stay the same and its errors are among
\* them; a page that is left leaves neither.
LEMMA StepPageErrors ==
  ASSUME LedgerInv, NEW w \in Worker, PageErrors(w),
         Start(w) \/ Step(w) \/ FaultStep(w)
  PROVE  PageErrors(w)'
<1> USE DEF LedgerInv, TypeOK
<1>0. PageSize \in Nat /\ Cardinality({}) = 0
  BY WorkerAssumption, FS_EmptySet
<1>1. CASE page'[w] = {} /\ todo'[w] = {} /\ failed'[w] = {}
  BY <1>0, <1>1 DEF PageErrors
<1>2. CASE Start(w)
  BY <1>2 DEF Start, PageErrors, writing
<1>3. CASE FetchPage(w)
  <2> PICK last \in Eligible(cursor[w]) :
         /\ Cardinality(UpTo(Eligible(cursor[w]), last)) <= PageSize
         /\ page' = [page EXCEPT ![w] = UpTo(Eligible(cursor[w]), last)]
    <3>1. \A last : UpTo(Eligible(cursor[w]), last) \in SUBSET Txn
      BY RowSetsType DEF UpTo
    <3>2. \A S \in SUBSET Txn : Cardinality(S) \in Nat
      BY RunSetsFinite
    <3>3. PICK last \in Eligible(cursor[w]) :
             LET rows == UpTo(Eligible(cursor[w]), last)
             IN  /\ \/ Cardinality(rows) = PageSize
                    \/ Cardinality(rows) < PageSize /\ rows = Eligible(cursor[w])
                 /\ page' = [page EXCEPT ![w] = rows]
      BY <1>3 DEF FetchPage
    <3>4. Cardinality(UpTo(Eligible(cursor[w]), last)) \in Nat
      BY <3>1, <3>2
    <3>5. Cardinality(UpTo(Eligible(cursor[w]), last)) <= PageSize
      BY <1>0, <3>3, <3>4
    <3> QED BY <3>3, <3>5
  <2>1. pc'[w] = "ai" /\ todo' = todo /\ failed' = failed
        /\ todo[w] = {} /\ failed[w] = {}
    BY <1>3 DEF FetchPage, writing, PageErrors
  <2> QED BY <2>1 DEF PageErrors, Ended
<1>4. CASE \/ FetchEmpty(w) \/ PageLimitReached(w) \/ FetchRaises(w) \/ BreakerTrips(w)
           \/ FetchFault(w) \/ Kill(w)
  BY <1>1, <1>4 DEF FetchEmpty, PageLimitReached, FetchRaises, BreakerTrips, FetchFault,
                    Kill, Finish, Abort, Forget
<1>5. CASE PageTallied(w)
  <2>1. pc'[w] = "fetch" /\ page'[w] = {} /\ failed'[w] = {} /\ todo' = todo
    BY <1>5 DEF PageTallied
  <2>2. todo[w] = {}
    BY <1>5 DEF PageTallied, Tally, PageWritten, PageErrors
  <2> QED BY <1>1, <2>1, <2>2
<1>6. ASSUME page' = page, pc'[w] \in Running \ {"fetch"},
             todo'[w] \subseteq page[w], failed'[w] \subseteq page[w],
             pc'[w] \in {"batch", "rowwise"} \/ todo'[w] = {}
      PROVE  PageErrors(w)'
  BY <1>6 DEF PageErrors, Running, Ended
<1>7. CASE \/ ApplyAI(w) \/ BatchRow(w) \/ BatchCommits(w) \/ BatchFails(w)
           \/ BatchFault(w) \/ BatchAckLost(w) \/ RowWrites(w)
  <2>1. page' = page /\ failed' = failed /\ failed[w] \subseteq page[w]
    BY <1>7 DEF ApplyAI, BatchRow, BatchCommits, BatchFails, BatchFault, BatchAckLost,
                RetryRows, RowWrites, PageErrors, paging
  <2>2. /\ pc'[w] \in {"batch", "rowwise"} \/ (pc'[w] = "tally" /\ todo'[w] = {})
        /\ todo'[w] \subseteq page[w]
    <3>0. todo[w] \subseteq page[w]
      BY DEF PageErrors
    <3>1. CASE ApplyAI(w)
      BY <3>1 DEF ApplyAI
    <3>2. CASE BatchRow(w) \/ RowWrites(w)
      <4>1. PICK t : todo' = [todo EXCEPT ![w] = @ \ {t}]
        BY <3>2 DEF BatchRow, RowWrites
      <4>2. todo'[w] \subseteq page[w]
        BY <3>0, <4>1
      <4>3. pc'[w] \in {"batch", "rowwise"}
        BY <3>2 DEF BatchRow, RowWrites
      <4> QED BY <4>2, <4>3
    <3>3. CASE BatchCommits(w)
      BY <3>3 DEF BatchCommits
    <3>4. CASE BatchFails(w) \/ BatchFault(w) \/ BatchAckLost(w)
      BY <3>4 DEF BatchFails, BatchFault, BatchAckLost, RetryRows
    <3> QED BY <1>7, <3>1, <3>2, <3>3, <3>4
  <2> QED BY <1>6, <2>1, <2>2 DEF Running
<1>8. CASE RowFails(w) \/ RowFault(w) \/ RowAckLost(w)
  <2> PICK t \in todo[w] : /\ todo' = [todo EXCEPT ![w] = @ \ {t}]
                           /\ failed' = [failed EXCEPT ![w] = @ \cup {t}]
    BY <1>8 DEF RowFails, RowFault, RowAckLost, RowError, First
  <2>1. page' = page /\ pc'[w] = "rowwise"
    BY <1>8 DEF RowFails, RowFault, RowAckLost, RowError, paging
  <2> QED BY <1>6, <2>1 DEF PageErrors, Running
<1> QED BY <1>2, <1>3, <1>4, <1>5, <1>7, <1>8 DEF Step, FaultStep

\* A run adds the errors of a page when the page is tallied, and what it adds
\* is tolerated unless the breaker trips.
LEMMA StepRunErrors ==
  ASSUME CircuitBreaker, BreakerInv, NEW w \in Worker,
         Start(w) \/ Step(w) \/ FaultStep(w)
  PROVE  RunErrors(w)'
<1> USE DEF BreakerInv, LedgerInv, TypeOK
<1> DEFINE p == pages[w]
           T == Tolerated
           errors == Cardinality(errorIds[w])
<1>0. /\ T \in Nat /\ p \in Nat /\ errors \in Nat /\ PageSize \in Nat
      /\ Tolerated' = Tolerated
  <2>1. Tolerated' = Tolerated
    BY DEF Tolerated
  <2> QED BY <2>1, RunSetsFinite, ToleratedType, WorkerAssumption
<1>a. (p - 1) * T + T = p * T /\ (p + 1 - 1) * T = p * T
  BY <1>0
<1>1. CASE Start(w)
  <2>1. pc'[w] = "fetch" /\ pages'[w] = 0 /\ errorIds'[w] = {}
    BY <1>1 DEF Start
  <2>2. Cardinality({}) <= 0 * T
    BY <1>0, FS_EmptySet
  <2> QED BY <1>0, <2>1, <2>2 DEF RunErrors, Ended, Running
<1>2. CASE FetchPage(w)
  <2>1. pc[w] = "fetch" /\ pc'[w] = "ai" /\ pages'[w] = p + 1 /\ errorIds' = errorIds
    BY <1>2 DEF FetchPage, totals
  <2>2. errors <= p * T
    BY <2>1 DEF RunErrors
  <2> QED BY <1>0, <1>a, <2>1, <2>2 DEF RunErrors, Ended
<1>3. ASSUME pc'[w] \in Ended \ {"tripped"}, pages' = pages, errorIds' = errorIds,
             pc[w] \in Running
      PROVE  RunErrors(w)'
  <2>1. errors <= p * T
    <3>1. (p - 1) * T \in Int /\ p * T \in Int
      BY <1>0
    <3> QED BY <1>0, <1>3, <1>a, <3>1 DEF RunErrors
  <2> QED BY <1>0, <1>3, <2>1 DEF RunErrors, Running, Ended
<1>4. CASE FetchEmpty(w) \/ PageLimitReached(w) \/ FetchRaises(w) \/ FetchFault(w) \/ Kill(w)
  BY <1>3, <1>4 DEF FetchEmpty, PageLimitReached, FetchRaises, FetchFault, Kill, Finish,
                    Abort, totals, Running, Ended
<1>5. ASSUME pc[w] \in Running \ {"fetch"}, pc'[w] \in Running \ {"fetch"},
             pages' = pages, errorIds' = errorIds
      PROVE  RunErrors(w)'
  BY <1>0, <1>5 DEF RunErrors, Running, Ended
<1>6. CASE ApplyAI(w) \/ BatchRow(w) \/ BatchCommits(w) \/ RowWrites(w)
  BY <1>5, <1>6 DEF ApplyAI, BatchRow, BatchCommits, RowWrites, paging, totals, Running
<1>7. CASE BatchFails(w) \/ BatchFault(w) \/ BatchAckLost(w)
  BY <1>5, <1>7 DEF BatchFails, BatchFault, BatchAckLost, RetryRows, paging, totals, Running
<1>8. CASE RowFails(w) \/ RowFault(w) \/ RowAckLost(w)
  BY <1>5, <1>8 DEF RowFails, RowFault, RowAckLost, RowError, paging, totals, Running
<1>9. CASE PageTallied(w) \/ BreakerTrips(w)
  <2> DEFINE f == Cardinality(failed[w])
             n == Cardinality(page[w])
  <2>1. /\ pages' = pages /\ errorIds'[w] = errorIds[w] \cup failed[w]
        /\ pc[w] \in Running \ {"fetch"}
    BY <1>9 DEF PageTallied, BreakerTrips, Tally, PageWritten, Running
  <2>2. errors <= (p - 1) * T
    BY <2>1 DEF RunErrors
  <2>3. f \in Nat /\ n \in Nat /\ f <= n /\ n <= PageSize
    BY RunSetsFinite, FS_Subset DEF PageErrors
  <2>4. Cardinality(errorIds'[w]) <= errors + f /\ Cardinality(errorIds'[w]) \in Nat
    <3>1. IsFiniteSet(errorIds[w]) /\ IsFiniteSet(failed[w])
      BY RunSetsFinite
    <3>2. Cardinality(errorIds[w] \cap failed[w]) \in Nat
      BY <3>1, FS_Intersection, FS_CardinalityType
    <3>3. Cardinality(errorIds[w] \cup failed[w])
            = errors + f - Cardinality(errorIds[w] \cap failed[w])
      BY <3>1, FS_Union
    <3>4. Cardinality(errorIds[w] \cup failed[w]) \in Nat
      BY <3>1, FS_Union, FS_CardinalityType
    <3> HIDE DEF errors, f
    <3> QED BY <1>0, <2>1, <2>3, <3>2, <3>3, <3>4
  <2>5. (p - 1) * T \in Int /\ p * T \in Int
    BY <1>0
  <2>6. CASE PageTallied(w)
    <3>1. pc'[w] = "fetch" /\ ~Tripped(f, n)
      BY <2>6 DEF PageTallied, PageTripped
    <3>2. f <= T
      BY <2>3, <3>1, UntrippedIsTolerated
    <3> HIDE DEF errors, f, n
    <3>3. Cardinality(errorIds'[w]) <= p * T
      BY <1>0, <1>a, <2>2, <2>3, <2>4, <2>5, <3>2
    <3> QED BY <1>0, <2>1, <3>1, <3>3 DEF RunErrors, Ended, errors
  <2>7. CASE BreakerTrips(w)
    <3>1. pc'[w] = "tripped"
      BY <2>7 DEF BreakerTrips
    <3> HIDE DEF errors, f, n
    <3>2. Cardinality(errorIds'[w]) <= (p - 1) * T + PageSize
      BY <1>0, <2>2, <2>3, <2>4, <2>5
    <3> QED BY <1>0, <2>1, <3>1, <3>2 DEF RunErrors, Running
  <2> QED BY <1>9, <2>6, <2>7
<1> QED BY <1>1, <1>2, <1>4, <1>6, <1>7, <1>8, <1>9 DEF Step, FaultStep

\* With the breaker on, a run has met no more errors than are tolerated on each
\* of its pages, and one it stops at most a page more.
THEOREM BreakerBounds == Spec => []BreakerBoundsErrors
<1>1. CASE CircuitBreaker
  <2>1. Init => BreakerInv
    <3> SUFFICES ASSUME Init, NEW w \in Worker PROVE PageErrors(w) /\ RunErrors(w)
      BY InitLedgerInv DEF BreakerInv
    <3>1. /\ page[w] = {} /\ todo[w] = {} /\ failed[w] = {} /\ errorIds[w] = {}
          /\ pages[w] = 0 /\ pc[w] = "idle"
      BY DEF Init
    <3>2. Cardinality({}) = 0 /\ 0 * Tolerated = 0 /\ PageSize \in Nat
      BY FS_EmptySet, ToleratedType, WorkerAssumption
    <3> QED BY <3>1, <3>2 DEF PageErrors, RunErrors, Running, Ended
  <2>2. BreakerInv /\ [Next]_vars => BreakerInv'
    <3> SUFFICES ASSUME BreakerInv, [Next]_vars, NEW v \in Worker
                 PROVE  PageErrors(v)' /\ RunErrors(v)'
      BY StepLedgerInv DEF BreakerInv
    <3>1. CASE UNCHANGED RunState(v)
      <4>1. Tolerated' = Tolerated
        BY DEF Tolerated
      <4> QED BY <3>1, <4>1 DEF BreakerInv, PageErrors, RunErrors, RunState
    <3> QED BY <1>1, <3>1, StepOfRun, StepPageErrors, StepRunErrors DEF BreakerInv
  <2>3. BreakerInv => BreakerBoundsErrors
    <3> SUFFICES ASSUME BreakerInv, NEW w \in Worker
                 PROVE  Cardinality(errorIds[w]) <=
                          IF pc[w] = "tripped"
                          THEN (pages[w] - 1) * Tolerated + PageSize
                          ELSE pages[w] * Tolerated
      BY DEF BreakerBoundsErrors
    <3>1. /\ Tolerated \in Nat /\ pages[w] \in Nat
          /\ Cardinality(errorIds[w]) \in Nat /\ pc[w] \in Running \cup Ended
      BY RunSetsFinite, ToleratedType DEF BreakerInv, LedgerInv, TypeOK
    <3>2. /\ pages[w] * Tolerated \in Int /\ (pages[w] - 1) * Tolerated \in Int
          /\ (pages[w] - 1) * Tolerated + Tolerated = pages[w] * Tolerated
      BY <3>1
    <3>3. CASE pc[w] \in Running \ {"fetch"}
      BY <3>1, <3>2, <3>3 DEF BreakerInv, RunErrors, Running
    <3>4. CASE pc[w] \notin Running \ {"fetch"}
      BY <3>1, <3>4 DEF BreakerInv, RunErrors, Running, Ended
    <3> QED BY <3>3, <3>4
  <2> QED BY <2>1, <2>2, <2>3, PTL DEF Spec
<1>2. CASE ~CircuitBreaker
  <2>1. BreakerBoundsErrors
    BY <1>2 DEF BreakerBoundsErrors
  <2> QED BY <2>1, PTL
<1> QED BY <1>1, <1>2

-----------------------------------------------------------------------------
(***************************************************************************)
(* The pages a run announces.                                              *)
(***************************************************************************)
\* The number of pages is the quotient, rounded up.
LEMMA Ceiling ==
  ASSUME NEW p \in Nat, NEW c \in Nat, NEW n \in Nat \ {0}
  PROVE  p < (c + n - 1) \div n <=> p * n < c
<1> DEFINE q == (c + n - 1) \div n
           r == (c + n - 1) % n
<1>1. q \in Nat /\ r \in Nat /\ r < n /\ c + n - 1 = q * n + r
  OBVIOUS
<1> HIDE DEF q, r
<1>2. ASSUME p < q PROVE p * n < c
  <2>1. (p + 1) * n <= q * n
    BY <1>1, <1>2
  <2>2. (p + 1) * n = p * n + n
    OBVIOUS
  <2> QED BY <1>1, <2>1, <2>2
<1>3. ASSUME ~(p < q) PROVE ~(p * n < c)
  <2>1. q * n <= p * n
    BY <1>1, <1>3
  <2>2. c + n - 1 < q * n + n
    BY <1>1
  <2>3. p * n \in Int /\ q * n \in Int
    BY <1>1
  <2> QED BY <1>1, <2>1, <2>2, <2>3
<1> QED BY <1>2, <1>3 DEF q

\* The rows of the backlog the cursor of w has passed.
Behind(w) == {t \in backlog[w] : ~KeyAfter(Key(t), cursor[w])}

\* Every page so far was full, or the last one took all there was.
PagesFull(w) ==
  \/ pages[w] * PageSize <= Cardinality(Behind(w))
  \/ /\ Eligible(cursor[w]) = {} /\ pages[w] > 0
     /\ (pages[w] - 1) * PageSize < Cardinality(Behind(w))

\* Nothing is pending that a run has not counted when it started.
BacklogCounted(w) == pc[w] \in Running => Undecided \subseteq backlog[w]

EstimateInv == /\ LedgerInv /\ present = Txn
               /\ \A w \in Worker : PagesFull(w) /\ BacklogCounted(w)

\* While nothing is ingested, what is undecided was undecided before.
LEMMA UndecidedShrinks ==
  ASSUME LedgerInv, present = Txn, [Next]_vars
  PROVE  Undecided' \subseteq Undecided /\ present' = Txn
<1>1. present' = Txn
  BY StepTypeOK, DecidedForEver DEF LedgerInv, TypeOK
<1>2. ASSUME NEW t \in Undecided' PROVE t \in Undecided
  <2>1. t \in Txn /\ ~Decided(t)'
    BY <1>1, <1>2 DEF Undecided, Decided
  <2>2. ~Decided(t)
    BY <2>1, DecidedForEver
  <2>3. Untouched(t)
    BY <2>1, <2>2 DEF LedgerInv, LedgerIsWhole, Entered, Decided
  <2> QED BY <2>1, <2>3 DEF Undecided, Untouched
<1> QED BY <1>1, <1>2

\* A page is full unless it takes all there is, and none of its rows was behind
\* the cursor.
LEMMA FetchPageFull ==
  ASSUME EstimateInv, NEW w \in Worker, FetchPage(w)
  PROVE  PagesFull(w)' /\ BacklogCounted(w)'
<1> USE DEF EstimateInv, LedgerInv, TypeOK
<1>0. PageSize \in Nat \ {0} /\ pages[w] \in Nat /\ cursor[w] \in Nat \X Nat
  BY WorkerAssumption
<1> PICK last \in Eligible(cursor[w]) :
       LET rows == UpTo(Eligible(cursor[w]), last)
       IN  /\ \/ Cardinality(rows) = PageSize
              \/ Cardinality(rows) < PageSize /\ rows = Eligible(cursor[w])
           /\ page' = [page EXCEPT ![w] = rows]
           /\ cursor' = [cursor EXCEPT ![w] = Key(last)]
  BY DEF FetchPage
<1> DEFINE rows == UpTo(Eligible(cursor[w]), last)
           passed == {t \in backlog[w] : ~KeyAfter(Key(t), Key(last))}
<1>1. /\ pc[w] = "fetch" /\ cursor'[w] = Key(last) /\ pages'[w] = pages[w] + 1
      /\ backlog' = backlog /\ Undecided' = Undecided
  BY DEF FetchPage, ledger, Undecided
<1>2. Undecided \subseteq backlog[w] /\ backlog[w] \subseteq Txn
  BY <1>1 DEF BacklogCounted, Running
<1>3. /\ last \in Txn /\ KeyAfter(Key(last), cursor[w])
      /\ rows \subseteq backlog[w] /\ last \in rows
  BY <1>2, KeyOrder DEF Eligible, UpTo
<1>4. Behind(w)' = passed
  <2>1. \A t : Key(t)' = Key(t)
    BY DEF Key
  <2> QED BY <1>1, <2>1 DEF Behind, KeyAfter
<1>5. Behind(w) \cap rows = {}
  BY DEF Behind, UpTo, Eligible
<1>6. Behind(w) \cup rows \subseteq passed
  <2>1. \A t \in Behind(w) : ~KeyAfter(Key(t), Key(last))
    BY <1>0, <1>2, <1>3, KeyOrder DEF Behind
  <2> QED BY <1>3, <2>1 DEF Behind, UpTo
<1>7. /\ IsFiniteSet(Behind(w)) /\ IsFiniteSet(rows) /\ IsFiniteSet(passed)
      /\ Cardinality(Behind(w)) \in Nat /\ Cardinality(rows) \in Nat
      /\ Cardinality(passed) \in Nat
  <2>1. Behind(w) \in SUBSET Txn /\ rows \in SUBSET Txn /\ passed \in SUBSET Txn
    BY <1>2, <1>3 DEF Behind
  <2> QED BY <2>1, RunSetsFinite
<1>8. Cardinality(Behind(w)) + Cardinality(rows) <= Cardinality(passed)
  <2>1. Cardinality(Behind(w) \cup rows)
          = Cardinality(Behind(w)) + Cardinality(rows)
    <3> HIDE DEF rows
    <3>1. Cardinality(Behind(w) \cap rows) = 0
      BY <1>5, FS_EmptySet
    <3>2. Cardinality(Behind(w) \cup rows) = Cardinality(Behind(w)) + Cardinality(rows)
                                              - Cardinality(Behind(w) \cap rows)
      BY <1>7, FS_Union
    <3> QED BY <1>7, <3>1, <3>2
  <2>2. Cardinality(Behind(w) \cup rows) <= Cardinality(passed)
    BY <1>6, <1>7, FS_Subset
  <2> QED BY <2>1, <2>2
<1>9. Cardinality(rows) > 0
  BY <1>3, <1>7, FS_EmptySet
<1>10. pages[w] * PageSize <= Cardinality(Behind(w))
  BY <1>3 DEF PagesFull, Eligible
<1>11. PagesFull(w)'
  <2> HIDE DEF rows, passed
  <2> DEFINE b == Cardinality(Behind(w))
             r == Cardinality(rows)
             c == Cardinality(passed)
             p == pages[w]
  <2>1. Cardinality(Behind(w)') = c
    BY <1>4
  <2>2. p * PageSize \in Nat /\ (p + 1) * PageSize = p * PageSize + PageSize
    BY <1>0
  <2>3. CASE r = PageSize
    <3>1. (p + 1) * PageSize <= c
      <4> HIDE DEF b, r, c, p
      <4> QED BY <1>0, <1>7, <1>8, <1>10, <2>2, <2>3 DEF b, r, c, p
    <3> QED BY <1>1, <2>1, <3>1 DEF PagesFull
  <2>4. CASE rows = Eligible(cursor[w])
    <3>1. Eligible(cursor[w])' = {}
      <4>1. \A t \in Undecided : ~KeyAfter(Key(t), Key(last))
        <5> SUFFICES ASSUME NEW t \in Undecided, KeyAfter(Key(t), Key(last))
                     PROVE  FALSE
          OBVIOUS
        <5>1. KeyAfter(Key(t), cursor[w])
          BY <1>0, <1>2, <1>3, KeyOrder
        <5>2. t \in rows
          BY <2>4, <5>1 DEF Eligible
        <5> QED BY <5>2 DEF rows, UpTo
      <4>2. \A t : Key(t)' = Key(t)
        BY DEF Key
      <4> QED BY <1>1, <4>1, <4>2 DEF Eligible, KeyAfter
    <3>2. p * PageSize < c
      BY <1>7, <1>8, <1>9, <1>10, <2>2
    <3>3. pages'[w] > 0 /\ pages'[w] - 1 = p
      <4>1. p \in Nat /\ pages'[w] = p + 1
        BY <1>0, <1>1
      <4> HIDE DEF p
      <4> QED BY <4>1
    <3> QED BY <2>1, <3>1, <3>2, <3>3 DEF PagesFull
  <2> QED BY <2>3, <2>4 DEF rows
<1> QED BY <1>1, <1>2, <1>11 DEF BacklogCounted

\* A step that fetches no page and starts no run leaves its pages counted.
LEMMA PagesStayFull ==
  ASSUME EstimateInv, [Next]_vars, NEW w \in Worker,
         pages'[w] = pages[w], cursor'[w] = cursor[w], backlog'[w] = backlog[w],
         pc'[w] \in Running => pc[w] \in Running
  PROVE  PagesFull(w)' /\ BacklogCounted(w)'
<1>1. Undecided' \subseteq Undecided
  BY UndecidedShrinks DEF EstimateInv
<1>2. \A t : Key(t)' = Key(t)
  BY DEF Key
<1>3. Behind(w)' = Behind(w)
  BY <1>2 DEF Behind, KeyAfter
<1>4. Eligible(cursor[w])' \subseteq Eligible(cursor[w])
  BY <1>1, <1>2 DEF Eligible, KeyAfter
<1>5. PagesFull(w)'
  BY <1>3, <1>4 DEF EstimateInv, PagesFull
<1>6. BacklogCounted(w)'
  BY <1>1 DEF EstimateInv, BacklogCounted
<1> QED BY <1>5, <1>6

LEMMA StepPagesFull ==
  ASSUME EstimateInv, [Next]_vars, NEW w \in Worker,
         Start(w) \/ Step(w) \/ FaultStep(w)
  PROVE  PagesFull(w)' /\ BacklogCounted(w)'
<1> USE DEF EstimateInv, LedgerInv, TypeOK
<1>1. CASE Start(w)
  <2>1. pages'[w] = 0 /\ backlog'[w] = Undecided /\ Undecided' = Undecided
    BY <1>1 DEF Start, ledger, Undecided
  <2>2. Behind(w)' \in SUBSET Txn
    BY <2>1 DEF Behind, Undecided
  <2>3. Cardinality(Behind(w)') \in Nat /\ 0 * PageSize = 0
    BY <2>2, RunSetsFinite, WorkerAssumption
  <2> QED BY <2>1, <2>3 DEF PagesFull, BacklogCounted
<1>2. CASE FetchPage(w)
  BY <1>2, FetchPageFull
<1>3. CASE FetchEmpty(w) \/ PageLimitReached(w)
  BY <1>3, PagesStayFull DEF FetchEmpty, PageLimitReached, Finish, Running
<1>4. CASE FetchRaises(w) \/ FetchFault(w) \/ Kill(w)
  BY <1>4, PagesStayFull DEF FetchRaises, FetchFault, Kill, Abort, Running
<1>5. CASE ApplyAI(w) \/ BatchRow(w) \/ BatchCommits(w) \/ RowWrites(w)
  BY <1>5, PagesStayFull DEF ApplyAI, BatchRow, BatchCommits, RowWrites, paging, Running
<1>6. CASE BatchFails(w) \/ BatchFault(w) \/ BatchAckLost(w)
  BY <1>6, PagesStayFull DEF BatchFails, BatchFault, BatchAckLost, RetryRows, paging, Running
<1>7. CASE RowFails(w) \/ RowFault(w) \/ RowAckLost(w)
  BY <1>7, PagesStayFull DEF RowFails, RowFault, RowAckLost, RowError, paging, Running
<1>8. CASE PageTallied(w) \/ BreakerTrips(w)
  BY <1>8, PagesStayFull DEF PageTallied, BreakerTrips, Tally, PageWritten, Running
<1> QED BY <1>1, <1>2, <1>3, <1>4, <1>5, <1>6, <1>7, <1>8 DEF Step, FaultStep

\* The rows behind the cursor are rows that were counted.
LEMMA FullPagesAreEstimated == EstimateInv => PagesWithinEstimate
<1> SUFFICES ASSUME EstimateInv, NEW w \in Worker
             PROVE  pages[w] <= PagesEstimated(w)
  BY DEF PagesWithinEstimate
<1> DEFINE c == Cardinality(backlog[w])
           b == Cardinality(Behind(w))
           p == pages[w]
<1>1. backlog[w] \in SUBSET Txn /\ p \in Nat /\ PageSize \in Nat \ {0}
  BY WorkerAssumption DEF EstimateInv, LedgerInv, TypeOK
<1>2. b \in Nat /\ c \in Nat /\ b <= c
  <2>1. Behind(w) \subseteq backlog[w]
    BY DEF Behind
  <2>2. IsFiniteSet(backlog[w]) /\ c \in Nat
    BY <1>1, RunSetsFinite DEF EstimateInv
  <2> QED BY <2>1, <2>2, FS_Subset, FS_CardinalityType
<1>3. p = 0 \/ (p - 1) * PageSize < b
  <2>1. p > 0 => (p - 1) * PageSize + PageSize = p * PageSize
    BY <1>1
  <2>2. p * PageSize \in Int /\ (p - 1) * PageSize \in Int
    BY <1>1
  <2>3. p * PageSize <= b \/ (p - 1) * PageSize < b
    BY DEF EstimateInv, PagesFull
  <2> HIDE DEF b, p
  <2> QED BY <1>1, <1>2, <2>1, <2>2, <2>3
<1>4. (c + PageSize - 1) \div PageSize \in Nat
  <2> HIDE DEF c
  <2> QED BY <1>1, <1>2
<1>5. CASE p = 0
  BY <1>4, <1>5 DEF PagesEstimated
<1>6. CASE p > 0
  <2>1. p - 1 \in Nat /\ (p - 1) * PageSize \in Int
    BY <1>1, <1>6
  <2>2. (p - 1) * PageSize < c
    <3> HIDE DEF b, c, p
    <3> QED BY <1>2, <1>3, <1>6, <2>1
  <2>3. p - 1 < (c + PageSize - 1) \div PageSize
    BY <1>1, <1>2, <2>1, <2>2, Ceiling
  <2> HIDE DEF c, p
  <2>4. p <= (c + PageSize - 1) \div PageSize
    BY <1>1, <1>4, <2>3 DEF p
  <2> QED BY <2>4 DEF PagesEstimated, c, p
<1> QED BY <1>1, <1>5, <1>6

\* When the whole table is there from the start, no run takes more pages than
\* it announced, whatever the other workers write meanwhile.
THEOREM PagesAreEstimated ==
  ASSUME InitialTxns = Txn
  PROVE  Spec => []PagesWithinEstimate
<1>1. Init => EstimateInv
  <2> SUFFICES ASSUME Init, NEW w \in Worker PROVE PagesFull(w) /\ BacklogCounted(w)
    BY InitLedgerInv DEF EstimateInv, Init
  <2>1. pages[w] = 0 /\ pc[w] = "idle" /\ backlog[w] = {}
    BY DEF Init
  <2>2. Behind(w) = {} /\ Cardinality({}) = 0 /\ 0 * PageSize = 0
    BY <2>1, FS_EmptySet, WorkerAssumption DEF Behind
  <2> QED BY <2>1, <2>2 DEF PagesFull, BacklogCounted, Running
<1>2. EstimateInv /\ [Next]_vars => EstimateInv'
  <2> SUFFICES ASSUME EstimateInv, [Next]_vars, NEW v \in Worker
               PROVE  PagesFull(v)' /\ BacklogCounted(v)'
    BY StepLedgerInv, UndecidedShrinks DEF EstimateInv
  <2>1. CASE UNCHANGED RunState(v)
    BY <2>1, PagesStayFull DEF RunState
  <2> QED BY <2>1, StepOfRun, StepPagesFull DEF EstimateInv
<1> QED BY <1>1, <1>2, FullPagesAreEstimated, PTL DEF Spec
-----------------------------------------------------------------------------
(***************************************************************************)
(* What the AI phase promises to a run (ScenarioCache, which AIPhase       *)
(* implements) is what a run of RecoveryWorker makes of it: if ps lists    *)
(* the scenarios of the pages of a run, the run starts with an empty cache *)
(* and each of its steps serves the next page or leaves the cache alone.   *)
(***************************************************************************)
PageScenarios(w) == {ScenarioKey(t) : t \in {u \in page[w] : AsksAI(u)}}

Served(w) == IF pc[w] = "ai" THEN pages[w] - 1 ELSE pages[w]

Cache(w, ps) == INSTANCE ScenarioCache
  WITH Pages <- ps, served <- Served(w), results <- aiCache[w]

Lists(w, ps) == pc[w] = "ai" => pages[w] \in DOMAIN ps /\ ps[pages[w]] = PageScenarios(w)

CacheSteps(w, ps) ==
  /\ pc[w] \in Ended /\ pc'[w] \in Running => Cache(w, ps)!Init'
  /\ pc[w] \in Running /\ pc'[w] \in Running /\ Lists(w, ps) =>
       [Cache(w, ps)!Next]_(Cache(w, ps)!vars)

\* Planning and AI of a page are one step of the cache.
LEMMA ApplyAIServes ==
  ASSUME TypeOK, NEW w \in Worker, NEW ps \in Seq(SUBSET Scenario),
         Lists(w, ps), ApplyAI(w)
  PROVE  Cache(w, ps)!Next
<1> DEFINE n == pages[w]
<1> PICK results \in [MissingScenarios(w) -> {"ok", "failed"}] :
       aiCache' = [aiCache EXCEPT ![w] =
         [k \in DOMAIN @ |-> IF k \in DOMAIN results THEN results[k] ELSE @[k]]]
  BY DEF ApplyAI
<1>1. /\ pc[w] = "ai" /\ pc'[w] = "batch" /\ pages' = pages /\ n \in Nat
      /\ n \in 1..Len(ps) /\ ps[n] = PageScenarios(w)
  BY DEF ApplyAI, paging, TypeOK, Lists
<1>2. Served(w) < Len(ps) /\ Served(w) + 1 = n /\ Served(w)' = n
  BY <1>1 DEF Served
<1>3. MissingScenarios(w) = {k \in ps[n] : aiCache[w][k] = "missing"}
  BY <1>1 DEF MissingScenarios, PageScenarios
<1> DEFINE answer == [k \in Scenario |-> IF k \in MissingScenarios(w) THEN results[k]
                                                                      ELSE "ok"]
<1>4. answer \in [Scenario -> {"ok", "failed"}]
  OBVIOUS
<1>5. DOMAIN aiCache[w] = Scenario /\ aiCache[w] = [k \in Scenario |-> aiCache[w][k]]
  BY DEF TypeOK
<1>6. aiCache'[w] = [k \in Scenario |->
         IF k \in ps[n] /\ aiCache[w][k] = "missing" THEN answer[k] ELSE aiCache[w][k]]
  BY <1>3, <1>5 DEF TypeOK
<1> HIDE DEF answer, n
<1>7. Cache(w, ps)!Serve
  BY <1>2, <1>4, <1>6 DEF Cache!Serve
<1> QED BY <1>7 DEF Cache!Next

\* Every run has a cache of its own.
LEMMA OthersCache ==
  ASSUME TypeOK, NEW w \in Worker, NEW v \in Worker \ {w},
         Start(v) \/ Step(v) \/ FaultStep(v)
  PROVE  aiCache'[w] = aiCache[w]
<1>1. CASE Start(v)
  BY <1>1 DEF Start, TypeOK
<1>2. CASE ApplyAI(v)
  BY <1>2 DEF ApplyAI, TypeOK
<1>3. Start(v) \/ ApplyAI(v) \/ UNCHANGED aiCache
  BY DEF Step, FaultStep, FetchPage, FetchEmpty, PageLimitReached, FetchRaises, BatchRow,
         BatchCommits, BatchFails, RowWrites, RowFails, PageTallied, BreakerTrips,
         FetchFault, BatchFault, BatchAckLost, RowFault, RowAckLost, Kill, Finish, Abort,
         RetryRows, RowError, Tally
<1> QED BY <1>1, <1>2, <1>3

\* In RecoveryWorker the AI phase of each page is one step of ScenarioCache,
\* and nothing else in a run touches what the cache holds.
THEOREM AIStepsServe ==
  Spec => [][\A w \in Worker : \A ps \in Seq(SUBSET Scenario) : CacheSteps(w, ps)]_vars
<1>1. LedgerInv /\ [Next]_vars =>
        [\A w \in Worker : \A ps \in Seq(SUBSET Scenario) : CacheSteps(w, ps)]_vars
  <2> SUFFICES ASSUME LedgerInv, Next, NEW w \in Worker, NEW ps \in Seq(SUBSET Scenario)
               PROVE  CacheSteps(w, ps)
    OBVIOUS
  <2>1. ASSUME pc'[w] = pc[w], pages'[w] = pages[w], aiCache'[w] = aiCache[w]
        PROVE  CacheSteps(w, ps)
    <3>1. UNCHANGED Cache(w, ps)!vars
      BY <2>1 DEF Cache!vars, Served
    <3> QED BY <2>1, <3>1 DEF CacheSteps, Running, Ended
  <2>2. ASSUME NEW S \in SUBSET (Txn \ present), Seed(S) PROVE CacheSteps(w, ps)
    BY <2>1, <2>2 DEF Seed, paging
  <2>3. ASSUME NEW v \in Worker \ {w}, Start(v) \/ Step(v) \/ FaultStep(v)
        PROVE  CacheSteps(w, ps)
    BY <2>1, <2>3, OthersUntouched, OthersCache DEF LedgerInv, RunState
  <2>4. CASE Start(w)
    <3>1. pc[w] \in Ended /\ Cache(w, ps)!Init'
      BY <2>4 DEF Start, Cache!Init, Served, LedgerInv, TypeOK
    <3> QED BY <3>1 DEF CacheSteps, Running, Ended
  <2>5. CASE ApplyAI(w)
    BY <2>5, ApplyAIServes DEF CacheSteps, LedgerInv, ApplyAI, Running, Ended
  <2>6. CASE FetchPage(w)
    <3>1. UNCHANGED Cache(w, ps)!vars /\ pc[w] \in Running
      BY <2>6 DEF FetchPage, Cache!vars, Served, LedgerInv, TypeOK, Running
    <3> QED BY <3>1 DEF CacheSteps, Running, Ended
  <2>7. CASE \/ BatchRow(w) \/ BatchCommits(w) \/ BatchFails(w) \/ RowWrites(w)
             \/ RowFails(w) \/ PageTallied(w) \/ BatchFault(w) \/ BatchAckLost(w)
             \/ RowFault(w) \/ RowAckLost(w)
    <3>1. /\ pc[w] \in Running \ {"ai"} /\ pc'[w] # "ai"
          /\ UNCHANGED <<pages, aiCache>>
      BY <2>7 DEF BatchRow, BatchCommits, BatchFails, RowWrites, RowFails, PageTallied,
                  BatchFault, BatchAckLost, RowFault, RowAckLost, RetryRows, RowError, Tally,
                  PageWritten, paging, LedgerInv, TypeOK, Running
    <3>2. UNCHANGED Cache(w, ps)!vars
      BY <3>1 DEF Cache!vars, Served
    <3> QED BY <3>1, <3>2 DEF CacheSteps, Running, Ended
  <2>8. CASE \/ FetchEmpty(w) \/ PageLimitReached(w) \/ FetchRaises(w) \/ BreakerTrips(w)
             \/ FetchFault(w) \/ Kill(w)
    <3>1. pc[w] \in Running /\ pc'[w] \notin Running
      BY <2>8 DEF FetchEmpty, PageLimitReached, FetchRaises, BreakerTrips, FetchFault, Kill,
                  Finish, Abort, Tally, PageWritten, LedgerInv, TypeOK, Running
    <3> QED BY <3>1 DEF CacheSteps, Running, Ended
  <2> QED BY <2>2, <2>3, <2>4, <2>5, <2>6, <2>7, <2>8 DEF Next, Step, FaultStep
<1> QED BY <1>1, LedgerInvariant, PTL DEF Spec
=============================================================================
