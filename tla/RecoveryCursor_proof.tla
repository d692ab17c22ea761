------------------------ MODULE RecoveryCursor_proof ------------------------
(***************************************************************************)
(* The keyset cursor passes over no row, and a run counts only what is in  *)
(* the database.  Both rest on where a row of the page can be while        *)
(* write_page is at work: still to be executed, inserted by the open       *)
(* transaction, recorded as an error, or decided.                          *)
(***************************************************************************)
EXTENDS RecoveryWorker_proof

Decided(t) == decisions[t] # None

\* Where the rows of the page of w are, by what w is doing.
PageAccounted(w) ==
  /\ pc[w] \in Ended \cup {"fetch"} => page[w] = {}
  /\ pc[w] = "batch" =>
       \A t \in page[w] : t \in todo[w] \/ t \in staged[w] \/ Decided(t)
  /\ pc[w] = "rowwise" =>
       \A t \in page[w] : t \in todo[w] \/ t \in failed[w] \/ Decided(t)
  /\ pc[w] = "tally" => \A t \in page[w] : t \in failed[w] \/ Decided(t)

\* Where the backlog of w is.
BacklogAccounted(w) ==
  /\ backlog[w] \subseteq present
  /\ \A t \in backlog[w] :
       \/ Decided(t)
       \/ t \in errorIds[w]
       \/ pc[w] \in Running /\ (t \in page[w] \/ KeyAfter(Key(t), cursor[w]))
       \/ pc[w] \in Ended \ {"completed"}

\* What is known of one run, which a composition may rely on for that run.
RunInv(w) == LedgerInv /\ PageAccounted(w) /\ BacklogAccounted(w)

CursorInv == /\ LedgerInv
             /\ \A w \in Worker : PageAccounted(w) /\ BacklogAccounted(w)
             /\ CountedIsDecided

\* The state of a run the invariant reads.
RunState(w) == <<pc[w], conn[w], cursor[w], page[w], pages[w], backlog[w],
                 todo[w], staged[w], failed[w], errorIds[w]>>

-----------------------------------------------------------------------------
\* Nothing decided is ever undecided again, and no row goes away.
LEMMA DecidedForEver ==
  ASSUME LedgerInv, [Next]_vars
  PROVE  /\ \A t \in Txn : Decided(t) => Decided(t)'
         /\ present \subseteq present'
<1>1. ASSUME NEW w \in Worker, NEW S \in SUBSET Txn, LedgerStep(w, S), NEW t \in Txn
      PROVE  Decided(t) => Decided(t)'
  <2>1. Inserted(S) \subseteq present /\ WriteRows(w, S)
    BY <1>1 DEF LedgerStep
  <2> QED BY <2>1, WriteRowsEffect DEF Decided
<1>2. TableStep
  BY StepTables
<1> QED BY <1>1, <1>2 DEF TableStep, LedgerStep, Decided, ledger

\* After WRITE_ROW every row it was executed for is decided.
LEMMA WrittenIsDecided ==
  ASSUME LedgerInv, NEW w \in Worker, NEW S \in SUBSET Txn,
         Inserted(S) \subseteq present, WriteRows(w, S)
  PROVE  \A t \in S : Decided(t)'
<1> SUFFICES ASSUME NEW t \in S PROVE Decided(t)'
  OBVIOUS
<1>1. t \in Txn
  BY DEF LedgerInv, TypeOK
<1>2. CASE t \in Inserted(S)
  BY <1>2, WriteRowsEffect DEF Decided
<1>3. CASE t \notin Inserted(S)
  BY <1>1, <1>3, WriteRowsEffect DEF Decided, Inserted
<1> QED BY <1>2, <1>3

\* A step that does not touch a run leaves what is known of it true.
LEMMA RunUntouched ==
  ASSUME LedgerInv, [Next]_vars, NEW v \in Worker, UNCHANGED RunState(v),
         PageAccounted(v), BacklogAccounted(v)
  PROVE  PageAccounted(v)' /\ BacklogAccounted(v)'
<1>1. \A t \in Txn : Decided(t) => Decided(t)'
  BY DecidedForEver
<1>2. present \subseteq present'
  BY DecidedForEver
<1>3. page[v] \in SUBSET Txn /\ backlog[v] \in SUBSET Txn
  BY DEF LedgerInv, TypeOK
<1>4. PageAccounted(v)'
  BY <1>1, <1>3 DEF PageAccounted, RunState
<1>5. BacklogAccounted(v)'
  <2>1. \A t \in backlog[v] : Key(t)' = Key(t)
    BY DEF Key
  <2> QED BY <1>1, <1>2, <1>3, <2>1 DEF BacklogAccounted, RunState, KeyAfter
<1> QED BY <1>4, <1>5

\* A worker's step touches no other worker's run.
LEMMA OthersUntouched ==
  ASSUME LedgerInv, NEW w \in Worker, Start(w) \/ Step(w) \/ FaultStep(w),
         NEW v \in Worker \ {w}
  PROVE  UNCHANGED RunState(v)
<1> USE DEF LedgerInv, TypeOK, RunState
<1>1. ASSUME Forget(w)
      PROVE  UNCHANGED <<conn[v], page[v], todo[v], staged[v], failed[v]>>
  BY <1>1 DEF Forget
<1>2. CASE Start(w)
  BY <1>2 DEF Start, writing
<1>3. CASE FetchPage(w)
  BY <1>3 DEF FetchPage, writing, totals
<1>4. CASE FetchEmpty(w) \/ PageLimitReached(w)
  BY <1>1, <1>4 DEF FetchEmpty, PageLimitReached, Finish
<1>5. CASE FetchRaises(w) \/ FetchFault(w) \/ Kill(w)
  BY <1>1, <1>5 DEF FetchRaises, FetchFault, Kill, Abort, totals
<1>6. CASE ApplyAI(w)
  BY <1>6 DEF ApplyAI, paging, totals
<1>7. CASE BatchRow(w)
  BY <1>7 DEF BatchRow, paging, totals
<1>8. CASE BatchCommits(w)
  BY <1>8 DEF BatchCommits, paging, totals
<1>9. CASE BatchFails(w) \/ BatchFault(w) \/ BatchAckLost(w)
  BY <1>9 DEF BatchFails, BatchFault, BatchAckLost, RetryRows, paging, totals
<1>10. CASE RowWrites(w)
  BY <1>10 DEF RowWrites, paging, totals
<1>11. CASE RowFails(w) \/ RowFault(w) \/ RowAckLost(w)
  BY <1>11 DEF RowFails, RowFault, RowAckLost, RowError, paging, totals
<1>12. CASE PageTallied(w)
  BY <1>12 DEF PageTallied, Tally
<1>13. CASE BreakerTrips(w)
  BY <1>1, <1>13 DEF BreakerTrips, Tally
<1> QED
  BY <1>2, <1>3, <1>4, <1>5, <1>6, <1>7, <1>8, <1>9, <1>10, <1>11, <1>12, <1>13
  DEF Step, FaultStep

\* So a step either is one of a given run or leaves it alone.
LEMMA StepOfRun ==
  ASSUME LedgerInv, [Next]_vars, NEW v \in Worker
  PROVE  UNCHANGED RunState(v) \/ Start(v) \/ Step(v) \/ FaultStep(v)
<1>1. ASSUME NEW S \in SUBSET (Txn \ present), Seed(S)
      PROVE  UNCHANGED RunState(v)
  BY <1>1 DEF Seed, RunState, paging, writing, totals
<1>2. CASE UNCHANGED vars
  BY <1>2 DEF vars, RunState, paging, writing, totals
<1>3. ASSUME NEW w \in Worker, Start(w) \/ Step(w) \/ FaultStep(w), v # w
      PROVE  UNCHANGED RunState(v)
  BY <1>3, OthersUntouched
<1> QED BY <1>1, <1>2, <1>3 DEF Next

-----------------------------------------------------------------------------
\* The page query leaves out only rows that are decided or behind the cursor.
LEMMA FetchPageKeeps ==
  ASSUME NEW w \in Worker, RunInv(w), FetchPage(w)
  PROVE  PageAccounted(w)' /\ BacklogAccounted(w)'
<1> PICK last \in Eligible(cursor[w]) :
       /\ page' = [page EXCEPT ![w] = UpTo(Eligible(cursor[w]), last)]
       /\ cursor' = [cursor EXCEPT ![w] = Key(last)]
  BY DEF FetchPage
<1>1. /\ pc'[w] = "ai" /\ page'[w] = UpTo(Eligible(cursor[w]), last)
      /\ cursor'[w] = Key(last)
      /\ backlog' = backlog /\ errorIds' = errorIds /\ decisions' = decisions
      /\ present' = present
  BY DEF FetchPage, RunInv, LedgerInv, TypeOK, ledger, totals
<1>2. pc[w] = "fetch" /\ page[w] = {}
  BY DEF FetchPage, RunInv, PageAccounted
<1>3. PageAccounted(w)'
  BY <1>1 DEF PageAccounted, Ended
<1>4. ASSUME NEW t \in backlog[w], ~Decided(t), t \notin errorIds[w]
      PROVE  t \in page'[w] \/ KeyAfter(Key(t), cursor'[w])
  <2>1. t \in Txn /\ t \in present /\ KeyAfter(Key(t), cursor[w])
    BY <1>2, <1>4 DEF RunInv, BacklogAccounted, LedgerInv, TypeOK, Ended
  <2>2. t \in Undecided
    BY <1>4, <2>1 DEF RunInv, LedgerInv, LedgerIsWhole, Untouched, Entered,
                      Undecided, Decided
  <2>3. t \in Eligible(cursor[w])
    BY <2>1, <2>2 DEF Eligible
  <2> QED BY <1>1, <2>3 DEF UpTo
<1>5. BacklogAccounted(w)'
  <2>1. \A t : Key(t)' = Key(t) /\ Decided(t)' = Decided(t)
    BY <1>1 DEF Key, Decided
  <2>2. backlog'[w] \subseteq present'
    BY <1>1 DEF RunInv, BacklogAccounted
  <2> QED BY <1>1, <1>4, <2>1, <2>2 DEF BacklogAccounted, Running, KeyAfter
<1> QED BY <1>3, <1>5

\* An empty page means that the whole backlog is decided or reported.
LEMMA FetchEmptyKeeps ==
  ASSUME NEW w \in Worker, RunInv(w), FetchEmpty(w)
  PROVE  PageAccounted(w)' /\ BacklogAccounted(w)'
<1>1. /\ pc'[w] = "completed" /\ backlog' = backlog /\ errorIds' = errorIds
      /\ decisions' = decisions /\ present' = present /\ page'[w] = {}
  BY DEF FetchEmpty, Finish, Forget, RunInv, LedgerInv, TypeOK, ledger
<1>2. pc[w] = "fetch" /\ page[w] = {} /\ Eligible(cursor[w]) = {}
  BY DEF FetchEmpty, RunInv, PageAccounted
<1>3. ASSUME NEW t \in backlog[w], ~Decided(t), t \notin errorIds[w]
      PROVE  FALSE
  <2>1. t \in Txn /\ t \in present /\ KeyAfter(Key(t), cursor[w])
    BY <1>2, <1>3 DEF RunInv, BacklogAccounted, LedgerInv, TypeOK, Ended
  <2>2. t \in Undecided
    BY <1>3, <2>1 DEF RunInv, LedgerInv, LedgerIsWhole, Untouched, Entered,
                      Undecided, Decided
  <2> QED BY <1>2, <2>1, <2>2 DEF Eligible
<1>4. PageAccounted(w)'
  BY <1>1 DEF PageAccounted
<1>5. backlog'[w] \subseteq present'
  BY <1>1 DEF RunInv, BacklogAccounted
<1> QED BY <1>1, <1>3, <1>4, <1>5 DEF BacklogAccounted, Decided

\* The rows of the page become errors or are decided before the page is left.
LEMMA PageTalliedKeeps ==
  ASSUME NEW w \in Worker, RunInv(w), PageTallied(w)
  PROVE  PageAccounted(w)' /\ BacklogAccounted(w)'
<1>1. /\ pc'[w] = "fetch" /\ page'[w] = {} /\ cursor' = cursor
      /\ errorIds'[w] = errorIds[w] \cup failed[w]
      /\ backlog' = backlog /\ decisions' = decisions /\ present' = present
  BY DEF PageTallied, Tally, RunInv, LedgerInv, TypeOK, ledger
<1>2. pc[w] \in Running /\ \A t \in page[w] : t \in failed[w] \/ Decided(t)
  BY DEF PageTallied, Tally, PageWritten, RunInv, PageAccounted, Running
<1>3. \A t : Key(t)' = Key(t) /\ Decided(t)' = Decided(t)
  BY <1>1 DEF Key, Decided
<1>4. PageAccounted(w)'
  BY <1>1 DEF PageAccounted
<1>5. pc[w] \notin Ended
  BY <1>2 DEF Running, Ended
<1> QED BY <1>1, <1>2, <1>3, <1>4, <1>5
        DEF RunInv, BacklogAccounted, Running, KeyAfter

\* While a page is planned and written the cursor and the totals stay where
\* they are.
LEMMA BacklogKept ==
  ASSUME NEW w \in Worker, RunInv(w), [Next]_vars,
         pc[w] \in Running, pc'[w] \in Running,
         UNCHANGED <<cursor, page, backlog, errorIds>>
  PROVE  BacklogAccounted(w)'
<1>1. /\ \A t \in Txn : Decided(t) => Decided(t)'
      /\ present \subseteq present'
  BY DecidedForEver DEF RunInv
<1>2. backlog[w] \in SUBSET Txn
  BY DEF RunInv, LedgerInv, TypeOK
<1>3. \A t : Key(t)' = Key(t)
  BY DEF Key
<1>4. pc[w] \notin Ended
  BY DEF Running, Ended
<1> QED BY <1>1, <1>2, <1>3, <1>4 DEF RunInv, BacklogAccounted, KeyAfter

\* write_page: a row leaves `todo` staged, failed or decided, and what was
\* staged is decided or back in `todo`.
LEMMA WritingKeeps ==
  ASSUME NEW w \in Worker, RunInv(w),
         \/ ApplyAI(w) \/ BatchRow(w) \/ BatchCommits(w) \/ BatchFails(w)
         \/ BatchFault(w) \/ BatchAckLost(w)
         \/ RowWrites(w) \/ RowFails(w) \/ RowFault(w) \/ RowAckLost(w)
  PROVE  PageAccounted(w)' /\ BacklogAccounted(w)'
<1>0. [Next]_vars
  BY DEF Next, Step, FaultStep
<1>a. \A t \in Txn : Decided(t) => Decided(t)'
  BY <1>0, DecidedForEver DEF RunInv
<1>b. /\ page[w] \in SUBSET Txn /\ todo[w] \in SUBSET Txn
      /\ staged[w] \in SUBSET Txn /\ Inserted(staged[w]) \subseteq present
  BY DEF RunInv, LedgerInv, TypeOK, StagedRowsExist, Inserted
<1> USE DEF RunInv, LedgerInv, TypeOK
<1>1. CASE ApplyAI(w)
  <2>1. pc[w] = "ai" /\ pc'[w] = "batch" /\ todo'[w] = page[w] /\ page' = page
    BY <1>1 DEF ApplyAI, paging
  <2>2. UNCHANGED <<cursor, page, backlog, errorIds>>
    BY <1>1 DEF ApplyAI, paging, totals
  <2>3. PageAccounted(w)'
    BY <2>1 DEF PageAccounted, Ended
  <2> QED BY <1>0, <2>1, <2>2, <2>3, BacklogKept DEF Running
<1>2. CASE BatchRow(w)
  <2> PICK t \in First(todo[w]) :
         /\ todo' = [todo EXCEPT ![w] = @ \ {t}]
         /\ staged' = [staged EXCEPT ![w] = @ \cup Inserted({t})]
    BY <1>2 DEF BatchRow
  <2>1. pc[w] = "batch" /\ UNCHANGED <<pc, cursor, page, backlog, errorIds, decisions>>
    BY <1>2 DEF BatchRow, paging, totals, ledger
  <2>2. \A u \in page[w] : u \in todo[w] \/ u \in staged[w] \/ Decided(u)
    BY <2>1 DEF PageAccounted
  <2>3. t \in staged'[w] \/ Decided(t)
    BY DEF Inserted, Decided
  <2>4. PageAccounted(w)'
    BY <2>1, <2>2, <2>3 DEF PageAccounted, Decided, Ended
  <2> QED BY <1>0, <2>1, <2>4, BacklogKept DEF Running
<1>3. CASE BatchCommits(w)
  <2>1. /\ pc[w] = "batch" /\ pc'[w] = "tally" /\ todo[w] = {} /\ WriteRows(w, staged[w])
        /\ UNCHANGED <<cursor, page, backlog, errorIds>>
    BY <1>3 DEF BatchCommits, paging, totals
  <2>2. \A t \in page[w] : t \in staged[w] \/ Decided(t)
    BY <2>1 DEF PageAccounted
  <2>3. \A t \in staged[w] : Decided(t)'
    BY <1>b, <2>1, WrittenIsDecided DEF RunInv
  <2>4. PageAccounted(w)'
    BY <1>a, <1>b, <2>1, <2>2, <2>3 DEF PageAccounted, Ended
  <2> QED BY <1>0, <2>1, <2>4, BacklogKept DEF Running
<1>4. CASE BatchFails(w) \/ BatchFault(w) \/ BatchAckLost(w)
  <2>1. /\ pc[w] = "batch" /\ pc'[w] = "rowwise" /\ todo'[w] = page[w]
        /\ UNCHANGED <<cursor, page, backlog, errorIds>>
    BY <1>4 DEF BatchFails, BatchFault, BatchAckLost, RetryRows, paging, totals
  <2>2. PageAccounted(w)'
    BY <2>1 DEF PageAccounted, Ended
  <2> QED BY <1>0, <2>1, <2>2, BacklogKept DEF Running
<1>5. CASE RowWrites(w)
  <2> PICK t \in First(todo[w]) : /\ ~Raises(t) /\ WriteRows(w, {t})
                                /\ todo' = [todo EXCEPT ![w] = @ \ {t}]
    BY <1>5 DEF RowWrites
  <2>1. pc[w] = "rowwise" /\ UNCHANGED <<pc, cursor, page, backlog, errorIds, failed>>
    BY <1>5 DEF RowWrites, paging, totals
  <2>2. \A u \in page[w] : u \in todo[w] \/ u \in failed[w] \/ Decided(u)
    BY <2>1 DEF PageAccounted
  <2>3. Decided(t)'
    <3>1. {t} \in SUBSET Txn /\ Inserted({t}) \subseteq present
      BY <1>b DEF First, Raises, Inserted
    <3>2. WriteRows(w, {t})
      OBVIOUS
    <3>3. LedgerInv
      BY DEF RunInv
    <3>4. \A u \in {t} : Decided(u)'
      BY <3>1, <3>2, <3>3, WrittenIsDecided
    <3> QED BY <3>4
  <2>4. PageAccounted(w)'
    BY <1>a, <1>b, <2>1, <2>2, <2>3 DEF PageAccounted, Ended
  <2> QED BY <1>0, <2>1, <2>4, BacklogKept DEF Running
<1>6. CASE RowFails(w) \/ RowFault(w) \/ RowAckLost(w)
  <2> PICK t \in First(todo[w]) : /\ todo' = [todo EXCEPT ![w] = @ \ {t}]
                                /\ failed' = [failed EXCEPT ![w] = @ \cup {t}]
    BY <1>6 DEF RowFails, RowFault, RowAckLost, RowError
  <2>1. pc[w] = "rowwise" /\ UNCHANGED <<pc, cursor, page, backlog, errorIds>>
    BY <1>6 DEF RowFails, RowFault, RowAckLost, RowError, paging, totals
  <2>2. \A u \in page[w] : u \in todo[w] \/ u \in failed[w] \/ Decided(u)
    BY <2>1 DEF PageAccounted
  <2>3. PageAccounted(w)'
    BY <1>a, <1>b, <2>1, <2>2 DEF PageAccounted, Ended
  <2> QED BY <1>0, <2>1, <2>3, BacklogKept DEF Running
<1> QED BY <1>1, <1>2, <1>3, <1>4, <1>5, <1>6

\* A run that starts has its backlog ahead, whatever was known of the run before.
LEMMA StartKeeps ==
  ASSUME LedgerInv, NEW w \in Worker, Start(w), page[w] = {}
  PROVE  PageAccounted(w)' /\ BacklogAccounted(w)'
<1> USE DEF LedgerInv, TypeOK
<1>1. /\ pc'[w] = "fetch" /\ cursor'[w] = <<0, 0>> /\ backlog'[w] = Undecided
      /\ page' = page /\ present' = present
  BY DEF Start
<1>2. PageAccounted(w)'
  BY <1>1 DEF PageAccounted
<1>3. ASSUME NEW t \in Undecided
      PROVE  t \in present /\ KeyAfter(Key(t), <<0, 0>>)
  <2>1. t \in Txn /\ t \in present
    BY DEF Undecided
  <2>2. Row[t].scheduled_at \in Nat \ {0}
    BY <2>1, WorkerAssumption DEF RowType
  <2> QED BY <2>1, <2>2 DEF Key, KeyAfter
<1>4. \A t : Key(t)' = Key(t)
  BY DEF Key
<1> QED BY <1>1, <1>2, <1>3, <1>4 DEF BacklogAccounted, KeyAfter, Running

\* A run that starts, and one that stops before it completes, which promises
\* nothing.
LEMMA EdgesKeep ==
  ASSUME NEW w \in Worker, RunInv(w),
         \/ Start(w) \/ PageLimitReached(w) \/ FetchRaises(w) \/ BreakerTrips(w)
         \/ FetchFault(w) \/ Kill(w)
  PROVE  PageAccounted(w)' /\ BacklogAccounted(w)'
<1> USE DEF RunInv, LedgerInv, TypeOK
<1>1. CASE Start(w)
  <2>1. page[w] = {}
    BY <1>1 DEF Start, PageAccounted
  <2> QED BY <1>1, <2>1, StartKeeps DEF RunInv
<1>2. CASE PageLimitReached(w) \/ FetchRaises(w) \/ BreakerTrips(w) \/ FetchFault(w) \/ Kill(w)
  <2>1. /\ pc'[w] \in {"max_pages", "raised", "tripped", "killed"}
        /\ backlog' = backlog /\ present' = present /\ page'[w] = {}
    BY <1>2 DEF PageLimitReached, FetchRaises, BreakerTrips, FetchFault, Kill,
                Finish, Abort, Tally, Forget
  <2> QED BY <2>1 DEF PageAccounted, BacklogAccounted, Ended
<1> QED BY <1>1, <1>2

-----------------------------------------------------------------------------
\* Whatever a run counts is a row of its page that did not fail.
LEMMA CountedKeeps ==
  ASSUME CursorInv, [Next]_vars
  PROVE  CountedIsDecided'
<1> SUFFICES ASSUME NEW t \in Txn, tallied'[t] > 0 PROVE Decided(t)'
  BY DEF CountedIsDecided, Decided
<1>a. Decided(t) => Decided(t)'
  BY DecidedForEver DEF CursorInv
<1>1. CASE tallied' = tallied
  BY <1>a, <1>1 DEF CursorInv, CountedIsDecided, Decided
<1>2. ASSUME NEW w \in Worker, Tally(w)
      PROVE  Decided(t)'
  <2>1. \A u \in page[w] : u \in failed[w] \/ Decided(u)
    BY <1>2 DEF Tally, PageWritten, CursorInv, PageAccounted
  <2>2. tallied'[t] = IF t \in page[w] \ failed[w] THEN tallied[t] + 1 ELSE tallied[t]
    BY <1>2 DEF Tally
  <2>3. CASE t \in page[w] \ failed[w]
    BY <1>a, <2>1, <2>3
  <2>4. CASE t \notin page[w] \ failed[w]
    BY <1>a, <2>2, <2>4 DEF CursorInv, CountedIsDecided, Decided
  <2> QED BY <2>3, <2>4
<1>3. \/ tallied' = tallied
      \/ \E w \in Worker : Tally(w)
  BY DEF Next, Step, FaultStep, Seed, Start, FetchPage, FetchEmpty, PageLimitReached,
         FetchRaises, ApplyAI, BatchRow, BatchCommits, BatchFails, RowWrites, RowFails,
         PageTallied, BreakerTrips, FetchFault, BatchFault, BatchAckLost, RowFault,
         RowAckLost, Kill, Finish, Abort, RetryRows, RowError, vars, totals
<1> QED BY <1>1, <1>2, <1>3

\* The invariant of the page loop.
THEOREM CursorInvariant == Spec => []CursorInv
<1>1. Init => CursorInv
  <2> SUFFICES ASSUME Init PROVE CursorInv
    OBVIOUS
  <2>1. LedgerInv
    BY InitTypeOK DEF Init, LedgerInv, LedgerIsWhole, Untouched, StagedRowsExist
  <2>2. ASSUME NEW w \in Worker PROVE PageAccounted(w) /\ BacklogAccounted(w)
    BY DEF Init, PageAccounted, BacklogAccounted, Ended
  <2>3. CountedIsDecided
    BY DEF Init, CountedIsDecided
  <2> QED BY <2>1, <2>2, <2>3 DEF CursorInv
<1>2. CursorInv /\ [Next]_vars => CursorInv'
  <2> SUFFICES ASSUME CursorInv, [Next]_vars PROVE CursorInv'
    OBVIOUS
  <2>1. LedgerInv'
    BY StepTypeOK, StepTables, StepLedgerIsWhole, StepStagedRows DEF CursorInv, LedgerInv
  <2>2. CountedIsDecided'
    BY CountedKeeps
  <2>3. ASSUME NEW v \in Worker PROVE PageAccounted(v)' /\ BacklogAccounted(v)'
    <3>1. CASE UNCHANGED RunState(v)
      BY <3>1, RunUntouched DEF CursorInv
    <3>2. CASE Start(v) \/ Step(v) \/ FaultStep(v)
      BY <3>2, FetchPageKeeps, FetchEmptyKeeps, PageTalliedKeeps, WritingKeeps, EdgesKeep
      DEF Step, FaultStep, CursorInv, RunInv
    <3> QED BY <3>1, <3>2, StepOfRun DEF CursorInv
  <2> QED BY <2>1, <2>2, <2>3 DEF CursorInv
<1> QED BY <1>1, <1>2, PTL DEF Spec

\* No pending row is passed over, and a run that completes has decided or
\* reported its whole backlog.
THEOREM CursorSkipsNothing == Spec => []NoRowSkipped
<1>1. CursorInv => NoRowSkipped
  BY DEF CursorInv, BacklogAccounted, NoRowSkipped, Decided, Ended
<1> QED BY <1>1, CursorInvariant, PTL

\* Every transaction a run counted as processed has its decision.
THEOREM CountsAreBacked == Spec => []CountedIsDecided
<1>1. CursorInv => CountedIsDecided
  BY DEF CursorInv
<1> QED BY <1>1, CursorInvariant, PTL

-----------------------------------------------------------------------------
OneWorkerInv ==
  /\ CursorInv
  /\ \A w \in Worker : \A t \in page[w] : tallied[t] = 0
  /\ CountedAtMostOnce

\* As long as only one worker process is ever used, no sequence of crashes,
\* restarts and retries counts a transaction twice.
THEOREM OneWorkerCountsOnce ==
  ASSUME \A v, w \in Worker : v = w
  PROVE  Spec => []CountedAtMostOnce
<1>1. Init => OneWorkerInv
  <2> SUFFICES ASSUME Init PROVE OneWorkerInv
    OBVIOUS
  <2>1. CursorInv
    <3>1. LedgerInv
      BY InitTypeOK DEF Init, LedgerInv, LedgerIsWhole, Untouched, StagedRowsExist
    <3>2. ASSUME NEW w \in Worker PROVE PageAccounted(w) /\ BacklogAccounted(w)
      BY DEF Init, PageAccounted, BacklogAccounted, Ended
    <3> QED BY <3>1, <3>2 DEF Init, CursorInv, CountedIsDecided
  <2> QED BY <2>1 DEF Init, OneWorkerInv, CountedAtMostOnce
<1>2. OneWorkerInv /\ [Next]_vars /\ CursorInv' => OneWorkerInv'
  <2> SUFFICES ASSUME OneWorkerInv, [Next]_vars, CursorInv' PROVE OneWorkerInv'
    OBVIOUS
  <2> USE DEF OneWorkerInv, CursorInv, LedgerInv, TypeOK
  <2>1. ASSUME tallied' = tallied, \A w \in Worker : page'[w] \subseteq page[w]
        PROVE  OneWorkerInv'
    BY <2>1 DEF CountedAtMostOnce
  <2>2. ASSUME NEW w \in Worker, FetchPage(w) PROVE OneWorkerInv'
    <3> PICK last \in Eligible(cursor[w]) :
           page' = [page EXCEPT ![w] = UpTo(Eligible(cursor[w]), last)]
      BY <2>2 DEF FetchPage
    <3>1. \A t \in page'[w] : t \in Txn /\ decisions[t] = None
      BY DEF UpTo, Eligible, Undecided
    <3>2. \A t \in page'[w] : tallied[t] = 0
      BY <3>1 DEF CountedIsDecided
    <3>3. tallied' = tallied
      BY <2>2 DEF FetchPage, totals
    <3> QED BY <3>2, <3>3 DEF CountedAtMostOnce
  <2>3. ASSUME NEW w \in Worker, Tally(w), page' = [page EXCEPT ![w] = {}]
        PROVE  OneWorkerInv'
    <3>1. \A v \in Worker : page'[v] = {}
      BY <2>3
    <3>2. \A t \in Txn : tallied'[t] <= 1
      BY <2>3 DEF Tally, CountedAtMostOnce
    <3> QED BY <3>1, <3>2 DEF CountedAtMostOnce
  <2>4. CASE UNCHANGED vars
    BY <2>1, <2>4 DEF vars, paging, totals
  <2>5. ASSUME NEW S \in SUBSET (Txn \ present), Seed(S) PROVE OneWorkerInv'
    BY <2>1, <2>5 DEF Seed, paging, totals
  <2>6. ASSUME NEW w \in Worker, Start(w) \/ Step(w) \/ FaultStep(w)
        PROVE  OneWorkerInv'
    <3>1. CASE Start(w)
      BY <2>1, <3>1 DEF Start
    <3>2. CASE FetchPage(w)
      BY <2>2, <3>2
    <3>3. CASE FetchEmpty(w) \/ PageLimitReached(w)
      BY <2>1, <3>3 DEF FetchEmpty, PageLimitReached, Finish, Forget
    <3>4. CASE FetchRaises(w) \/ FetchFault(w) \/ Kill(w)
      BY <2>1, <3>4 DEF FetchRaises, FetchFault, Kill, Abort, Forget, totals
    <3>5. CASE ApplyAI(w) \/ BatchRow(w) \/ BatchCommits(w)
      BY <2>1, <3>5 DEF ApplyAI, BatchRow, BatchCommits, paging, totals
    <3>6. CASE BatchFails(w) \/ BatchFault(w) \/ BatchAckLost(w)
      BY <2>1, <3>6 DEF BatchFails, BatchFault, BatchAckLost, RetryRows, paging, totals
    <3>7. CASE RowWrites(w) \/ RowFails(w) \/ RowFault(w) \/ RowAckLost(w)
      BY <2>1, <3>7 DEF RowWrites, RowFails, RowFault, RowAckLost, RowError, paging,
                        totals
    <3>8. CASE PageTallied(w)
      BY <2>3, <3>8 DEF PageTallied
    <3>9. CASE BreakerTrips(w)
      BY <2>3, <3>9 DEF BreakerTrips, Forget
    <3> QED BY <2>6, <3>1, <3>2, <3>3, <3>4, <3>5, <3>6, <3>7, <3>8, <3>9
            DEF Step, FaultStep
  <2> QED BY <2>4, <2>5, <2>6 DEF Next
<1>3. OneWorkerInv => CountedAtMostOnce
  BY DEF OneWorkerInv
<1> QED BY <1>1, <1>2, <1>3, CursorInvariant, PTL DEF Spec
=============================================================================
