--------------------------- MODULE LoadTest_proof ---------------------------
(***************************************************************************)
(* The load test and the workers beside it: whatever a reset does to the   *)
(* pages they hold, the tables stay a ledger, nothing is counted that was  *)
(* not decided, a test that passed has left everything decided, and a      *)
(* clean one passes.  A step either is one of RecoveryWorker, or           *)
(* truncates, or leaves the tables alone.                                  *)
(***************************************************************************)
EXTENDS LoadTest, RecoveryRun_proof

\* What the steps of the load test do to the variables of the workers.
LEMMA LTStepIs ==
  ASSUME [LTNext]_ltVars
  PROVE  \/ [Next]_vars
         \/ SeedReset
         \/ SeedFails
<1>1. RunStarts => Next
  BY HarnessAssumption DEF RunStarts, Next
<1>2. WorkerStep => Next
  BY DEF WorkerStep, Next
<1>3. SeedSkipped \/ CountSeeded \/ Poll \/ MainEnds => UNCHANGED vars
  BY DEF SeedSkipped, CountSeeded, Poll, MainEnds, Verify, RunTripped, RunAborted
<1>4. UNCHANGED ltVars => UNCHANGED vars
  BY DEF ltVars
<1> QED BY <1>1, <1>2, <1>3, <1>4 DEF LTNext

\* After a reset every transaction is untouched and no worker has staged one.
LEMMA ResetKeepsInv == LedgerInv /\ SeedReset => LedgerInv'
<1> SUFFICES ASSUME LedgerInv, SeedReset PROVE LedgerInv'
  OBVIOUS
<1>1. \A t \in Txn : Row'[t].attempt_count = Row[t].attempt_count
  OBVIOUS
<1>2. \A t \in Txn : Untouched(t)'
  BY <1>1 DEF SeedReset, Untouched
<1>3. StagedRowsExist'
  BY DEF SeedReset, StagedRowsExist, writing
<1>4. \A t \in Txn : Row[t].attempt_count \in Nat
  BY WorkerAssumption DEF RowType
<1>5. /\ present' \in SUBSET Txn
      /\ decisions' \in [Txn -> DecisionType \cup {None}]
      /\ audit' \in [Txn -> Seq(SnapshotType)]
      /\ status' \in [Txn -> {"pending"} \cup FinalStatus]
      /\ attempts' \in [Txn -> Nat]
  BY <1>4, HarnessAssumption DEF SeedReset
<1>6. TypeOK'
  BY <1>5 DEF SeedReset, LedgerInv, TypeOK, paging, writing, totals, bounds
<1> QED BY <1>2, <1>3, <1>6 DEF LedgerInv, LedgerIsWhole

LEMMA SeedFailsKeepsInv == LedgerInv /\ SeedFails => LedgerInv'
<1> SUFFICES ASSUME LedgerInv, SeedFails PROVE LedgerInv'
  OBVIOUS
<1>1. TypeOK'
  BY DEF SeedFails, Fault, LedgerInv, TypeOK, ledger, paging, writing, totals
<1>2. LedgerIsWhole'
  BY DEF SeedFails, LedgerInv, LedgerIsWhole, Untouched, Entered, WrittenEntry, ledger
<1>3. StagedRowsExist'
  BY DEF SeedFails, LedgerInv, StagedRowsExist, writing
<1> QED BY <1>1, <1>2, <1>3 DEF LedgerInv

\* The invariant of the refinement survives the load test.
LEMMA LTStepLedgerInv == LedgerInv /\ [LTNext]_ltVars => LedgerInv'
BY LTStepIs, ResetKeepsInv, SeedFailsKeepsInv, StepTypeOK, StepTables,
   StepLedgerIsWhole, StepStagedRows DEF LedgerInv

THEOREM LTLedgerInvariant == LTSpec => []LedgerInv
<1>1. LTInit => LedgerInv
  <2> SUFFICES ASSUME LTInit PROVE LedgerInv
    OBVIOUS
  <2>1. LedgerIsWhole
    BY DEF LTInit, Init, LedgerIsWhole, Untouched
  <2>2. StagedRowsExist
    BY DEF LTInit, Init, StagedRowsExist
  <2> QED BY <2>1, <2>2, InitTypeOK DEF LedgerInv, LTInit
<1> QED BY <1>1, LTStepLedgerInv, PTL DEF LTSpec

-----------------------------------------------------------------------------
\* A step of the tables is a step of the ledger.
LEMMA TableStepIsLedgerStep ==
  ASSUME LedgerInv, TableStep
  PROVE  [Ledger!Next]_Ledger!vars
<1>1. ASSUME UNCHANGED ledger
      PROVE  [t \in Txn |-> EntryOf(t)]' = [t \in Txn |-> EntryOf(t)]
  BY <1>1 DEF EntryOf, Untouched, ledger
<1>2. ASSUME NEW S \in SUBSET (Txn \ present), present' = present \cup S,
             UNCHANGED ledger
      PROVE  Ledger!Next
  BY <1>1, <1>2 DEF Ledger!Next, Ledger!Arrive
<1>3. ASSUME UNCHANGED <<present, ledger>> PROVE UNCHANGED Ledger!vars
  BY <1>1, <1>3 DEF Ledger!vars
<1> QED BY <1>2, <1>3, WriteDecides DEF TableStep

\* With resets in between, the tables behave as the ledger: no worker that
\* still holds a page of the old batch leaves a trace of it.
THEOREM LedgerSurvivesReset == LTSpec => LedgerBetweenResets
<1>1. LTInit => Ledger!Init
  BY DEF LTInit, Init, Ledger!Init, EntryOf, Untouched
<1>2. LedgerInv /\ [LTNext]_ltVars => [Ledger!Next \/ LedgerReset]_Ledger!vars
  <2> SUFFICES ASSUME LedgerInv, [LTNext]_ltVars
               PROVE  [Ledger!Next \/ LedgerReset]_Ledger!vars
    OBVIOUS
  <2>1. CASE [Next]_vars
    BY <2>1, StepTables, TableStepIsLedgerStep
  <2>2. CASE SeedFails
    <3>1. TableStep
      BY <2>2 DEF SeedFails, TableStep
    <3> QED BY <3>1, TableStepIsLedgerStep
  <2>3. CASE SeedReset
    BY <2>3 DEF SeedReset, LedgerReset, Untouched
  <2> QED BY <2>1, <2>2, <2>3, LTStepIs
<1> QED BY <1>1, <1>2, LTLedgerInvariant, PTL DEF LTSpec, LedgerBetweenResets

-----------------------------------------------------------------------------
\* Types: what the load test keeps beside the variables of the workers.
THEOREM LTTypeCorrect == LTSpec => []LTTypeOK
<1> DEFINE LTypes == /\ stage \in Stage /\ seededTotal \in Nat
                     /\ timed \subseteq Nat \X Int
                     /\ verdict \subseteq DOMAIN Checks
                                        \cup {"no_page_stalled", "no_breaker_trip"}
                     /\ erased \subseteq Txn
<1>1. LTInit => LTypes
  BY DEF LTInit, Stage
<1>2. LedgerInv /\ LTypes /\ [LTNext]_ltVars => LTypes'
  <2> SUFFICES ASSUME LedgerInv, LTypes, [LTNext]_ltVars PROVE LTypes'
    OBVIOUS
  <2> USE DEF Stage, Over
  <2>0. DOMAIN Checks' = DOMAIN Checks
    BY DEF Checks
  <2>1. CASE SeedReset \/ SeedFails \/ SeedSkipped
    BY <2>0, <2>1 DEF SeedReset, SeedFails, SeedSkipped
  <2>2. CASE CountSeeded
    <3>1. Cardinality(present) \in Nat
      BY WorkerAssumption, FS_Subset, FS_CardinalityType DEF LedgerInv, TypeOK
    <3> QED BY <2>0, <2>2, <3>1 DEF CountSeeded
  <2>3. CASE RunStarts
    BY <2>0, <2>3 DEF RunStarts
  <2>4. CASE Poll
    <3>1. progress.pages_done \in Nat
      BY <2>4 DEF Poll, LedgerInv, TypeOK, ProgressType
    <3>2. Completed \in Int
      BY HarnessAssumption DEF Completed, LedgerInv, TypeOK
    <3> QED BY <2>0, <2>4, <3>1, <3>2 DEF Poll
  <2>5. CASE MainEnds
    <3>1. ASSUME NEW stalled \in Stalls
          PROVE  Red \cup stalled \subseteq DOMAIN Checks \cup {"no_page_stalled"}
      BY <3>1 DEF Stalls, Red
    <3>2. CASE Verify
      BY <2>0, <3>1, <3>2 DEF Verify
    <3>3. CASE RunTripped \/ RunAborted
      BY <2>0, <3>3 DEF RunTripped, RunAborted
    <3> QED BY <2>5, <3>2, <3>3 DEF MainEnds
  <2>6. CASE WorkerStep \/ UNCHANGED ltVars
    BY <2>0, <2>6 DEF WorkerStep, ltVars, lt
  <2> QED BY <2>1, <2>2, <2>3, <2>4, <2>5, <2>6 DEF LTNext
<1>3. LedgerInv /\ LTypes => LTTypeOK
  BY DEF LedgerInv, LTTypeOK
<1> QED BY <1>1, <1>2, <1>3, LTLedgerInvariant, PTL DEF LTSpec

-----------------------------------------------------------------------------
(***************************************************************************)
(* What was decided once is decided now or was truncated.  The rows of a   *)
(* page are to be executed, inserted, errors or recorded in this sense,    *)
(* and a reset changes nothing about that: no worker has a row inserted    *)
(* then.                                                                   *)
(***************************************************************************)
Recorded(t) == decisions[t] # None \/ t \in erased

PageRecorded(w) ==
  /\ pc[w] \in Ended \cup {"fetch"} => page[w] = {}
  /\ pc[w] = "batch" =>
       \A t \in page[w] : t \in todo[w] \/ t \in staged[w] \/ Recorded(t)
  /\ pc[w] = "rowwise" =>
       \A t \in page[w] : t \in todo[w] \/ t \in failed[w] \/ Recorded(t)
  /\ pc[w] = "tally" => \A t \in page[w] : t \in failed[w] \/ Recorded(t)

CountInv == /\ LedgerInv
            /\ \A w \in Worker : PageRecorded(w)
            /\ CountedWasDecided

\* Only a reset adds to the history, and it adds what it truncates.
LEMMA RecordedForEver ==
  ASSUME LedgerInv, [LTNext]_ltVars
  PROVE  \A t \in Txn : Recorded(t) => Recorded(t)'
<1>1. CASE SeedReset
  BY <1>1 DEF SeedReset, Recorded
<1>2. CASE SeedFails
  BY <1>2 DEF SeedFails, Recorded, ledger
<1>3. ASSUME [Next]_vars, erased' = erased
      PROVE  \A t \in Txn : Recorded(t) => Recorded(t)'
  <2>1. \A t \in Txn : Decided(t) => Decided(t)'
    BY <1>3, DecidedForEver
  <2> QED BY <1>3, <2>1 DEF Recorded, Decided
<1>4. SeedReset \/ SeedFails \/ erased' = erased
  BY DEF LTNext, SeedSkipped, CountSeeded, RunStarts, Poll, MainEnds, Verify,
         RunTripped, RunAborted, WorkerStep, ltVars, lt
<1> QED BY <1>1, <1>2, <1>3, <1>4, LTStepIs

\* A run no step touches.
LEMMA RunLeftAlone ==
  ASSUME CountInv, [LTNext]_ltVars, NEW v \in Worker, UNCHANGED RunState(v)
  PROVE  PageRecorded(v)'
<1>1. \A t \in Txn : Recorded(t) => Recorded(t)'
  BY RecordedForEver DEF CountInv
<1>2. page[v] \in SUBSET Txn
  BY DEF CountInv, LedgerInv, TypeOK
<1> QED BY <1>1, <1>2 DEF CountInv, PageRecorded, RunState

\* write_page, with a history of what was truncated.
LEMMA WritingRecords ==
  ASSUME CountInv, [LTNext]_ltVars, NEW w \in Worker,
         \/ ApplyAI(w) \/ BatchRow(w) \/ BatchCommits(w) \/ BatchFails(w)
         \/ BatchFault(w) \/ BatchAckLost(w)
         \/ RowWrites(w) \/ RowFails(w) \/ RowFault(w) \/ RowAckLost(w)
  PROVE  PageRecorded(w)'
<1>a. \A t \in Txn : Recorded(t) => Recorded(t)'
  BY RecordedForEver DEF CountInv
<1>b. /\ page[w] \in SUBSET Txn /\ todo[w] \in SUBSET Txn
      /\ staged[w] \in SUBSET Txn /\ Inserted(staged[w]) \subseteq present
  BY DEF CountInv, LedgerInv, TypeOK, StagedRowsExist, Inserted
<1> USE DEF CountInv, LedgerInv, TypeOK
<1>1. CASE ApplyAI(w)
  <2>1. pc'[w] = "batch" /\ todo'[w] = page[w] /\ page' = page
    BY <1>1 DEF ApplyAI, paging
  <2> QED BY <2>1 DEF PageRecorded, Ended
<1>2. CASE BatchRow(w)
  <2> PICK t \in First(todo[w]) :
         /\ todo' = [todo EXCEPT ![w] = @ \ {t}]
         /\ staged' = [staged EXCEPT ![w] = @ \cup Inserted({t})]
    BY <1>2 DEF BatchRow
  <2>1. pc[w] = "batch" /\ UNCHANGED <<pc, page, decisions>>
    BY <1>2 DEF BatchRow, paging, ledger
  <2>2. \A u \in page[w] : u \in todo[w] \/ u \in staged[w] \/ Recorded(u)
    BY <2>1 DEF PageRecorded
  <2>3. t \in staged'[w] \/ Recorded(t)
    BY DEF Inserted, Recorded
  <2> QED BY <1>a, <1>b, <2>1, <2>2, <2>3 DEF PageRecorded, Ended
<1>3. CASE BatchCommits(w)
  <2>1. /\ pc[w] = "batch" /\ pc'[w] = "tally" /\ todo[w] = {} /\ WriteRows(w, staged[w])
        /\ page' = page
    BY <1>3 DEF BatchCommits, paging
  <2>2. \A t \in page[w] : t \in staged[w] \/ Recorded(t)
    BY <2>1 DEF PageRecorded
  <2>3. \A t \in staged[w] : Recorded(t)'
    <3>1. LedgerInv
      BY DEF CountInv
    <3>2. \A t \in staged[w] : Decided(t)'
      BY <1>b, <2>1, <3>1, WrittenIsDecided
    <3> QED BY <3>2 DEF Decided, Recorded
  <2> QED BY <1>a, <1>b, <2>1, <2>2, <2>3 DEF PageRecorded, Ended
<1>4. CASE BatchFails(w) \/ BatchFault(w) \/ BatchAckLost(w)
  <2>1. pc'[w] = "rowwise" /\ todo'[w] = page[w] /\ page' = page
    BY <1>4 DEF BatchFails, BatchFault, BatchAckLost, RetryRows, paging
  <2> QED BY <2>1 DEF PageRecorded, Ended
<1>5. CASE RowWrites(w)
  <2> PICK t \in First(todo[w]) : /\ ~Raises(t) /\ WriteRows(w, {t})
                                /\ todo' = [todo EXCEPT ![w] = @ \ {t}]
    BY <1>5 DEF RowWrites
  <2>1. pc[w] = "rowwise" /\ UNCHANGED <<pc, page, failed>>
    BY <1>5 DEF RowWrites, paging
  <2>2. \A u \in page[w] : u \in todo[w] \/ u \in failed[w] \/ Recorded(u)
    BY <2>1 DEF PageRecorded
  <2>3. Recorded(t)'
    <3>1. {t} \in SUBSET Txn /\ Inserted({t}) \subseteq present
      BY <1>b DEF First, Raises, Inserted
    <3>2. WriteRows(w, {t}) /\ LedgerInv
      BY DEF CountInv
    <3>3. \A u \in {t} : Decided(u)'
      BY <3>1, <3>2, WrittenIsDecided
    <3> QED BY <3>3 DEF Decided, Recorded
  <2> QED BY <1>a, <1>b, <2>1, <2>2, <2>3 DEF PageRecorded, Ended
<1>6. CASE RowFails(w) \/ RowFault(w) \/ RowAckLost(w)
  <2> PICK t \in First(todo[w]) : /\ todo' = [todo EXCEPT ![w] = @ \ {t}]
                                /\ failed' = [failed EXCEPT ![w] = @ \cup {t}]
    BY <1>6 DEF RowFails, RowFault, RowAckLost, RowError
  <2>1. pc[w] = "rowwise" /\ UNCHANGED <<pc, page>>
    BY <1>6 DEF RowFails, RowFault, RowAckLost, RowError, paging
  <2>2. \A u \in page[w] : u \in todo[w] \/ u \in failed[w] \/ Recorded(u)
    BY <2>1 DEF PageRecorded
  <2> QED BY <1>a, <1>b, <2>1, <2>2 DEF PageRecorded, Ended
<1> QED BY <1>1, <1>2, <1>3, <1>4, <1>5, <1>6

\* A run that takes a page, leaves one or ends.
LEMMA EdgesRecord ==
  ASSUME CountInv, NEW w \in Worker,
         \/ Start(w) \/ FetchPage(w) \/ FetchEmpty(w) \/ PageTallied(w)
         \/ PageLimitReached(w) \/ FetchRaises(w) \/ BreakerTrips(w)
         \/ FetchFault(w) \/ Kill(w)
  PROVE  PageRecorded(w)'
<1> USE DEF CountInv, LedgerInv, TypeOK
<1>1. CASE Start(w)
  <2>1. pc'[w] = "fetch" /\ page' = page /\ page[w] = {}
    BY <1>1 DEF Start, PageRecorded
  <2> QED BY <2>1 DEF PageRecorded
<1>2. CASE FetchPage(w)
  <2>1. pc'[w] = "ai"
    BY <1>2 DEF FetchPage
  <2> QED BY <2>1 DEF PageRecorded, Ended
<1>3. CASE \/ FetchEmpty(w) \/ PageTallied(w) \/ PageLimitReached(w) \/ FetchRaises(w)
           \/ BreakerTrips(w) \/ FetchFault(w) \/ Kill(w)
  <2>1. pc'[w] \in Ended \cup {"fetch"} /\ page'[w] = {}
    BY <1>3 DEF FetchEmpty, PageTallied, PageLimitReached, FetchRaises, BreakerTrips,
                FetchFault, Kill, Finish, Abort, Forget, Ended
  <2> QED BY <2>1 DEF PageRecorded, Ended
<1> QED BY <1>1, <1>2, <1>3

\* What a step adds to the counters.
LEMMA CountedRecords ==
  ASSUME CountInv, [LTNext]_ltVars
  PROVE  CountedWasDecided'
<1> SUFFICES ASSUME NEW t \in Txn, tallied'[t] > 0 PROVE Recorded(t)'
  BY DEF CountedWasDecided, Recorded
<1>a. Recorded(t) => Recorded(t)'
  BY RecordedForEver DEF CountInv
<1>1. CASE tallied' = tallied
  BY <1>a, <1>1 DEF CountInv, CountedWasDecided, Recorded
<1>2. ASSUME NEW w \in Worker, Tally(w) PROVE Recorded(t)'
  <2>1. \A u \in page[w] : u \in failed[w] \/ Recorded(u)
    BY <1>2 DEF Tally, PageWritten, CountInv, PageRecorded
  <2>2. tallied'[t] = IF t \in page[w] \ failed[w] THEN tallied[t] + 1 ELSE tallied[t]
    BY <1>2 DEF Tally
  <2>3. CASE t \in page[w] \ failed[w]
    BY <1>a, <2>1, <2>3
  <2>4. CASE t \notin page[w] \ failed[w]
    BY <1>a, <2>2, <2>4 DEF CountInv, CountedWasDecided, Recorded
  <2> QED BY <2>3, <2>4
<1>3. [Next]_vars => \/ tallied' = tallied
                     \/ \E w \in Worker : Tally(w)
  BY DEF Next, Step, FaultStep, Seed, Start, FetchPage, FetchEmpty, PageLimitReached,
         FetchRaises, ApplyAI, BatchRow, BatchCommits, BatchFails, RowWrites, RowFails,
         PageTallied, BreakerTrips, FetchFault, BatchFault, BatchAckLost, RowFault,
         RowAckLost, Kill, Finish, Abort, RetryRows, RowError, vars, totals
<1>4. SeedReset \/ SeedFails => tallied' = tallied
  BY DEF SeedReset, SeedFails, totals
<1> QED BY <1>1, <1>2, <1>3, <1>4, LTStepIs

\* What a run counted as processed was in the database, also when a reset
\* took the page away under it.
THEOREM CountsSurviveReset == LTSpec => []CountedWasDecided
<1>1. LTInit => CountInv
  <2> SUFFICES ASSUME LTInit PROVE CountInv
    OBVIOUS
  <2>1. LedgerInv
    BY InitTypeOK DEF LTInit, Init, LedgerInv, LedgerIsWhole, Untouched, StagedRowsExist
  <2>2. \A w \in Worker : PageRecorded(w)
    BY DEF LTInit, Init, PageRecorded, Ended
  <2> QED BY <2>1, <2>2 DEF LTInit, Init, CountInv, CountedWasDecided
<1>2. CountInv /\ [LTNext]_ltVars => CountInv'
  <2> SUFFICES ASSUME CountInv, [LTNext]_ltVars PROVE CountInv'
    OBVIOUS
  <2>1. LedgerInv'
    BY LTStepLedgerInv DEF CountInv
  <2>2. CountedWasDecided'
    BY CountedRecords
  <2>3. ASSUME NEW v \in Worker PROVE PageRecorded(v)'
    <3>1. CASE UNCHANGED RunState(v)
      BY <3>1, RunLeftAlone
    <3>2. CASE SeedReset \/ SeedFails
      BY <3>1, <3>2 DEF SeedReset, SeedFails, RunState, paging, writing, totals
    <3>3. ASSUME NEW S \in SUBSET (Txn \ present), Seed(S)
          PROVE  UNCHANGED RunState(v)
      BY <3>3 DEF Seed, RunState, paging, writing, totals
    <3>4. CASE UNCHANGED vars
      BY <3>1, <3>4 DEF vars, RunState, paging, writing, totals
    <3>5. ASSUME NEW w \in Worker, Start(w) \/ Step(w) \/ FaultStep(w)
          PROVE  PageRecorded(v)'
      <4>1. CASE v # w
        BY <3>1, <3>5, <4>1, OthersUntouched DEF CountInv
      <4>2. CASE v = w
        BY <3>5, <4>2, WritingRecords, EdgesRecord DEF Step, FaultStep
      <4> QED BY <4>1, <4>2
    <3> QED BY <3>1, <3>2, <3>3, <3>4, <3>5, LTStepIs DEF Next
  <2> QED BY <2>1, <2>2, <2>3 DEF CountInv
<1>3. CountInv => CountedWasDecided
  BY DEF CountInv
<1> QED BY <1>1, <1>2, <1>3, PTL DEF LTSpec

-----------------------------------------------------------------------------
PassedInv == stage = "passed" => \A t \in present : Entered(t)

\* A step of a worker takes no entry away and brings no transaction.
LEMMA WorkersKeepEntries ==
  ASSUME LedgerInv, NEW w \in Worker, Start(w) \/ Step(w) \/ FaultStep(w)
  PROVE  /\ present' = present
         /\ \A t \in Txn : Entered(t) => Entered(t)'
<1>0. [Next]_vars
  BY DEF Next
<1>1. present' = present
  BY DEF Step, FaultStep, Start, FetchPage, FetchEmpty, PageLimitReached,
         FetchRaises, ApplyAI, BatchRow, BatchCommits, BatchFails, RowWrites, RowFails,
         PageTallied, BreakerTrips, FetchFault, BatchFault, BatchAckLost, RowFault,
         RowAckLost, Kill, Finish, Abort, RetryRows, RowError, Tally
<1>2. ASSUME NEW t \in Txn, Entered(t) PROVE Entered(t)'
  <2>1. Untouched(t)' \/ Entered(t)'
    BY <1>0, StepTables, StepLedgerIsWhole DEF LedgerIsWhole
  <2>2. Decided(t)'
    BY <1>0, <1>2, DecidedForEver DEF Entered, Decided
  <2> QED BY <2>1, <2>2 DEF Untouched, Decided
<1> QED BY <1>1, <1>2

\* A test that passed has left one decision and one audit record for every
\* transaction, and no worker beside it takes them away again.
THEOREM PassedBatchIsDecided == LTSpec => []PassedMeansDecided
<1>1. LTInit => PassedInv
  BY DEF LTInit, PassedInv
<1>2. LedgerInv /\ PassedInv /\ [LTNext]_ltVars => PassedInv'
  <2> SUFFICES ASSUME LedgerInv, PassedInv, [LTNext]_ltVars, stage' = "passed",
                      NEW t \in present'
               PROVE  Entered(t)'
    BY DEF PassedInv
  <2>1. CASE Verify
    <3>1. Red = {}
      BY <2>1 DEF Verify
    <3>2. Checks.none_pending
      BY <3>1 DEF Red, Checks
    <3>3. t \in present /\ t \in Txn /\ UNCHANGED <<present, ledger>>
      BY <2>1 DEF Verify, vars, LedgerInv, TypeOK
    <3>4. Entered(t)
      BY <3>2, <3>3 DEF Checks, LedgerInv, LedgerIsWhole, Untouched
    <3> QED BY <3>3, <3>4 DEF Entered, WrittenEntry, ledger
  <2>2. CASE WorkerStep
    <3> PICK w \in Worker : Start(w) \/ Step(w) \/ FaultStep(w)
      BY <2>2 DEF WorkerStep
    <3>1. stage = "passed"
      BY <2>2 DEF WorkerStep, lt
    <3>2. present' = present /\ (Entered(t) => Entered(t)')
      BY WorkersKeepEntries DEF LedgerInv, TypeOK
    <3> QED BY <3>1, <3>2 DEF PassedInv
  <2>3. CASE UNCHANGED ltVars
    <3>1. UNCHANGED <<stage, present, ledger>>
      BY <2>3 DEF ltVars, lt, vars
    <3> QED BY <3>1 DEF PassedInv, Entered, WrittenEntry, ledger
  <2>4. CASE \/ SeedReset \/ SeedFails \/ SeedSkipped \/ CountSeeded \/ RunStarts
             \/ Poll \/ RunTripped \/ RunAborted
    BY <2>4 DEF SeedReset, SeedFails, SeedSkipped, CountSeeded, RunStarts, Poll,
                RunTripped, RunAborted
  <2> QED BY <2>1, <2>2, <2>3, <2>4 DEF LTNext, MainEnds
<1>3. LedgerInv /\ PassedInv => PassedMeansDecided
  <2> SUFFICES ASSUME LedgerInv, PassedInv, stage = "passed", NEW t \in present
               PROVE  decisions[t] # None /\ Len(audit[t]) = 1
    BY DEF PassedMeansDecided
  <2>1. Entered(t)
    BY DEF PassedInv
  <2>2. PICK p \in PermittedPlans(t) : WrittenEntry(t) = LedgerEntry(p)
    BY <2>1 DEF Entered, PermittedEntries
  <2>3. audit[t] = <<Snapshot(p)>>
    BY <2>2 DEF WrittenEntry, LedgerEntry
  <2> QED BY <2>1, <2>3 DEF Entered
<1> QED BY <1>1, <1>2, <1>3, LTLedgerInvariant, PTL DEF LTSpec
-----------------------------------------------------------------------------
(***************************************************************************)
(* A test in which nothing goes wrong.  Its run meets no error, so that it *)
(* leaves nothing of the batch undecided, and then every check is green.   *)
(***************************************************************************)
\* Nothing goes wrong in this test.
Clean == faults = 0 /\ Poison \cap present = {}

\* What is known of the run of the load test while nothing goes wrong.
CleanRun ==
  /\ pc[Harness] \in {"fetch", "ai", "batch", "tally", "completed"}
  /\ pc[Harness] # "completed" => conn[Harness] = "up"
  /\ failed[Harness] = {} /\ errorIds[Harness] = {}
  /\ page[Harness] \subseteq present
  /\ \A t \in present : Decided(t) \/ t \in backlog[Harness]
  /\ PageAccounted(Harness) /\ BacklogAccounted(Harness)

CleanInv ==
  /\ LedgerInv /\ PageErrors(Harness)
  /\ stage \in {"counted", "running"} => seededTotal = Cardinality(present)
  /\ stage = "running" /\ Clean => CleanRun
  /\ stage = "failed" /\ Clean => verdict = {"no_page_stalled"}

\* Action and status of a plan are a pair the test allows.
LEMMA RouteIsAllowed ==
  ASSUME NEW t \in Txn
  PROVE  <<Route[t].action, Route[t].final_status>> \in AllowedPairs
<1> DEFINE r == Row[t]
           p == PlanRow(r)
<1>1. r \in RowType /\ Route[t] = p
  BY WorkerAssumption DEF Route
<1>2. p.action \in Action
  BY <1>1, PlanRowType DEF RowPlan
<1>3. p.action = "retry_scheduled" => p.final_status \in {"recovered", "halted"}
  BY <1>1, PlannedRetry
<1>4. p.action # "retry_scheduled" =>
        p.final_status = IF p.action = "escalated" THEN "escalated" ELSE "halted"
  BY <1>1, PlanRowFields
<1> HIDE DEF p, r
<1> QED BY <1>1, <1>2, <1>3, <1>4 DEF Action, AllowedPairs

\* Every decided row has exactly one audit record and every other one has none.
LEMMA AuditRowsMatch ==
  ASSUME LedgerInv
  PROVE  Cardinality(AuditRows) = Cardinality(DecidedTxns)
<1> DEFINE f == [t \in DecidedTxns |-> <<t, 1>>]
<1>1. \A t \in Txn : audit[t] = <<>> \/ (Decided(t) /\ Len(audit[t]) = 1)
  BY EnteredAsPlanned DEF LedgerInv, LedgerIsWhole, Untouched, Entered, Decided
<1>2. \A t \in DecidedTxns : t \in Txn /\ Len(audit[t]) = 1
  BY EnteredAsPlanned DEF DecidedTxns, LedgerInv, LedgerIsWhole, Untouched
<1>3. \A t \in Txn : 1..Len(audit[t]) = IF t \in DecidedTxns THEN {1} ELSE {}
  <2> TAKE t \in Txn
  <2>1. CASE t \in DecidedTxns
    <3>1. 1..1 = {1} /\ Len(audit[t]) = 1
      BY <1>2, <2>1
    <3> QED BY <2>1, <3>1
  <2>2. CASE t \notin DecidedTxns
    <3>1. Len(audit[t]) = 0
      BY <1>1, <2>2 DEF DecidedTxns, Decided
    <3> QED BY <2>2, <3>1
  <2> QED BY <2>1, <2>2
<1>4. AuditRows = {<<t, 1>> : t \in DecidedTxns}
  BY <1>2, <1>3 DEF AuditRows
<1>5. f \in Bijection(DecidedTxns, AuditRows)
  <2>1. f \in [DecidedTxns -> AuditRows]
    BY <1>4
  <2>2. IsInjective(f)
    BY DEF IsInjective
  <2>3. \A a \in AuditRows : \E t \in DecidedTxns : f[t] = a
    BY <1>4
  <2> QED BY <2>1, <2>2, <2>3 DEF Bijection, Injection, Surjection
<1>6. IsFiniteSet(DecidedTxns)
  BY WorkerAssumption, FS_Subset DEF DecidedTxns
<1> QED BY <1>5, <1>6, FS_Bijection DEF ExistsBijection

\* When the run met no error and left nothing undecided, no check fails.
LEMMA ChecksAreGreen ==
  ASSUME LedgerInv, errorIds[Harness] = {}, Cardinality(present) = seededTotal,
         \A t \in present : Decided(t)
  PROVE  Red = {}
<1>1. present \in SUBSET Txn
  BY DEF LedgerInv, TypeOK
<1>2. \A t \in Txn : Decided(t) => Entered(t)
  BY DEF LedgerInv, LedgerIsWhole, Untouched, Decided
<1>3. DecidedTxns = present
  BY <1>1, <1>2 DEF DecidedTxns, Decided, Entered
<1>4. \A t \in DecidedTxns : t \in Txn /\ Entered(t)
  BY <1>2 DEF DecidedTxns, Decided
<1>5. \A t \in present : status[t] # "pending"
  BY <1>3, <1>4, EnteredAsPlanned
<1>6. \A t \in DecidedTxns : <<decisions[t].action_taken, status[t]>> \in AllowedPairs
  BY <1>4, EnteredAsPlanned, RouteIsAllowed
<1>7. \A t \in DecidedTxns : /\ audit[t] # <<>>
                             /\ decisions[t].action_taken = Route[t].action
                             /\ decisions[t].rule_fired = Route[t].rule_fired
  BY <1>4, EnteredAsPlanned
<1>8. Cardinality(AuditRows) = Cardinality(DecidedTxns)
  BY AuditRowsMatch
<1>9. /\ Checks.no_errored_rows /\ Checks.all_seeded /\ Checks.none_pending
      /\ Checks.one_decision_each /\ Checks.one_audit_row_each
      /\ Checks.status_matches_action /\ Checks.stops_are_traceable
      /\ Checks.rules_match_decisions
  <2>1. Checks.no_errored_rows /\ Checks.all_seeded
    BY DEF Checks
  <2>2. Checks.none_pending
    BY <1>5 DEF Checks
  <2>3. Checks.one_decision_each
    BY <1>3 DEF Checks
  <2>4. Checks.one_audit_row_each
    BY <1>8 DEF Checks
  <2>5. Checks.status_matches_action
    BY <1>6 DEF Checks
  <2>6. Checks.stops_are_traceable /\ Checks.rules_match_decisions
    BY <1>7 DEF Checks
  <2> QED BY <2>1, <2>2, <2>3, <2>4, <2>5, <2>6
<1>10. DOMAIN Checks = {"no_errored_rows", "all_seeded", "none_pending", "one_decision_each",
                       "one_audit_row_each", "status_matches_action", "stops_are_traceable",
                       "rules_match_decisions"}
  BY DEF Checks
<1> QED BY <1>9, <1>10 DEF Red

\* A step of the worker keeps what is known of where its rows are.
LEMMA RunStepKeeps ==
  ASSUME NEW w \in Worker, RunInv(w), Step(w)
  PROVE  PageAccounted(w)' /\ BacklogAccounted(w)'
BY FetchPageKeeps, FetchEmptyKeeps, PageTalliedKeeps, WritingKeeps, EdgesKeep DEF Step

\* No row of a clean run raises, its connection is up, and its page has no
\* errors: of its steps the ones that meet an error are not enabled.
LEMMA CleanStepIs ==
  ASSUME LedgerInv, PageErrors(Harness), Clean, CleanRun, Step(Harness)
  PROVE  \/ FetchPage(Harness) \/ FetchEmpty(Harness) \/ ApplyAI(Harness)
         \/ BatchRow(Harness) \/ BatchCommits(Harness) \/ PageTallied(Harness)
<1>1. Harness \in Worker /\ MaxPages[Harness] = None
  BY HarnessAssumption
<1>2. ~FetchRaises(Harness)
  BY DEF FetchRaises, CleanRun
<1>3. ~PageLimitReached(Harness)
  BY <1>1 DEF PageLimitReached, PagesLeft
<1>4. ~RowWrites(Harness) /\ ~RowFails(Harness)
  BY DEF RowWrites, RowFails, CleanRun
<1>5. ~BatchFails(Harness)
  <2>1. todo[Harness] \subseteq present
    BY DEF PageErrors, CleanRun
  <2>2. \A t \in First(todo[Harness]) : ~Raises(t)
    BY <2>1 DEF First, Raises, Clean
  <2> QED BY <2>2 DEF BatchFails
<1>6. ~BreakerTrips(Harness)
  <2>1. Cardinality(failed[Harness]) = 0
    BY FS_EmptySet DEF CleanRun
  <2>2. ThresholdPct \in Nat /\ Cardinality(page[Harness]) \in Nat
    BY <1>1, WorkerAssumption, RunSetsFinite
  <2>3. ThresholdPct * Cardinality(page[Harness]) \in Nat
    BY <2>2
  <2>4. ~(0 * 100 > ThresholdPct * Cardinality(page[Harness]))
    BY <2>3
  <2> QED BY <2>1, <2>4 DEF BreakerTrips, PageTripped, Tripped
<1> QED BY <1>2, <1>3, <1>4, <1>5, <1>6 DEF Step

LEMMA CleanStep ==
  ASSUME LedgerInv, PageErrors(Harness), Clean, CleanRun, Step(Harness)
  PROVE  CleanRun'
<1> DEFINE H == Harness
<1>0. H \in Worker
  BY HarnessAssumption
<1> HIDE DEF H
<1>1. [Next]_vars
  BY <1>0 DEF Next, H
<1>2. PageAccounted(H)' /\ BacklogAccounted(H)'
  BY <1>0, RunStepKeeps DEF RunInv, CleanRun, H
<1>3. present' = present
  BY <1>0, WorkersKeepEntries DEF H
<1>4. present \in SUBSET Txn /\ \A t \in Txn : Decided(t) => Decided(t)'
  BY <1>1, DecidedForEver DEF LedgerInv, TypeOK
<1>5. ASSUME backlog'[H] = backlog[H], page'[H] \subseteq present,
             failed'[H] = {}, errorIds'[H] = {},
             pc'[H] \in {"fetch", "ai", "batch", "tally", "completed"},
             pc'[H] # "completed" => conn'[H] = "up"
      PROVE  CleanRun'
  <2>1. \A t \in present' : Decided(t)' \/ t \in backlog'[H]
    BY <1>3, <1>4, <1>5 DEF CleanRun, H
  <2> QED BY <1>2, <1>3, <1>5, <2>1 DEF CleanRun, H
<1>6. /\ failed[H] = {} /\ errorIds[H] = {} /\ page[H] \subseteq present
      /\ pc[H] # "completed" => conn[H] = "up"
  BY DEF CleanRun, H
<1> USE DEF LedgerInv, TypeOK
<1>7. CASE FetchPage(H)
  <2>1. \A last : UpTo(Eligible(cursor[H]), last) \subseteq present
    BY DEF UpTo, Eligible, Undecided
  <2>2. page'[H] \subseteq present
    BY <1>0, <1>7, <2>1 DEF FetchPage
  <2>3. pc'[H] = "ai" /\ UNCHANGED <<backlog, failed, errorIds, conn>> /\ pc[H] = "fetch"
    BY <1>0, <1>7 DEF FetchPage, writing, totals
  <2> QED BY <1>5, <1>6, <2>2, <2>3
<1>8. CASE FetchEmpty(H)
  <2>1. pc'[H] = "completed" /\ page'[H] = {} /\ failed'[H] = {}
        /\ UNCHANGED <<backlog, errorIds>>
    BY <1>0, <1>8 DEF FetchEmpty, Finish, Forget
  <2> QED BY <1>5, <1>6, <2>1
<1>9. CASE ApplyAI(H)
  <2>1. pc'[H] = "batch" /\ pc[H] = "ai" /\ UNCHANGED <<backlog, failed, errorIds, conn, page>>
    BY <1>0, <1>9 DEF ApplyAI, paging, totals
  <2> QED BY <1>5, <1>6, <2>1
<1>10. CASE BatchRow(H)
  <2>1. pc'[H] = "batch" /\ pc[H] = "batch"
        /\ UNCHANGED <<backlog, failed, errorIds, conn, page>>
    BY <1>0, <1>10 DEF BatchRow, paging, totals
  <2> QED BY <1>5, <1>6, <2>1
<1>11. CASE BatchCommits(H)
  <2>1. pc'[H] = "tally" /\ pc[H] = "batch"
        /\ UNCHANGED <<backlog, failed, errorIds, conn, page>>
    BY <1>0, <1>11 DEF BatchCommits, paging, totals
  <2> QED BY <1>5, <1>6, <2>1
<1>12. CASE PageTallied(H)
  <2>1. /\ pc'[H] = "fetch" /\ page'[H] = {} /\ failed'[H] = {}
        /\ errorIds'[H] = errorIds[H] \cup failed[H]
        /\ UNCHANGED <<backlog, conn>> /\ pc[H] # "completed"
    BY <1>0, <1>12 DEF PageTallied, Tally, PageWritten
  <2> QED BY <1>5, <1>6, <2>1
<1> QED BY <1>7, <1>8, <1>9, <1>10, <1>11, <1>12, CleanStepIs DEF H

\* What another worker writes meanwhile is decided in the place of the run.
LEMMA CleanBesideOthers ==
  ASSUME LedgerInv, CleanRun, [Next]_vars, UNCHANGED RunState(Harness), present' = present
  PROVE  CleanRun'
<1>0. Harness \in Worker
  BY HarnessAssumption
<1>1. PageAccounted(Harness)' /\ BacklogAccounted(Harness)'
  BY <1>0, RunUntouched DEF CleanRun
<1>2. \A t \in present : Decided(t) => Decided(t)'
  BY DecidedForEver DEF LedgerInv, TypeOK
<1> QED BY <1>1, <1>2 DEF CleanRun, RunState

\* A clean test starts its run with all of the batch ahead of it.
LEMMA CleanStart ==
  ASSUME LedgerInv, PageErrors(Harness), RunStarts
  PROVE  CleanRun'
<1>0. Harness \in Worker /\ Start(Harness)
  BY HarnessAssumption DEF RunStarts
<1>1. page[Harness] = {} /\ failed[Harness] = {}
  BY <1>0 DEF Start, PageErrors
<1>2. PageAccounted(Harness)' /\ BacklogAccounted(Harness)'
  BY <1>0, <1>1, StartKeeps
<1>3. /\ pc'[Harness] = "fetch" /\ conn'[Harness] = "up" /\ errorIds'[Harness] = {}
      /\ backlog'[Harness] = Undecided
      /\ UNCHANGED <<page, failed, present, decisions>>
  BY <1>0 DEF Start, writing, ledger, LedgerInv, TypeOK
<1>4. \A t \in present : Decided(t) \/ t \in Undecided
  BY DEF LedgerInv, TypeOK, LedgerIsWhole, Untouched, Entered, Undecided, Decided
<1> QED BY <1>1, <1>2, <1>3, <1>4 DEF CleanRun, Decided


\* A fault is counted, and no other step of a worker counts one.
LEMMA FaultsAreCounted ==
  ASSUME NEW w \in Worker
  PROVE  /\ FaultStep(w) => faults' = faults + 1
         /\ Start(w) \/ Step(w) => faults' = faults
<1>1. FaultStep(w) => faults' = faults + 1
  BY DEF FaultStep, FetchFault, BatchFault, BatchAckLost, RowFault, RowAckLost, Kill, Fault
<1>2. Start(w) => faults' = faults
  BY DEF Start
<1>3. Step(w) => faults' = faults
  BY DEF Step, FetchPage, FetchEmpty, PageLimitReached, FetchRaises, ApplyAI, BatchRow,
         BatchCommits, BatchFails, RowWrites, RowFails, PageTallied, BreakerTrips, Tally,
         Finish, Abort, bounds
<1> QED BY <1>1, <1>2, <1>3

\* Only a reset changes the batch; what is clean after another step was so
\* before, and the step was no fault.
LEMMA CleanWas ==
  ASSUME LedgerInv, [LTNext]_ltVars, ~SeedReset
  PROVE  present' = present /\ (Clean' => Clean /\ faults' = faults)
<1>1. CASE WorkerStep
  <2> PICK w \in Worker : Start(w) \/ Step(w) \/ FaultStep(w)
    BY <1>1 DEF WorkerStep
  <2>1. present' = present
    BY WorkersKeepEntries
  <2>2. faults' = faults \/ faults' = faults + 1
    BY FaultsAreCounted
  <2> QED BY <2>1, <2>2 DEF Clean, LedgerInv, TypeOK
<1>2. CASE RunStarts
  <2>1. Harness \in Worker /\ Start(Harness)
    BY <1>2, HarnessAssumption DEF RunStarts
  <2> QED BY <2>1, WorkersKeepEntries, FaultsAreCounted DEF Clean
<1>3. CASE SeedFails
  BY <1>3 DEF SeedFails, Fault, Clean, LedgerInv, TypeOK
<1>4. CASE SeedSkipped \/ CountSeeded \/ Poll \/ MainEnds \/ UNCHANGED ltVars
  <2>1. UNCHANGED <<present, faults>>
    BY <1>4 DEF SeedSkipped, CountSeeded, Poll, MainEnds, Verify, RunTripped, RunAborted,
                ltVars, vars, bounds
  <2> QED BY <2>1 DEF Clean
<1> QED BY <1>1, <1>2, <1>3, <1>4 DEF LTNext

\* The run of the load test is no exception to what holds of every page.
LEMMA HarnessPageErrors ==
  ASSUME LedgerInv, PageErrors(Harness), [LTNext]_ltVars
  PROVE  PageErrors(Harness)'
<1>0. Harness \in Worker
  BY HarnessAssumption
<1>1. CASE UNCHANGED RunState(Harness)
  BY <1>1 DEF PageErrors, RunState
<1>2. SeedReset \/ SeedFails => UNCHANGED RunState(Harness)
  BY DEF SeedReset, SeedFails, RunState, paging, writing, totals
<1>3. [Next]_vars => \/ UNCHANGED RunState(Harness)
                     \/ Start(Harness) \/ Step(Harness) \/ FaultStep(Harness)
  BY <1>0, StepOfRun
<1> QED BY <1>0, <1>1, <1>2, <1>3, LTStepIs, StepPageErrors

\* While the test runs, its run stays clean.
LEMMA RunStaysClean ==
  ASSUME CleanInv, [LTNext]_ltVars, stage' = "running", Clean'
  PROVE  CleanRun'
<1>0. ~SeedReset
  BY DEF SeedReset
<1>1. Clean /\ faults' = faults /\ present' = present /\ LedgerInv
  BY <1>0, CleanWas DEF CleanInv
<1>2. faults' # faults + 1
  BY <1>1 DEF LedgerInv, TypeOK
<1>3. CASE RunStarts
  BY <1>3, CleanStart DEF CleanInv
<1>4. CASE Poll \/ UNCHANGED ltVars
  <2>1. stage = "running" /\ UNCHANGED vars
    BY <1>4 DEF Poll, ltVars, lt
  <2>2. UNCHANGED RunState(Harness)
    BY <2>1 DEF vars, RunState, paging, writing, totals
  <2> QED BY <1>1, <2>1, <2>2, CleanBesideOthers DEF CleanInv
<1>5. CASE WorkerStep
  <2>1. stage = "running" /\ CleanRun
    BY <1>1, <1>5 DEF WorkerStep, lt, CleanInv
  <2> PICK w \in Worker : \/ w # Harness /\ Start(w)
                          \/ Step(w) \/ FaultStep(w)
    BY <1>5 DEF WorkerStep
  <2>2. CASE w = Harness
    <3>1. Step(Harness)
      BY <1>1, <1>2, <2>2, FaultsAreCounted
    <3> QED BY <1>1, <2>1, <3>1, CleanStep DEF CleanInv
  <2>3. CASE w # Harness
    <3>1. UNCHANGED RunState(Harness) /\ [Next]_vars
      BY <1>1, <2>3, HarnessAssumption, OthersUntouched DEF Next
    <3> QED BY <1>1, <2>1, <3>1, CleanBesideOthers
  <2> QED BY <2>2, <2>3
<1>6. ~(SeedFails \/ SeedSkipped \/ CountSeeded \/ MainEnds)
  BY DEF SeedFails, SeedSkipped, CountSeeded, MainEnds, Verify, RunTripped, RunAborted
<1> QED BY <1>0, <1>3, <1>4, <1>5, <1>6 DEF LTNext

\* A clean run that has completed is found green, and does not trip.
LEMMA CleanVerdict ==
  ASSUME CleanInv, [LTNext]_ltVars, stage' = "failed", Clean'
  PROVE  verdict' = {"no_page_stalled"}
<1>0. ~SeedReset
  BY DEF SeedReset
<1>1. Clean /\ LedgerInv
  BY <1>0, CleanWas DEF CleanInv
<1>2. CASE Verify
  <2>1. stage = "running" /\ pc[Harness] = "completed" /\ CleanRun
    BY <1>1, <1>2 DEF Verify, CleanInv
  <2>2. \A t \in present : Decided(t)
    BY <2>1 DEF CleanRun, BacklogAccounted, Running
  <2>3. errorIds[Harness] = {} /\ Cardinality(present) = seededTotal
    BY <2>1 DEF CleanRun, CleanInv
  <2>4. Red = {}
    BY <1>1, <2>2, <2>3, ChecksAreGreen
  <2>5. \E stalled \in Stalls : verdict' = Red \cup stalled /\ verdict' # {}
    BY <1>2 DEF Verify
  <2> QED BY <2>4, <2>5 DEF Stalls
<1>3. ~RunTripped
  BY <1>1 DEF RunTripped, CleanInv, CleanRun
<1>4. CASE WorkerStep \/ UNCHANGED ltVars
  <2>1. stage = "failed" /\ verdict' = verdict
    BY <1>4 DEF WorkerStep, ltVars, lt
  <2> QED BY <1>1, <2>1 DEF CleanInv
<1>5. ~(SeedFails \/ SeedSkipped \/ CountSeeded \/ RunStarts \/ RunAborted)
  BY DEF SeedFails, SeedSkipped, CountSeeded, RunStarts, RunAborted
<1>6. ~Poll
  BY DEF Poll
<1> QED BY <1>0, <1>2, <1>3, <1>4, <1>5, <1>6 DEF LTNext, MainEnds

\* While the batch is counted and worked on it stays as large as it was.
LEMMA BatchIsCounted ==
  ASSUME CleanInv, [LTNext]_ltVars, stage' \in {"counted", "running"}
  PROVE  (seededTotal = Cardinality(present))'
<1>1. CASE CountSeeded
  <2>1. present' = present
    BY <1>1 DEF CountSeeded, vars
  <2> QED BY <1>1, <2>1 DEF CountSeeded
<1>2. CASE RunStarts \/ Poll \/ WorkerStep \/ UNCHANGED ltVars
  <2>1. stage \in {"counted", "running"} /\ seededTotal' = seededTotal /\ ~SeedReset
    BY <1>2 DEF RunStarts, Poll, WorkerStep, ltVars, lt, SeedReset
  <2>2. present' = present
    BY <2>1, CleanWas DEF CleanInv
  <2> QED BY <2>1, <2>2 DEF CleanInv
<1>3. ~(SeedReset \/ SeedFails \/ SeedSkipped \/ MainEnds)
  BY DEF SeedReset, SeedFails, SeedSkipped, MainEnds, Verify, RunTripped, RunAborted, Over
<1> QED BY <1>1, <1>2, <1>3 DEF LTNext

\* Without a fault and a row that cannot be written the load test fails for
\* nothing but a stall, whatever the workers beside it do with the batch.
THEOREM CleanTestsPass == LTSpec => []CleanTestPasses
<1>1. LTInit => CleanInv
  <2> SUFFICES ASSUME LTInit PROVE CleanInv
    OBVIOUS
  <2>1. LedgerInv
    BY InitLedgerInv DEF LTInit
  <2>2. PageErrors(Harness)
    BY WorkerAssumption, HarnessAssumption, FS_EmptySet DEF LTInit, Init, PageErrors
  <2> QED BY <2>1, <2>2 DEF LTInit, CleanInv
<1>2. CleanInv /\ [LTNext]_ltVars => CleanInv'
  <2> SUFFICES ASSUME CleanInv, [LTNext]_ltVars PROVE CleanInv'
    OBVIOUS
  <2>1. LedgerInv' /\ PageErrors(Harness)'
    BY LTStepLedgerInv, HarnessPageErrors DEF CleanInv
  <2>2. stage' = "running" /\ Clean' => CleanRun'
    BY RunStaysClean
  <2>3. stage' = "failed" /\ Clean' => verdict' = {"no_page_stalled"}
    BY CleanVerdict
  <2>4. stage' \in {"counted", "running"} => (seededTotal = Cardinality(present))'
    BY BatchIsCounted
  <2> QED BY <2>1, <2>2, <2>3, <2>4 DEF CleanInv
<1>3. CleanInv => CleanTestPasses
  BY DEF CleanInv, CleanTestPasses, Clean
<1> QED BY <1>1, <1>2, <1>3, PTL DEF LTSpec

-----------------------------------------------------------------------------
(***************************************************************************)
(* The pages the monitor times.                                            *)
(***************************************************************************)
\* How many pages the current run of the harness has completed.
Done == IF pc[Harness] \in Running \ {"fetch"} THEN pages[Harness] - 1
                                               ELSE pages[Harness]

ReportsOwnPages ==
  /\ \A w \in Worker \ {Harness} : pc[w] = "idle"
  /\ progress # None => progress.pages_done <= Done

(***************************************************************************)
(* How far MonitorTimesPages fails: the test whose run is the first one to *)
(* use the progress file times its pages right.                            *)
(***************************************************************************)
FirstRunIsTimed ==
  runs <= 1 /\ (stage = "counted" => runs = 0) => MonitorTimesPages

MonitorInv ==
  /\ runs = 0 => progress = None /\ \A w \in Worker : pc[w] = "idle"
  /\ stage = "running" => runs # 0
  /\ stage = "running" /\ runs = 1 => ReportsOwnPages
  /\ FirstRunIsTimed

\* A worker that has not been started takes no step.
LEMMA IdleTakesNoStep ==
  ASSUME NEW w \in Worker, Step(w) \/ FaultStep(w)
  PROVE  pc[w] # "idle" /\ runs' = runs
BY DEF Step, FaultStep, FetchPage, FetchEmpty, PageLimitReached, FetchRaises, ApplyAI,
       BatchRow, BatchCommits, BatchFails, RowWrites, RowFails, PageTallied, BreakerTrips,
       FetchFault, BatchFault, BatchAckLost, RowFault, RowAckLost, Kill, Finish, Abort,
       RetryRows, RowError, Tally, PageWritten, Running, bounds

\* The harness never reports a page that it has not completed.
LEMMA HarnessReports ==
  ASSUME LedgerInv, progress # None => progress.pages_done <= Done,
         Step(Harness) \/ FaultStep(Harness), progress' # None
  PROVE  progress'.pages_done <= Done'
<1> DEFINE w == Harness
<1>0. /\ w \in Worker /\ pages[w] \in Nat /\ pc \in [Worker -> Running \cup Ended]
      /\ pages \in [Worker -> Nat]
      /\ progress # None => progress.pages_done \in Nat
  BY HarnessAssumption DEF LedgerInv, TypeOK, ProgressType
<1> USE DEF Running
<1>1. CASE FetchEmpty(w) \/ PageLimitReached(w)
  BY <1>0, <1>1 DEF FetchEmpty, PageLimitReached, Finish, Report, Done
<1>2. CASE PageTallied(w) \/ BreakerTrips(w)
  BY <1>0, <1>2 DEF PageTallied, BreakerTrips, Tally, Report, Done
<1>3. CASE FetchPage(w)
  BY <1>0, <1>3 DEF FetchPage, totals, Done
<1>4. CASE ApplyAI(w) \/ BatchRow(w) \/ BatchCommits(w) \/ RowWrites(w)
  BY <1>0, <1>4 DEF ApplyAI, BatchRow, BatchCommits, RowWrites, totals, paging, Done
<1>5. CASE BatchFails(w) \/ BatchFault(w) \/ BatchAckLost(w)
  BY <1>0, <1>5 DEF BatchFails, BatchFault, BatchAckLost, RetryRows, totals, paging, Done
<1>6. CASE RowFails(w) \/ RowFault(w) \/ RowAckLost(w)
  BY <1>0, <1>6 DEF RowFails, RowFault, RowAckLost, RowError, totals, paging, Done
<1>7. CASE FetchRaises(w) \/ FetchFault(w) \/ Kill(w)
  BY <1>0, <1>7 DEF FetchRaises, FetchFault, Kill, Abort, totals, Done
<1> QED BY <1>1, <1>2, <1>3, <1>4, <1>5, <1>6, <1>7 DEF Step, FaultStep

LEMMA MonitorStep == LedgerInv /\ MonitorInv /\ [LTNext]_ltVars => MonitorInv'
<1> SUFFICES ASSUME LedgerInv, MonitorInv, [LTNext]_ltVars PROVE MonitorInv'
  OBVIOUS
<1>0. /\ runs \in Nat /\ Harness \in Worker /\ pc \in [Worker -> Running \cup Ended]
      /\ pages[Harness] \in Nat
  BY HarnessAssumption DEF LedgerInv, TypeOK
<1>1. ASSUME UNCHANGED <<runs, progress, pc, pages>>, stage' # "running",
             \/ UNCHANGED timed /\ stage' # "counted" /\ stage # "counted"
             \/ timed' = {}
      PROVE  MonitorInv'
  BY <1>1 DEF MonitorInv, FirstRunIsTimed, MonitorTimesPages
<1>2. CASE SeedReset \/ SeedFails \/ SeedSkipped
  BY <1>1, <1>2 DEF SeedReset, SeedFails, SeedSkipped, Over, vars, paging, totals, bounds
<1>3. CASE CountSeeded
  BY <1>1, <1>3 DEF CountSeeded, vars, paging, totals, bounds
<1>4. CASE MainEnds
  <2>1. stage = "running" /\ stage' \in Over /\ UNCHANGED timed /\ UNCHANGED vars
    BY <1>4 DEF MainEnds, Verify, RunTripped, RunAborted, Over
  <2> QED BY <1>1, <2>1 DEF Over, vars, paging, totals, bounds
<1>5. CASE RunStarts
  <2>1. /\ stage = "counted" /\ stage' = "running" /\ UNCHANGED <<timed, progress>>
        /\ runs' = runs + 1 /\ pc' = [pc EXCEPT ![Harness] = "fetch"]
    BY <1>5 DEF RunStarts, Start
  <2>2. runs' <= 1 => runs = 0
    BY <1>0, <2>1
  <2>3. FirstRunIsTimed'
    BY <2>1, <2>2 DEF MonitorInv, FirstRunIsTimed, MonitorTimesPages
  <2>4. runs' = 1 => ReportsOwnPages'
    BY <1>0, <2>1, <2>2 DEF MonitorInv, ReportsOwnPages
  <2> QED BY <1>0, <2>1, <2>3, <2>4 DEF MonitorInv
<1>6. CASE Poll
  <2>1. /\ stage \in {"counted", "running"} /\ progress # None
        /\ timed' = timed \cup {<<progress.pages_done, Completed>>}
        /\ UNCHANGED <<stage, runs, progress, pc, pages>>
    BY <1>6 DEF Poll, vars, paging, totals, bounds
  <2>2. runs # 0
    BY <2>1 DEF MonitorInv
  <2>3. ASSUME runs <= 1, stage # "counted"
        PROVE  MonitorTimesPages'
    <3>1. stage = "running" /\ runs = 1
      BY <1>0, <2>1, <2>2, <2>3
    <3>2. Completed = Done /\ progress.pages_done <= Done
      BY <2>1, <3>1 DEF MonitorInv, ReportsOwnPages, Completed, Done
    <3>3. MonitorTimesPages
      BY <2>3 DEF MonitorInv, FirstRunIsTimed
    <3> QED BY <2>1, <3>2, <3>3 DEF MonitorTimesPages
  <2>4. ReportsOwnPages' <=> ReportsOwnPages
    BY <2>1 DEF ReportsOwnPages, Done
  <2> QED BY <2>1, <2>2, <2>3, <2>4 DEF MonitorInv, FirstRunIsTimed
<1>7. CASE WorkerStep
  <2>1. UNCHANGED <<stage, timed>>
    BY <1>7 DEF WorkerStep, lt
  <2>2. MonitorTimesPages' <=> MonitorTimesPages
    BY <2>1 DEF MonitorTimesPages
  <2>3. ASSUME NEW w \in Worker \ {Harness}, Start(w) PROVE MonitorInv'
    <3>1. runs' = runs + 1 /\ progress' = progress
      BY <2>3 DEF Start
    <3>2. CASE runs = 0
      <4>1. stage # "running"
        BY <3>2 DEF MonitorInv
      <4> QED BY <1>0, <2>1, <2>2, <3>1, <3>2, <4>1 DEF MonitorInv, FirstRunIsTimed
    <3>3. CASE runs # 0
      BY <1>0, <2>1, <3>1, <3>3 DEF MonitorInv, FirstRunIsTimed
    <3> QED BY <3>2, <3>3
  <2>4. ASSUME NEW w \in Worker, Step(w) \/ FaultStep(w) PROVE MonitorInv'
    <3>1. runs' = runs /\ runs # 0
      BY <2>4, IdleTakesNoStep DEF MonitorInv
    <3>2. ASSUME stage = "running", runs = 1 PROVE ReportsOwnPages'
      <4>1. w = Harness /\ ReportsOwnPages
        BY <2>4, <3>2, IdleTakesNoStep DEF MonitorInv, ReportsOwnPages
      <4>2. \A v \in Worker \ {Harness} : pc'[v] = pc[v]
        BY <2>4, <4>1, OthersUntouched DEF RunState
      <4>3. progress' # None => progress'.pages_done <= Done'
        BY <2>4, <4>1, HarnessReports DEF ReportsOwnPages
      <4> QED BY <4>1, <4>2, <4>3 DEF ReportsOwnPages
    <3> QED BY <2>1, <2>2, <3>1, <3>2 DEF MonitorInv, FirstRunIsTimed
  <2> QED BY <1>7, <2>3, <2>4 DEF WorkerStep
<1>8. CASE UNCHANGED ltVars
  BY <1>8 DEF ltVars, lt, vars, paging, totals, bounds, MonitorInv, FirstRunIsTimed,
              MonitorTimesPages, ReportsOwnPages, Done
<1> QED BY <1>2, <1>3, <1>4, <1>5, <1>6, <1>7, <1>8 DEF LTNext

\* The first run that uses a progress file has its pages timed right; only a
\* report that was there before it, or that another worker writes, is mistaken.
THEOREM FirstRunIsTimedRight == LTSpec => []FirstRunIsTimed
<1>1. LTInit => MonitorInv
  BY DEF LTInit, Init, MonitorInv, FirstRunIsTimed, MonitorTimesPages
<1>2. MonitorInv => FirstRunIsTimed
  BY DEF MonitorInv
<1> QED BY <1>1, <1>2, MonitorStep, LTLedgerInvariant, PTL DEF LTSpec
=============================================================================
