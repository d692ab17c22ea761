----------------------------- MODULE LoadTest ------------------------------
(***************************************************************************)
(* main() of scripts/load_test.py around run() of src/worker.py: it seeds  *)
(* a new batch over the old one (scripts/seed.py --reset), counts it, runs *)
(* the worker while a thread polls worker_progress.json, and judges the    *)
(* tables.  Other workers, started before or during the test, go on        *)
(* working on the same database and write the same progress file.          *)
(***************************************************************************)
EXTENDS RecoveryWorker

CONSTANTS Harness,   \* the worker the load test calls run() in
          NewBatch   \* the transactions its seeder generates

ASSUME HarnessAssumption ==
  /\ Harness \in Worker
  /\ NewBatch \subseteq Txn \ InitialTxns
  /\ MaxPages[Harness] = None /\ CircuitBreaker

VARIABLES stage,        \* where main() is
          seededTotal,  \* seeded_total
          timed,        \* monitor.page_completed_at: <<page, time>>
          verdict,      \* the checks that failed
          erased        \* history: decided transactions that were truncated

lt     == <<stage, seededTotal, timed, verdict, erased>>
ltVars == <<vars, lt>>

Over  == {"passed", "failed", "aborted"}
Stage == {"idle", "seeded", "counted", "running"} \cup Over

LTInit ==
  /\ Init
  /\ stage = "idle" /\ seededTotal = 0
  /\ timed = {} /\ verdict = {} /\ erased = {}

(***************************************************************************)
(* _seed: TRUNCATE and the inserts of the new batch are one transaction.   *)
(* Its exclusive locks wait for every open transaction of a worker; a page *)
(* a worker has only read is no obstacle.                                  *)
(***************************************************************************)
\* Mutant: TRUNCATE leaves audit_log alone.
SeedResetKeepsAudit ==
  /\ stage \in {"idle"} \cup Over /\ present # NewBatch
  /\ \A w \in Worker : staged[w] = {}
  /\ stage' = "seeded"
  /\ present' = NewBatch
  /\ decisions' = [t \in Txn |-> None]
  /\ status' = [t \in Txn |-> "pending"]
  /\ attempts' = [t \in Txn |-> Row[t].attempt_count]
  /\ erased' = erased \cup {t \in Txn : decisions[t] # None}
  /\ UNCHANGED <<paging, writing, totals, bounds, pc, conn, aiCache, audit,
                 seededTotal, timed, verdict>>

SeedReset ==
  /\ stage \in {"idle"} \cup Over /\ present # NewBatch
  /\ \A w \in Worker : staged[w] = {}
  /\ stage' = "seeded"
  /\ present' = NewBatch
  /\ decisions' = [t \in Txn |-> None]
  /\ audit' = [t \in Txn |-> <<>>]
  /\ status' = [t \in Txn |-> "pending"]
  /\ attempts' = [t \in Txn |-> Row[t].attempt_count]
  /\ erased' = erased \cup {t \in Txn : decisions[t] # None}
  /\ UNCHANGED <<paging, writing, totals, bounds, pc, conn, aiCache,
                 seededTotal, timed, verdict>>

\* The seeder fails and the load test exits.
SeedFails ==
  /\ stage \in {"idle"} \cup Over
  /\ Fault
  /\ stage' = "aborted"
  /\ UNCHANGED <<present, ledger, paging, writing, totals, runs, pc, conn,
                 aiCache, seededTotal, timed, verdict, erased>>

\* --no-seed: the data that is there is used.
SeedSkipped ==
  /\ stage \in {"idle"} \cup Over
  /\ stage' = "seeded"
  /\ UNCHANGED <<vars, seededTotal, timed, verdict, erased>>

\* The transactions are counted and the monitor is started.
CountSeeded ==
  /\ stage = "seeded"
  /\ stage' = "counted"
  /\ seededTotal' = Cardinality(present)
  /\ timed' = {} /\ verdict' = {}
  /\ UNCHANGED <<vars, erased>>

RunStarts ==
  /\ stage = "counted"
  /\ Start(Harness)
  /\ stage' = "running"
  /\ UNCHANGED <<seededTotal, timed, verdict, erased>>

(***************************************************************************)
(* _ProgressMonitor.run: whatever the file says now.  Time is counted in   *)
(* the pages the run has completed.                                        *)
(***************************************************************************)
Completed ==
  CASE stage = "counted" -> 0
    [] stage # "counted" /\ pc[Harness] \in Running \ {"fetch"} -> pages[Harness] - 1
    [] OTHER -> pages[Harness]

\* Mutant: the time of a page is taken again at every poll.
PollAgain ==
  /\ stage \in {"counted", "running"}
  /\ progress # None /\ progress.pages_done # 0
  /\ timed' = {r \in timed : r[1] # progress.pages_done}
                \cup {<<progress.pages_done, Completed>>}
  /\ UNCHANGED <<vars, stage, seededTotal, verdict, erased>>

Poll ==
  /\ stage \in {"counted", "running"}
  /\ progress # None /\ progress.pages_done # 0
  /\ \A r \in timed : r[1] # progress.pages_done
  /\ timed' = timed \cup {<<progress.pages_done, Completed>>}
  /\ UNCHANGED <<vars, stage, seededTotal, verdict, erased>>

(***************************************************************************)
(* The end of main(): _verify_db and _spot_check, as one step.  Another    *)
(* worker can change the tables between two of their queries only when a   *)
(* row is left to it, and then the first of them has failed the test.      *)
(***************************************************************************)
DecidedTxns == {t \in Txn : decisions[t] # None}

AuditRows == UNION {{t} \X (1..Len(audit[t])) : t \in Txn}

AllowedPairs ==
  {<<"retry_scheduled", "recovered">>, <<"retry_scheduled", "halted">>,
   <<"reauth_link_sent", "halted">>, <<"stopped_permanent", "halted">>,
   <<"escalated", "escalated">>}

Checks ==
  [no_errored_rows        |-> errorIds[Harness] = {},
   all_seeded             |-> Cardinality(present) = seededTotal,
   none_pending           |-> \A t \in present : status[t] # "pending",
   one_decision_each      |-> Cardinality(DecidedTxns) = Cardinality(present),
   one_audit_row_each     |-> Cardinality(AuditRows) = Cardinality(DecidedTxns),
   status_matches_action  |-> \A t \in DecidedTxns \cap present :
                                <<decisions[t].action_taken, status[t]>> \in AllowedPairs,
   stops_are_traceable    |-> \A t \in DecidedTxns :
                                decisions[t].action_taken = "stopped_permanent" =>
                                  audit[t] # <<>>,
   rules_match_decisions  |-> \A t \in DecidedTxns : Len(audit[t]) > 0 =>
                                /\ decisions[t].action_taken = Route[t].action
                                /\ decisions[t].rule_fired = Route[t].rule_fired]

Red == {c \in DOMAIN Checks : ~Checks[c]}

\* Whether a gap of 30 seconds lies between two recorded pages is the clock's
\* affair; without two pages there is no gap.
Stalls == IF Cardinality(timed) > 1 THEN {{}, {"no_page_stalled"}} ELSE {{}}

\* Mutant: the failed checks are printed and main() returns 0.
VerifyReturnsZero ==
  /\ stage = "running" /\ pc[Harness] = "completed"
  /\ verdict' = Red
  /\ stage' = "passed"
  /\ UNCHANGED <<vars, seededTotal, timed, erased>>

Verify ==
  /\ stage = "running" /\ pc[Harness] = "completed"
  /\ \E stalled \in Stalls :
       /\ verdict' = Red \cup stalled
       /\ stage' = IF verdict' = {} THEN "passed" ELSE "failed"
  /\ UNCHANGED <<vars, seededTotal, timed, erased>>

\* main() catches the circuit breaker and nothing else.
RunTripped ==
  /\ stage = "running" /\ pc[Harness] = "tripped"
  /\ stage' = "failed"
  /\ verdict' = {"no_breaker_trip"}
  /\ UNCHANGED <<vars, seededTotal, timed, erased>>

RunAborted ==
  /\ stage = "running" /\ pc[Harness] \in {"raised", "killed"}
  /\ stage' = "aborted"
  /\ UNCHANGED <<vars, seededTotal, timed, verdict, erased>>

-----------------------------------------------------------------------------
WorkerStep ==
  /\ \/ \E w \in Worker \ {Harness} : Start(w)
     \/ \E w \in Worker : Step(w) \/ FaultStep(w)
  /\ UNCHANGED lt

MainEnds == Verify \/ RunTripped \/ RunAborted

LTNext ==
  \/ SeedReset \/ SeedFails \/ SeedSkipped \/ CountSeeded \/ RunStarts
  \/ Poll \/ MainEnds \/ WorkerStep

LTSpec == LTInit /\ [][LTNext]_ltVars

\* A process that can go on does.
LTFairSpec ==
  /\ LTSpec
  /\ \A w \in Worker : WF_ltVars(Step(w) /\ UNCHANGED lt)

-----------------------------------------------------------------------------
LTTypeOK ==
  /\ TypeOK
  /\ stage \in Stage /\ seededTotal \in Nat
  /\ timed \subseteq Nat \X Int
  /\ verdict \subseteq DOMAIN Checks \cup {"no_page_stalled", "no_breaker_trip"}
  /\ erased \subseteq Txn

(***************************************************************************)
(* The tables are the ledger of the worker, save that a reset may replace  *)
(* all of it by a new batch without an entry: a worker that read its page  *)
(* before the reset and writes it afterwards leaves no decision and no     *)
(* audit record about a transaction that is gone (SCHEMA.sql:74-76).       *)
(***************************************************************************)
LedgerReset ==
  /\ present' = NewBatch
  /\ \A t \in Txn : Untouched(t)'

LedgerBetweenResets == Ledger!Init /\ [][Ledger!Next \/ LedgerReset]_Ledger!vars

(***************************************************************************)
(* What a run counted as processed was in the database at some time: the   *)
(* rows of a page that a reset removed are errors, never processed.        *)
(***************************************************************************)
CountedWasDecided ==
  \A t \in Txn : tallied[t] > 0 => decisions[t] # None \/ t \in erased

(***************************************************************************)
(* Without a fault and a row that cannot be written, nothing but a stall   *)
(* fails the test, whatever page another worker still held when its rows   *)
(* were truncated, and whichever of the two writes a row of the new batch. *)
(***************************************************************************)
CleanTestPasses ==
  stage = "failed" /\ faults = 0 /\ Poison \cap present = {} =>
    verdict = {"no_page_stalled"}

(***************************************************************************)
(* A test that passed has left every transaction of the batch with its one *)
(* decision and audit record, although it compares totals and a worker     *)
(* beside it may still be writing (load_test.py:6-7).                      *)
(***************************************************************************)
PassedMeansDecided ==
  stage = "passed" => \A t \in present : decisions[t] # None /\ Len(audit[t]) = 1

(***************************************************************************)
(* scripts/load_test.py:42: the monitor records when each page completed,  *)
(* so none is recorded before the run has completed it.                    *)
(***************************************************************************)
MonitorTimesPages == \A r \in timed : r[1] <= r[2]
=============================================================================
