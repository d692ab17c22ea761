--------------------------- MODULE DecisionLedger ---------------------------
(***************************************************************************)
(* What the recovery pipeline promises to everyone who reads its tables:   *)
(* a transaction arrives, and later gets one permitted entry (decision,    *)
(* audit record, status and attempt count together) that never changes.    *)
(* Several entries may appear at once, when a page is committed.           *)
(***************************************************************************)
CONSTANTS Txn,          \* transaction ids
          InitialTxns,  \* the transactions of the first batch
          Permitted,    \* [Txn -> set of the entries the policy permits]
          None          \* no entry

VARIABLES arrived,      \* the transactions that exist
          entry         \* [Txn -> an entry, or None]

vars == <<arrived, entry>>

Init == /\ arrived = InitialTxns
        /\ entry = [t \in Txn |-> None]

\* A batch of further transactions is ingested.
Arrive(S) == /\ arrived' = arrived \cup S
             /\ UNCHANGED entry

\* Every undecided transaction of S is given one of its permitted entries.
Decide(S) == /\ entry' = [t \in Txn |-> entry'[t]]
             /\ \A t \in S : entry[t] = None /\ entry'[t] \in Permitted[t]
             /\ \A t \in Txn \ S : entry'[t] = entry[t]
             /\ UNCHANGED arrived

Next == \/ \E S \in SUBSET (Txn \ arrived) : Arrive(S)
        \/ \E S \in SUBSET arrived : Decide(S)

Spec == Init /\ [][Next]_vars
=============================================================================
