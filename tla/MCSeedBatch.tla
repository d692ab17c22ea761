---------------------------- MODULE MCSeedBatch ----------------------------
(***************************************************************************)
(* One, two or three mandates of any kind, and enough transactions for     *)
(* every kind of slot; beside them the rows of MCRecoveryPlanning.         *)
(***************************************************************************)
EXTENDS SeedBatch, DecisionStory, MCRecoveryPlanning

\* Both ends of every range, the limits, and one paisa over them.
MCSeedAmounts ==
  {4899, 4900, 50000, 2500000, 12000000}
    \cup {limit + d : limit \in {AFA_FREE_LIMIT_GENERAL, AFA_FREE_LIMIT_PRIORITY},
                     d \in {0, 1, 50000, 5000000}}
=============================================================================
