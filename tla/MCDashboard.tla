---------------------------- MODULE MCDashboard ----------------------------
EXTENDS Dashboard, TLC

\* The first transaction may end in two ways.
MCPermitted == 1 :> {"recovered", "halted"} @@ 2 :> {"recovered"}

MCFilters == {None, "recovered"}

ThreadSymmetry == Permutations(Thread)
=============================================================================
