SPECIFICATION LTFairSpec
CONSTANTS
  None = None
  Txn <- LTTxn
  Row <- LTRows
  InitialTxns <- LTOld
  NewBatch <- LTNew
  Poison = {3}
  Worker = {w1, w2}
  Harness = w1
  PageSize = 2
  MaxPages <- LTMaxPages
  CircuitBreaker = TRUE
  MinErrors = 2
  ThresholdPct = 20
  MaxRuns = 2
  MaxFaults = 1
CHECK_DEADLOCK FALSE
INVARIANTS
  LTTypeOK
  CountedWasDecided
  CleanTestPasses
  PassedMeansDecided
PROPERTIES
  LedgerBetweenResets
  RunTerminates
