SPECIFICATION Spec
CONSTANTS
  None = None
  Txn <- TwoTxn
  Row <- TwoRow
  InitialTxns <- TwoTxn
  Poison = {}
  Worker = {w1, w2}
  PageSize = 2
  MaxPages <- OneLimited
  CircuitBreaker = FALSE
  MinErrors = 2
  ThresholdPct = 20
  MaxRuns = 2
  MaxFaults = 2
CHECK_DEADLOCK FALSE
INVARIANTS
  NoRowSkipped
  CountedIsDecided
  NoLockCycle
  PagesWithinEstimate
PROPERTIES
  ImplementsDecisionLedger
