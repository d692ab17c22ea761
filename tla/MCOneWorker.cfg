SPECIFICATION Spec
CONSTANTS
  None = None
  Txn <- OneTxn
  Row <- OneRow
  InitialTxns <- OneInitial
  Poison <- OnePoison
  Worker = {w1}
  PageSize = 3
  MaxPages <- NoLimit
  CircuitBreaker = TRUE
  MinErrors = 2
  ThresholdPct = 70
  MaxRuns = 3
  MaxFaults = 2
CHECK_DEADLOCK FALSE
INVARIANTS
  TypeOK
  NoRowSkipped
  CountedIsDecided
  CountedAtMostOnce
  BreakerBoundsErrors
  StoppedRunIsReported
PROPERTIES
  ImplementsDecisionLedger
