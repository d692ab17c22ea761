SPECIFICATION SBSpec
CONSTANTS
  None = None
  Rows <- MCRows
  MandateCounts = {1, 2, 3}
  Transactions = 27
  Amounts <- MCSeedAmounts
  Lucks = {1, 4}
INVARIANT EveryShapeIsGuaranteed
CHECK_DEADLOCK FALSE
