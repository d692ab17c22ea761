SPECIFICATION Spec
CONSTANTS
  Txn = {1, 2}
  InitialTxns = {1}
  Permitted <- MCPermitted
  None = None
  Thread = {t1, t2}
  Filters <- MCFilters
  DASHBOARD_PAGE_SIZE = 1
  DASHBOARD_SUMMARY_TTL_SECONDS = 2
  MaxTime = 3
  MaxPage = 2
SYMMETRY ThreadSymmetry
INVARIANTS
  TypeOK
  SummaryIsRecent
  FinalStatusIsExplained
  ListWithinTotal
  NextLeadsToRows
