SPECIFICATION SBSpec
CONSTANTS
  None = None
  Rows <- MCRows
  MandateCounts = {1, 2, 3}
  Transactions = 27
  Amounts <- MCSeedAmounts
  Lucks = {1, 4}
INVARIANTS
  SBTypeOK
  MoneyMovesOnlyWhenPermitted
  HaltIsFinal
  UnclassifiedGoesToAPerson
  InactiveMandateIsNeverCharged
  BoundaryRowsMeetTheLimit
  RecordedBucketIsClassified
  LinkWithoutMessageIsUnmapped
  StoryIsConsistent
  StoryIsTrueOfTheRow
CHECK_DEADLOCK FALSE
