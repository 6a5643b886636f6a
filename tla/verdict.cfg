CONSTANTS
  w1 = w1
  Worker <- OneWorker
  MaxConn = 2
  MaxTime = 7
  MaxFailure = 1
  Eps = 1
  RecoveryBound = 1
  WindowChoices <- SomeRolls
SPECIFICATION MeasureSpec
INVARIANTS
  PassExact
  ResetsConserved
  VerdictOrderFree
  BannerMatchesRows
  RowsAreTrue
  TableMatchesRows
PROPERTIES
  OnlyRecoveryRedeems
CHECK_DEADLOCK FALSE
