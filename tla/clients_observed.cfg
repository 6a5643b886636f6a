CONSTANTS
  app_a = app_a
  app_b = app_b
  n1 = n1
  n2 = n2
  Client <- TwoClients
  Node <- TwoNodes
  MayFail = TRUE
  Grace = 1
  Eps = 1
  MaxTime = 6
SPECIFICATION Spec
SYMMETRY Symmetry
INVARIANTS
  NoResetFromNothing
  RecoveryNotUnderstated
  SiblingFlagged
CHECK_DEADLOCK FALSE
