CONSTANTS
  n1 = n1
  Node <- OneNode
  MaxGen = 1
  MaxTime = 3
  MaxOutage = 0
  MaxInbox = 2
  Grace = 1
SPECIFICATION Spec
INVARIANTS
  ReadyIsNewPod
CHECK_DEADLOCK FALSE
