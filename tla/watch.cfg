CONSTANTS
  n1 = n1
  Node <- OneNode
  MaxGen = 2
  MaxTime = 2
  MaxOutage = 1
  MaxInbox = 2
  Grace = 1
SPECIFICATION FairSpec
INVARIANTS
  DrainExact
PROPERTIES
  WindowsOnlyGrow
  DrainSeen
CHECK_DEADLOCK FALSE
