CONSTANTS
  p1 = p1
  Pod <- OnePod
  Grace = 2
  Eps = 0
  RecoveryBound = 1
  MaxTime = 3
  MaxRolls = 2
  MaxHarm = 0
  Interrupts = TRUE
  ApiMayFail = FALSE
SPECIFICATION RunSpec
INVARIANTS
  UncollectedNotPass
