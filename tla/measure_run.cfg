CONSTANTS
  p1 = p1
  Pod <- OnePod
  Grace = 1
  Eps = 0
  RecoveryBound = 1
  MaxTime = 4
  MaxRolls = 2
  MaxHarm = 1
  Interrupts = TRUE
  ApiMayFail = TRUE
SPECIFICATION FairRunSpec
INVARIANTS
  NoFalseAlarm
  CompletePass
PROPERTIES
  MeasurementEnds
