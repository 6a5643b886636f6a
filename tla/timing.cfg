CONSTANTS
  InternalDrain = 115
  Grace = 120
  Eps = 2
  KeepAlive = 20
  Hold = 130
  StampOffset = 120
  AppKeepAlive = 20
  MaxRefused = 1
  Callers <- TwoCallers
SPECIFICATION FairAppSpec
INVARIANTS
  ResetStamped
  HoldParks
  KeepaliveBack
  PoolServes
PROPERTIES
  ResetReported
