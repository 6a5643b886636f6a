CONSTANTS
  w1 = w1
  w2 = w2
  Worker <- TwoWorkers
  Churning <- OnlyFirst
  HoldBounded = TRUE
  MaxConn = 3
SPECIFICATION LiveSpec
INVARIANTS
  TypeOK
  GateHonest
  NoFalseReset
  StreamOrdered
PROPERTIES
  StreamSpec
  BreakRecovered
  GateSignalled
  CleanShutdown
