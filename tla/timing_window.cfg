CONSTANTS
  InternalDrain = 115
  Grace = 120
  Eps = 2
  KeepAlive = 20
  Hold = 130
  StampOffset = 120
SPECIFICATION Spec
INVARIANTS
  ResetInWindow
