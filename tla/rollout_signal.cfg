CONSTANTS
  Signals = TRUE
  ApiMayFail = FALSE
  RootHeals = FALSE
SPECIFICATION Spec
INVARIANTS
  SignalRestores
