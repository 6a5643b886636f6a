CONSTANTS
  Signals = TRUE
  ApiMayFail = TRUE
  RootHeals = TRUE
  Apps <- MCApps
  Healing = {"probe"}
  MaxFaults = 1
SPECIFICATION FairDrainSpec
INVARIANTS
  TypeOK
  MutationIsReported
  LeavesNothingBehind
  ZeroDropProven
PROPERTIES
  ScenarioEnds
