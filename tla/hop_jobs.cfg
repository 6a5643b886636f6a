CONSTANTS
  MaxJob = 3
SPECIFICATION Spec
INVARIANTS
  BranchIsPublished
  NoSkew
  AppliedMoves
PROPERTIES
  ChartImmutable
  BranchRollsForward
