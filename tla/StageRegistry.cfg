CONSTANTS
  Phases <- MCPhases
  Candidates <- MCCandidates
SPECIFICATION Spec
INVARIANTS
  RespectsConstraints
  ListsEveryStageOnce
  CycleIsReal
  CycleIsReported
  UnconstrainedIsPriorityOrder
