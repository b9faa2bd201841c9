SPECIFICATION FSpec
CONSTANTS
  Fields <- MCFields
  PathFields <- MCPathFields
  ScopePaths <- MCScopePaths
  Inputs <- MCInputs
INVARIANTS
  InheritsFromTheFirst
  IndexedWhereInScope
  RefusedForCause
  VerdictIsRight
CHECK_DEADLOCK FALSE
