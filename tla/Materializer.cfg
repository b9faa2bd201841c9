SPECIFICATION Spec
CONSTANTS
  Plans <- MCPlans
  Settings <- MCSettings
  Sources <- MCSources
  Adopted <- MCAdopted
  MaxBuilds = 2
  MaxFaults = 2
INVARIANTS
  Converges
  SourcesAreUntouched
  EveryTaskIsAccountedFor
  SecondBuildWritesNothing
  MemFSAgrees
  RootIsInSync
CHECK_DEADLOCK FALSE
