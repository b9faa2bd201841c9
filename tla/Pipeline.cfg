CONSTANTS
  NPhases = 3
  Stages <- MCStages
  Hooks <- MCHooks
  NoHandler <- MCNoHandler
  Plans <- MCPlans
SPECIFICATION FairSpec
INVARIANTS
  ResultIsExplained
  EveryFailureReported
  LatestValueThreaded
PROPERTIES
  ImplementsSchedule
  CancellationIsSeen
CHECK_DEADLOCK FALSE
