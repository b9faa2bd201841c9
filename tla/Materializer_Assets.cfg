SPECIFICATION Spec
CONSTANTS
  Plans <- MCPlans
  Settings <- MCSettings
  Sources <- MCSources
  Adopted <- MCAdopted
  MaxBuilds = 2
  MaxFaults = 0
INVARIANT AssetsAreReadable
CHECK_DEADLOCK FALSE
