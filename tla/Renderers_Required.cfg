SPECIFICATION RSpec
CONSTANTS
  Targets <- MCTargets
  Support <- MCSupport
  Profiles <- MCProfiles
  FieldValues <- MCFieldValues
  Inputs <- MCRInputs
INVARIANTS
  RequiredIsEmitted
CHECK_DEADLOCK FALSE
