SPECIFICATION RSpec
CONSTANTS
  Targets <- MCTargets
  Support <- MCSupport
  Profiles <- MCProfiles
  FieldValues <- MCFieldValues
  Inputs <- MCRInputs
INVARIANTS
  PreservationIsKept
  BlockingIsNotAdvisory
  LockedProfileHasNoMCP
  NothingIsLostUnseen
  NoLayerOverwritesAnother
  ProvenanceIsTruthful
CHECK_DEADLOCK FALSE
