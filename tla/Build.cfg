CONSTANT Invocations <- MCInvocations
SPECIFICATION FairSpec
INVARIANTS
  FilesAreJustified
  FailFastSuccessIsComplete
  LateBinding
PROPERTIES
  CommandExits
CHECK_DEADLOCK FALSE
