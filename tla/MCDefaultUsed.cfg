\* Is the default value used wherever it is to be?  The bounds of MCClassProps.tla.
CONSTANTS
  FlagsPerByte = 2
  Chains <- MCChains
SPECIFICATION Spec
INVARIANT
  DefaultUsed
CHECK_DEADLOCK FALSE
