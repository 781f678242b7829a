\* Properties, default values and instances: see MCClassProps.tla for the bounds.
CONSTANTS
  FlagsPerByte = 2
  Chains <- MCChains
SPECIFICATION Spec
INVARIANTS
  PropsMatchLayout
  DefaultsOfNearest
  LossOnlyAboveGap
  ValuesAgree
\* The instance is parsed, or the class was refused.
CHECK_DEADLOCK FALSE
