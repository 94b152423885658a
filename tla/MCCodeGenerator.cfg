CONSTANTS
  Inputs <- MCInputs
  SLR_NUM = 2
SPECIFICATION GeneratorSpec
INVARIANT GeneratorTypeOK
INVARIANT OutputIsExpansion
INVARIANT InstancesLast
INVARIANT NumbersDistinct
CHECK_DEADLOCK FALSE
