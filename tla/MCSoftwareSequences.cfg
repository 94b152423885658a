SPECIFICATION SoftwareSpec
CONSTANTS
  Count = 100
  SampleId = {63, 64, 65, 127, 191, 2047}
  CO_NUM = 2
  Distance = 21
  Selector <- MCSelector
INVARIANT LanesConsecutive
INVARIANT JumpIsSteps
INVARIANT SequencesExact
PROPERTY LeavesAreGenerators
CHECK_DEADLOCK FALSE
