CONSTANTS
    N = 2
    SDepth <- MCSDepth
    RngDepth = 1
    ODepth <- MCODepth
    Size = 2
    Word = 2
    Hit <- MCHit
SPECIFICATION Spec
INVARIANT TypeOK
INVARIANT SamplesInOrder
INVARIANT Balance
INVARIANT MissesLimited
INVARIANT ResultNearlyComplete
PROPERTY ResultComes
CHECK_DEADLOCK FALSE
