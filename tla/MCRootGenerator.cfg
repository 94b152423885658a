SPECIFICATION Spec
CONSTANTS
  Lanes = 3
  Depth = 2
  OutDepth = 2
  NoVal = NoVal
  State <- MCState
  Step <- MCStep
  Seek <- MCSeek
  InitState <- MCInitState
  Period = 16
  RootAt <- MCRootAt
INVARIANT TypeOK
INVARIANT LeapfrogInv
INVARIANT NothingTwice
PROPERTY SequentialOrder
PROPERTY FullPeriod
