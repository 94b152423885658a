SPECIFICATION Spec
CONSTANTS
  Units = 2
  NRNG = 1
  Depth = 1
  LinkDepth = 1
  Period = 1
  r0 = r0
  r1 = r0
  r2 = r0
  r3 = r0
  r4 = r0
  FirstRoot = r0
  NoVal = NoVal
  Root <- MCRoot
  RootStep <- MCRootStep
INVARIANT WholeNumbers
PROPERTY EveryInstanceContributes
PROPERTY RootsReachEnd
