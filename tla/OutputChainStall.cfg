SPECIFICATION Spec
CONSTANTS
  Units = 1
  NRNG = 2
  Depth = 1
  LinkDepth = 1
  Period = 4
  r0 = r0
  r1 = r1
  r2 = r2
  r3 = r3
  r4 = r4
  FirstRoot = r0
  NoVal = NoVal
  Root <- MCRoot
  RootStep <- MCRootStep
INVARIANT StallsWithoutData
