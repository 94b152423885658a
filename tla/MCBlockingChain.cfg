SPECIFICATION Spec
CONSTANTS
  NRNG = 3
  Depth = 1
  LinkDepth = 1
  Period = 3
  FirstRoot = 0
  NoVal = NoVal
  Root <- MCRoot
  RootStep <- MCRootStep
INVARIANT TypeOK
INVARIANT LockStep
PROPERTY NumbersKeepComing
