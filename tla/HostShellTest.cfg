SPECIFICATION Spec
CONSTANTS
  Size = 4
  Launches = 2
  Depth = 1
  Number = {0, 3}
  Modulus = 4
  NoVal = NoVal
INVARIANT TestPasses
