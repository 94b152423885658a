SPECIFICATION AdapterSpec
CONSTANTS
  Data = {d1, d2, d3}
  InDepth = 2
  OutDepth = 2
INVARIANT AdapterTypeOK
PROPERTY IsOneFifo
