SPECIFICATION Spec
CONSTANTS
  E_NUM = 3
  Depth = 1
  Size = 4
  Word = 8
  NoEdge = NoEdge
  Run <- MCRun
INVARIANT TypeOK
INVARIANT InStep
INVARIANT StagesExact
INVARIANT ResultExact
INVARIANT NeverStuck
