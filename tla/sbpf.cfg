CONSTANTS
  U32 = 64
  Frame = 4
  MaxDepth = 3
  HeapCells = 8
  InputCells = 6
  Chunk = 2
  TextLength = 4
SPECIFICATION Spec
PROPERTY RunsEndAlike
INVARIANT InStep
CHECK_DEADLOCK FALSE
