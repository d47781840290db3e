CONSTANTS
  W = 1048576
  U32 = 65536
  StackLimit = 9
  MaxMem = 4
  MaxReturn = 2
  MaxLogs = 2
  Caller = 77
  Calldata <- SomeCalldata
  Keccak <- Digest
  Depth = 2
  MaxWitnesses = 3
  SlotIndex <- LeafOf
  Before <- BeforeLeaf
  MaxLocals = 7
  OpRoom = 4
  BodyLength = 4
SPECIFICATION Spec
PROPERTY RunsEndAlike
INVARIANT LiftDenotes
INVARIANT RootIsOfValues
CHECK_DEADLOCK FALSE
