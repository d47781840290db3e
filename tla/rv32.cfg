CONSTANTS
  Rate = 2
  W = 256
  Regs = {0, 1, 2, 3, 4}
  A0 = 1
  A1 = 2
  A7 = 3
  NumOutputs = 2
  MaxWords = 4
  PtrBound = 64
  ChipBound = 48
  ChipWords = 2
  AbsorbGas = 3
  ChipGas = 5
  ChipOf <- Chipped
  DigestNum <- SomeNum
  P = 1009
  MaxCount = 40
  MaxRows = 20
  FreePtrs = {2, 946}
  FreeCounts = {0, 1}
  Junk <- JunkState
  Salts <- SaltBlocks
  JunkWords <- SomeWords
  GasLimits = {40, 150, 300}
  Height = 90
  GasMax = 250
  None = None
  Calls = {0, 1, 2, 3, 4, 6, 7, 8}
  Ptrs0 = {0, 2, 46, 47, 50, 70}
  Lens0 = {0, 1, 3, 4, 5}
SPECIFICATION MCSpec
INVARIANT AcceptedBinds
INVARIANT HonestRowsAccepted
PROPERTY ImplementsEmulator
CHECK_DEADLOCK FALSE
