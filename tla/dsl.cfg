SPECIFICATION MCSpec
CONSTANTS
    P = 241
    NonResidue = 7
    MemLimit = 96
    Block = 3
    MemBase = 32
    NumScratch = 6
    Rate = 2
    SaltCells = 2
    PowBits = 8
    PowRadix = 16
    Limb = 4
    Permute <- ToyPermute
    NumHomes = 7
    TapeLength = 30
CHECK_DEADLOCK FALSE
INVARIANTS RunsAsBuffered GadgetsAgree
