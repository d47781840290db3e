SPECIFICATION MCSpec
CONSTANTS
    Party = {"alice", "bob"}
    Rand <- MCRand
    Asset = {0, 1}
    Native = 0
    None = None
    U63 = 2
    AnchorWindow = 2
    TimeWindow = 1
    ClockWord = 3
    MaxNow = 2
    MaxLeaves = 12
    Draw <- MCDraw
    Spare <- MCSpare
    MintAmounts = {0, 1, 2}
    OutAmounts = {0, 1, 2, 3}
    Fees = {0, 1, 2}
    Burns = {0, 1}
    Faults = {"none", "forged", "segment", "shape", "plaintext"}
CHECK_DEADLOCK FALSE
INVARIANTS PoolInv NoDoubleSpend SpendsFollowCreation OwnerIsSpender WindowIsRecent ValueConserved TotalsSaturate
PROPERTY ImplementsNotePool
