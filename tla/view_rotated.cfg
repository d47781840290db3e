SPECIFICATION MCViewSpec
CONSTANTS
    Party = {alice, bob}
    Rand <- MCRand
    Asset = {0}
    Native = 0
    None = None
    U63 = 2
    AnchorWindow = 1
    TimeWindow = 0
    ClockWord = 100
    MaxNow = 0
    MaxLeaves = 4
    Draw <- FreshDraw
    Spare <- OneDummy
    MintAmounts = {1}
    OutAmounts = {0, 1}
    Fees = {0}
    Burns = {0}
    Faults = {"none"}
    Sealing = {"rotated"}
CHECK_DEADLOCK FALSE
INVARIANTS TransferSpendIsNamed
