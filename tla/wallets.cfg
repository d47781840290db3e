SPECIFICATION WalletSpec
CONSTANTS
    Party = {alice}
    Rand <- SmallRand
    Asset = {0}
    Native = 0
    None = None
    U63 = 4
    AnchorWindow = 2
    TimeWindow = 1
    ClockWord = 100
    MaxNow = 2
    MaxLeaves = 5
    MaxBuilds = 2
    Draw <- MintDraw
    Spare <- NoSpares
    MintAmounts = {1}
    OutAmounts = {1}
    Fees = {0}
    Burns = {0}
    Faults = {"none"}
CHECK_DEADLOCK FALSE
INVARIANTS HonestUntilOvertaken OneRivalLands
PROPERTY RefusalIsFinal
