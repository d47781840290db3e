SPECIFICATION WalkthroughsSpec
CONSTANTS
    Account = {alice, bob}
    Address <- MCAddress
    addr <- MCaddr
    Nu = {1, 2, 3}
    Secret = {1, 2}
    Junk = Junk
    Offered <- AnyCommitment
    Denomination = 2
    Capacity = 3
    MaxFunds = 4
    Party = {owner}
    Rho = {1, 2}
    Holder = {t1}
    U64 = 4
    Field = 13
    TreeCapacity = 4
    MaxMint = 2
    OutValues = {0, 1, 12}
CHECK_DEADLOCK FALSE
INVARIANTS Solvent ProofsKeep ReportedRedeemable
INVARIANTS ValueConserved PoolBacksNotes
PROPERTY PaysProvedRecipient
