SPECIFICATION Spec
CONSTANTS
    a = a
    b = b
    Tx <- MCTx
    Key <- MCKey
    BlockLimit <- MCBlockLimit
    Payload <- MCPayload
    MaxBlockSize = 1
    MaxBlockLimit = 3
    IndexSize = 2
    MaxNumber = 3
    MaxBlocks = 4
    MaxCrashes = 1
    MaxRewinds = 1
    TieBreakingGas = TRUE
    NoBlock = NoBlock
INVARIANTS
    TypeOK
    CanonicalIndex
    AddressOnDisk
    DiskClosed
    NoMissedLogs
    NonceWindow
CHECK_DEADLOCK FALSE
