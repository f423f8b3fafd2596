SPECIFICATION Spec
CONSTANTS
    t1 = t1
    o1 = o1
    g = g
    Txs <- MCTxs
    OwnerTxs <- MCOwnerTxs
    GenesisTx = g
    Expiry <- MCExpiry
    StartTime = 2
    MaxTime = 8
    TX_MAX_EXPIRY_TIME = 3
    TX_EXPIRY_ADJUSTMENT = 1
    U64 = 16
    ClockSlack = 0
    AllowReindex = TRUE
    AllowRebuildCrash = TRUE
    MaxRestarts = 2
INVARIANT
    NoReplay
