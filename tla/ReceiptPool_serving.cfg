SPECIFICATION FairSpec
CONSTANTS
    t1 = t1
    o1 = o1
    g = g
    Txs <- MCTxs
    OwnerTxs <- MCOwnerTxs
    GenesisTx = g
    Expiry <- MCExpiry
    StartTime = 2
    MaxTime = 6
    TX_MAX_EXPIRY_TIME = 3
    TX_EXPIRY_ADJUSTMENT = 1
    U64 = 16
    ClockSlack = 1
    AllowReindex = FALSE
    AllowRebuildCrash = FALSE
    MaxRestarts = 1
INVARIANT NoReplay
PROPERTIES
    AcceptedReachesChain
    TipSettles
