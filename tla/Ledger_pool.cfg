SPECIFICATION Spec
CONSTANTS
    k0 = k0
    k1 = k1
    None = None
    Ids = {0, 1, 2}
    Keys = {k0, k1}
    Txs <- MCTxs
    MAX_AMOUNT = 94
    MAX_PERM_KEYS = 2
    IMMUTABLE_ACCOUNT_THRESHOLD = 9
    FEE_RESET_WINDOW = 2
    NETWORK_FEE_AVG_WINDOW = 3
    FEE_ADJUST_BLOCKS = 2
    NetFee <- MCNetFee
    AccountFee <- MCAccountFee
    InitBlocks <- MCInitBlocks
    InitAccounts <- MCInitAccounts
    GenesisWallet = 0
    MaxPool = 2
    MaxBlocks = 7
INVARIANTS TypeOK Conservation OverlayNeverOverstates OnlyMintsPanic FeeCountsLinkedBlocks PermissionsValid
PROPERTIES DestroyedReceivesNothing HeaderHidesNothing
