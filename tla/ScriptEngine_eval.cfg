SPECIFICATION Spec
CONSTANTS
    None = None
    Accounts <- MCAccounts
    From = 0
    Found <- MCFound
    Verified <- MCVerified
    HeadTime = 5
    Totals = {0, 3}
    MAX_AMOUNT = 7
    UNIT = 2
    MAX_FRAME_STACK = 3
    PushedAmounts <- MCAmounts
    Times = {5, 6}
    Counts = {0, 1, 2}
    ArgLists <- MCArgLists
    NestedThen = FALSE
    MaxOps = 8
INVARIANTS TypeOK AmountsAddUp LogPaysTotal DestroyIsLast BranchesFollowBlocks
PROPERTY NoIfLeftOpen
CHECK_DEADLOCK FALSE
