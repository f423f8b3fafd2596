SPECIFICATION Spec
CONSTANTS
    Conns = {c1}
    CAP = 1
    FirstHeight = 0
    MaxHeight = 2
    MaxRequests = 2
    RangeFrom = {0, 2}
    RangeTo = {1, 2}
INVARIANTS TypeOK PoolIsLive SubscriptionHasNoGap RangeInOrder RangeFindsBlocks
PROPERTIES SilentPeerDropped RangeEnds
CHECK_DEADLOCK FALSE
