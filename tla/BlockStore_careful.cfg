SPECIFICATION FairSpec
CONSTANTS
    MAX_CACHE_SIZE = 2
    None = None
    Tears = {"body", "full"}
    CarefulOperator = TRUE
    MaxBlocks = 7
    MaxCrashes = 3
INVARIANTS
    StartsSucceed
PROPERTIES
    CommittedSurvives
    NodeComesBack
