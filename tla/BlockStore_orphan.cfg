SPECIFICATION Spec
CONSTANTS
    MAX_CACHE_SIZE = 2
    None = None
    Tears = {"full"}
    CarefulOperator = FALSE
    MaxBlocks = 7
    MaxCrashes = 3
PROPERTY
    CommittedSurvives
