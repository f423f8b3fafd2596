SPECIFICATION Spec
CONSTANTS
    Passwords = {"p"}
    Secrets = {"s1", "s2"}
    Names <- MCNames
    Address <- MCAddress
    Wifs <- MCWifs
    OWNER_WALLET = 1
    SIGS = 3
    MAX_ID = 2
    MaxInbox = 2
INVARIANTS PanicsAreKnown AccountsRecoverable AnswerMatchesRequest
PROPERTIES RequestEnds
