SPECIFICATION Spec
CONSTANTS
    BYTE = 128
    I64 = 8192
    ROOM = 200
    CHAIN_ID = 1
    Messages <- MCMessages
    Garbage <- MCGarbage
    U8 = 4
    MAX_SCRIPT_BYTE_SIZE = 20
    MAX_PRECISION = 3
    MAX_STR_LEN = 11
    SYMBOL_LEN = 5
    Common <- MCCommon
    Rare <- MCRare
    MaxWords = 5
INVARIANTS RoundTrip DamagedInput HashTellsApart ScriptReadsBack
