SPECIFICATION FairSpec
CONSTANTS
    p = p
    q = q
    Sessions = {p, q}
    Bytes <- MCBytes
    Schema <- NumberSchema
    Rows <- NumberRows
    InitLines <- OneNumber
    InitTail <- NoTail
    STDIO_BUFFER = 2
    Faults = {"open", "write", "close", "read", "crash"}
    MaxCalls = 3
    MAX_COLUMNS = 2
    MAX_VALUE_LENGTH = 5
    MAX_LINE_LENGTH = 14
    INT_MIN <- MinInt
    INT_MAX = 999
INVARIANTS
    FailureSpoilsOneRow
    NothingIsOverwritten
PROPERTIES
    CallsReturn
