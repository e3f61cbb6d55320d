SPECIFICATION Spec
CONSTANTS
    p = p
    q = q
    Sessions = {p}
    Bytes <- MCBytes
    Schema <- NumberSchema
    Rows <- NumberRows
    InitLines <- OneNumber
    InitTail <- EndsInOne
    STDIO_BUFFER = 16
    Faults = {}
    MaxCalls = 2
    MAX_COLUMNS = 2
    MAX_VALUE_LENGTH = 5
    MAX_LINE_LENGTH = 14
    INT_MIN <- MinInt
    INT_MAX = 999
INVARIANTS
    InsertAddsOneRow
