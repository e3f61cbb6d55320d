SPECIFICATION Spec
CONSTANTS
    p = p
    q = q
    Sessions = {p, q}
    Bytes <- MCBytes
    Schema <- PairSchema
    Rows <- PairRows
    InitLines <- PairLines
    InitTail <- NoTail
    STDIO_BUFFER = 16
    Faults = {"open", "close", "read", "crash"}
    MaxCalls = 4
    MAX_COLUMNS = 2
    MAX_VALUE_LENGTH = 5
    MAX_LINE_LENGTH = 8
    INT_MIN <- MinInt
    INT_MAX = 999
INVARIANTS
    TypeOK
    WholeLines
    InsertAddsOneRow
    AnswersStayTrue
PROPERTIES
    LineTableSpec
    RowTableSpec
