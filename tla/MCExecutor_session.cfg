SPECIFICATION FairSpec
CONSTANTS
    b1 = b1
    b2 = b2
    b3 = b3
    Blocks = {b1, b2, b3}
    NULL = NULL
    TableName = "t"
    Schema <- MCSchema
    Statements <- MCStatements
    MaxStatements = 3
    InitRows <- MCRows
    Faults = {"alloc", "append", "read"}
    Bytes <- MCBytes
    MAX_COLUMNS = 2
    MAX_VALUE_LENGTH = 4
    MAX_LINE_LENGTH = 12
    INT_MIN <- MinInt
    INT_MAX = 9
INVARIANTS
    TypeOK
    MemoryOwned
    InBounds
PROPERTIES
    SessionSpec
    RunEnds
