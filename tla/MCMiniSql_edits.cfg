SPECIFICATION Spec
SYMMETRY Symmetric
CONSTANTS
    Sessions = {p, q}
    Statements <- MCStatements
    FirstSchema <- MCFirstSchema
    FirstRows <- MCFirstRows
    Schemas <- MCSchemas
    MaxEdits = 2
    MaxRows = 2
    Bytes <- MCBytes
    MAX_COLUMNS = 2
    MAX_VALUE_LENGTH = 4
    MAX_LINE_LENGTH = 8
    INT_MIN <- MinInt
    INT_MAX = 9
INVARIANTS
    TypeOK
    OnlyEditsSpoilSelects
    RowsAreShownAsInserted
