SPECIFICATION Spec
CONSTANTS
    Keywords <- MCKeywords
    Letters <- MCLetters
    DigitBytes <- MCDigits
    TypeWords <- MCTypeWords
    Bytes <- MCBytes
    TableName <- MCTable
    Inputs <- MCInputs
    TOKEN_SIZE = 5
    LINE_SIZE = 8
    MAX_NAME_LENGTH = 3
    MAX_COLUMNS = 2
    MAX_VALUE_LENGTH = 5
    MAX_LINE_LENGTH = 6
    INT_MIN <- MinInt
    INT_MAX = 9
INVARIANTS
    TypeOK
    ArraysHold
    SentencesAreAccepted
    SchemaIsTheText
    PlanIsTheMeaning
