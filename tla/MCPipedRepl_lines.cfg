SPECIFICATION FairSpec
CONSTANTS
    Inputs <- MCInputs
    BUFFER_SIZE = 5
    ExitWords <- MCExitWords
    Faults = {"read"}
INVARIANTS
    TypeOK
    ShortLinesAreStatements
PROPERTIES
    EofEndsAnErrorFreeSession
