SPECIFICATION FairSpec
CONSTANTS
    Inputs <- MCShortInputs
    BUFFER_SIZE = 5
    ExitWords <- MCExitWords
    Faults = {"read"}
PROPERTIES
    EofEndsTheSession
