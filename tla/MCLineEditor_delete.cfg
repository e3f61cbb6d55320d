SPECIFICATION Spec
CONSTANTS
    Letters <- MCLetters
    Keys <- KeysWithDelete
    BUFFER_SIZE = 4
    ExitWords <- MCExitWords
    Garbage <- NoGarbage
    Faults = {}
    MaxKeys = 3
INVARIANTS
    KeysHaveTheirMeaning
