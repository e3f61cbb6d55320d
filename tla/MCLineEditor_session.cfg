SPECIFICATION FairSpec
CONSTANTS
    Letters <- MCLetters
    Keys <- MoreKeys
    BUFFER_SIZE = 3
    ExitWords <- MCExitWords
    Garbage <- MCGarbage
    Faults = {"read", "termios", "interrupt", "hangup"}
    MaxKeys = 4
INVARIANTS
    TypeOK
    BufferIsString
    KeysHaveTheirMeaning
    TerminalRestored
PROPERTIES
    EditedSpec
    HangUpEndsTheSession
    EnterIsAnswered
