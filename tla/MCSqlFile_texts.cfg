SPECIFICATION Spec
CONSTANTS
    Letters <- MCLetters
    DigitBytes <- MCDigits
    TOKEN_SIZE = 4
    Texts <- MCTexts
    Faults = {"read", "alloc"}
INVARIANTS
    TypeOK
    StatementsAreThePieces
    SplitAgreesWithTokens
    OpenStringRunsNothing
    StatusTellsTheTruth
    NothingLeaks
