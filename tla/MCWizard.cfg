SPECIFICATION Spec
CONSTANTS
    Digits <- MCDigits
    SlowTerminal = FALSE
    Hex = {"blue", "yellow", "magenta", "red"}
CHECK_DEADLOCK FALSE
INVARIANTS
    WrittenIsConfirmed
    AnswersAreKept
PROPERTIES
    Overwrites
    ArrowsAreNoAnswers
    EndsAtEof
