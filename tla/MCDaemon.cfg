CONSTANTS
    Files = {f}
    None = None
    MaxChanges = 1
    MaxRequests = 3
    RacyIndex = FALSE
    Errors = FALSE
    f = f
SPECIFICATION Spec
INVARIANTS
    AnsweredInOrder
PROPERTIES
    RequestsAreAnswered
    EndsWithShell
CHECK_DEADLOCK FALSE
