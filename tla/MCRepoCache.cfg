CONSTANTS
    Files = {f, x}
    None = None
    MaxChanges = 3
    RacyIndex = FALSE
    Errors = FALSE
    f = f
    x = x
SPECIFICATION RepoSpec
SYMMETRY Symmetry
INVARIANTS
    CacheIsTrue
    QuietAnswerIsTrue
CHECK_DEADLOCK FALSE
