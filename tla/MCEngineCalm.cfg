\* Both shells, a user who waits for the prompt, a reload that keeps the height, no resizing.
CONSTANTS
    d1 = d1
    d2 = d2
    Cwds = {d1, d2}
    None = None
    MaxGen = 3
    MaxVer = 0
    MaxWorkers = 2
    Shells = {"zsh", "bash"}
    Themes <- SameRows
    Sizes = {80}
    Vi = TRUE
    Keys = {"enter", "esc"}
    Typeahead = FALSE
    MaxPresses = 2
    MaxReloads = 1
    MaxResizes = 0
    MaxPty = 1
SPECIFICATION Spec
SYMMETRY Directories
INVARIANT EngineInv
INVARIANT Painting
INVARIANT HeaderIsCurrent
INVARIANT HeaderIsPainted
CHECK_DEADLOCK FALSE
