\* The window is resized twice, perhaps there and back, at any time; a reload may fall into it.
CONSTANTS
    d1 = d1
    d2 = d2
    Cwds = {d1}
    None = None
    MaxGen = 1
    MaxVer = 0
    MaxWorkers = 2
    Shells = {"zsh", "bash"}
    Themes <- OneTheme
    Sizes = {80, 40}
    Vi = FALSE
    Keys = {}
    Typeahead = TRUE
    MaxPresses = 0
    MaxReloads = 1
    MaxResizes = 2
    MaxPty = 0
SPECIFICATION Spec
INVARIANT CalmInv
INVARIANT HeaderIsCurrent
PROPERTY SizeIsPassedOn
CHECK_DEADLOCK FALSE
