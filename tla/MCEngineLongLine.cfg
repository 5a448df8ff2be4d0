\* The user types a line that does not fit on one row.
CONSTANTS
    d1 = d1
    d2 = d2
    None = None
    Cwds = {d1}
    MaxGen = 1
    MaxVer = 0
    MaxWorkers = 1
    Shells = {"zsh"}
    Themes <- OneTheme
    Sizes = {80}
    Vi = FALSE
    Keys = {"long"}
    Typeahead = FALSE
    MaxPresses = 1
    MaxReloads = 0
    MaxResizes = 0
    MaxPty = 0
SPECIFICATION Spec
INVARIANT PaintsOnItsRows
CHECK_DEADLOCK FALSE
