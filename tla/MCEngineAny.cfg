\* A user who interrupts or redraws at any moment, and a reload.
CONSTANTS
    d1 = d1
    d2 = d2
    None = None
    Cwds = {d1}
    MaxGen = 2
    MaxVer = 0
    MaxWorkers = 2
    Shells = {"zsh"}
    Themes <- OneTheme
    Sizes = {80}
    Vi = FALSE
    Keys = {"redraw", "interrupt", "char"}
    Typeahead = TRUE
    MaxPresses = 1
    MaxReloads = 1
    MaxResizes = 0
    MaxPty = 0
SPECIFICATION Spec
PROPERTY AsGitWorker
PROPERTY ShellIsReleased
PROPERTY ReloadIsSeen
CHECK_DEADLOCK FALSE
