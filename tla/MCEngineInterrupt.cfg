\* Interrupts and Enters at any time.
CONSTANTS
    d1 = d1
    d2 = d2
    None = None
    Cwds = {d1}
    MaxGen = 4
    MaxVer = 0
    MaxWorkers = 1
    Shells = {"zsh"}
    Themes <- OneTheme
    Sizes = {80}
    Vi = FALSE
    Keys = {"enter", "interrupt"}
    Typeahead = TRUE
    MaxPresses = 2
    MaxReloads = 0
    MaxResizes = 0
    MaxPty = 0
SPECIFICATION Spec
PROPERTY AckIsOfThisPrompt
CHECK_DEADLOCK FALSE
