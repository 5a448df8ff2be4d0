\* Two directories, three prompts, one change per repository, two reloads.
CONSTANTS
    d1 = d1
    d2 = d2
    Cwds = {d1, d2}
    None = None
    MaxGen = 3
    MaxVer = 1
    MaxWorkers = 3
SPECIFICATION Spec
INVARIANT GitInv
INVARIANT VcsOfItsDirectory
PROPERTY NeverOlderThanPrompt
PROPERTY AnswersTheQuestion
CHECK_DEADLOCK FALSE
