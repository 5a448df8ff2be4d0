CONSTANTS
    Pids = {p1, p2}
    Configs = {a, b}
    Commands = {k1, k2}
    MaxStarts = 2
    MaxLog = 1
    Strangers = FALSE
    OneAtATime = FALSE
    None = None
    Empty = Empty
    Mixed = Mixed
    DefaultConfig = None
    p1 = p1
    p2 = p2
    a = a
    b = b
    k1 = k1
    k2 = k2
SPECIFICATION Spec
SYMMETRY Symmetry
INVARIANTS
    SessionInv
    CurrentIsInUse
    RequestsAreConsumed
    LogIsBounded
PROPERTIES
    SignalsItsEngine
CHECK_DEADLOCK FALSE
