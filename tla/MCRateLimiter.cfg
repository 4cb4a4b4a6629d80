CONSTANTS
    Callers = {c1, c2}
    c1 = c1
    c2 = c2
    Limit = 2
    Window = 4
    Second = 2
    MaxDelay = 1
    None = None
    MaxClock = 10
SYMMETRY Symmetry
SPECIFICATION Spec
INVARIANTS TypeOK BurstBounded PatienceRewarded
PROPERTIES WindowsApart NoIdleRefusal
CHECK_DEADLOCK FALSE
