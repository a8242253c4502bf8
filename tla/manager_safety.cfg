CONSTANTS
    p1 = p1
    p2 = p2
    p3 = p3
    Pids = {p1, p2, p3}
    Names <- MCNames
    Patterns <- OneName
    AutoNames <- MCNames
    MaxRestarts = 1
    ZombieListed = TRUE
    OwnerReaps = FALSE
    MaxId = 3
    RecentBound = 2
SPECIFICATION Spec
SYMMETRY PidSymmetry
INVARIANTS
    DownIsDead
    HandlesHoldPids
    RolledStayRunning
PROPERTIES
    KeepsPromise
