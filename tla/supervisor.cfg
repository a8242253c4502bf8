CONSTANTS
    p1 = p1
    p2 = p2
    Pids = {p1, p2}
    Names <- MCNames
    Patterns <- OneName
    AutoNames <- MCNames
    OnLimit <- MCOnLimit
    MaxRestarts = 1
    ZombieListed = FALSE
    OwnerReaps = TRUE
    MaxId = 2
    RecentBound = 1
SPECIFICATION SupSpec
INVARIANTS
    NoChildLost
    NoMarkLeft
    DueAreRestarted
PROPERTIES
    NoChildReplaced
    RolloutStopsAtCrash
    ChecksEnd
