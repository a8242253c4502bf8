CONSTANTS
    p1 = p1
    p2 = p2
    p3 = p3
    Pids = {p1, p2}
    Names <- OneName
    Patterns <- OneName
    AutoNames <- OneName
    MaxRestarts = 1
    ZombieListed = TRUE
    OwnerReaps = FALSE
    MaxId = 1
    RecentBound = 1
SPECIFICATION FairSpec
PROPERTIES
    CrashNoticed
