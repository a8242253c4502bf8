CONSTANTS
    p1 = p1
    p2 = p2
    p3 = p3
    Pids = {p1, p2}
    Names <- MCNames
    Patterns = {}
    AutoNames <- MCNames
    MaxRestarts = 1
    ZombieListed = FALSE
    OwnerReaps = FALSE
    MaxId = 2
    RecentBound = 1
SPECIFICATION FairSpec
PROPERTIES
    KeepsBudget
    OpsEnd
    CrashNoticed
    ReportsTried
