CONSTANTS
    Lines = 2
    Found = {1, 3}
    Requests <- MCRequests
    Capacity = 1
    MaxLines = 3
    MaxFiles = 2
    MaxTime = 2
SPECIFICATION FairSpec
INVARIANTS
    ShowsNewest
    ShowsEnds
    ArriveInOrder
    NothingLost
PROPERTIES
    CatchesUp
