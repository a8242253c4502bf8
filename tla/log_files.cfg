CONSTANTS
    Streams = {"out", "err"}
    MaxSize = 2
    Length <- MCLength
    PipeSize = 1
    MaxLines = 3
    MaxTime = 2
SPECIFICATION FairSpec
CHECK_DEADLOCK FALSE
INVARIANTS LogsAreComplete LogsAreInOrder FilesAreBounded DeletedLeavesNothing
PROPERTIES PipesAreRead
