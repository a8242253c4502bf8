CONSTANTS
    Streams = {"out", "err"}
    MaxSize = 1
    Length <- MCLength
    PipeSize = 1
    MaxLines = 1
    MaxTime = 1
SPECIFICATION FairSpec
CHECK_DEADLOCK FALSE
PROPERTY CapturedStaysCaptured
