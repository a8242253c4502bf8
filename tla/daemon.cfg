CONSTANTS
    Names <- MCNames
    Services <- MCServices
    Files <- MCFiles
    Clients = {c}
    Modes = {TRUE, FALSE}
SPECIFICATION FairSpec
INVARIANTS
    KillKeepsFile
PROPERTIES
    SavesWhatItStopped
    RepliesAreTrue
    ShutdownEnds
    CommandsEnd
CHECK_DEADLOCK FALSE
