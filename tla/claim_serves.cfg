CONSTANTS
    Names <- OneName
    Services <- OneService
    Files <- NoFiles
    Clients = {c}
    Modes = {TRUE}
SPECIFICATION Spec
PROPERTY ShutsDownWhenSignalled
CHECK_DEADLOCK FALSE
