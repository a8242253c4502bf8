CONSTANTS
    Callers = {c1, c2}
    MaxAttempts = 3
    MaxRequests = 2
    MaxStarts = 3
SPECIFICATION FairSpec
CHECK_DEADLOCK FALSE
INVARIANTS AnswersOwnRequest
PROPERTIES KeepsSession CallsReturn
