CONSTANTS
    Rcvrs <- MCRcvrs
    Names <- MCNames
    MaxReqs = 3
    HandleTimeouts = {TRUE, FALSE}
SPECIFICATION Spec
INVARIANTS
    TypeOK
    OneResponsePerRequest
    ClosedAfterResponses
PROPERTIES
    RequestsAnswered
    GoroutinesExitWithoutTimeout
CHECK_DEADLOCK FALSE
