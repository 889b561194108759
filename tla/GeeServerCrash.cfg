CONSTANTS
    Rcvrs <- MCRcvrs
    Names <- MCNames
    MaxReqs = 1
    HandleTimeouts = {FALSE}
SPECIFICATION Spec
INVARIANTS
    ServerSurvivesRequests
CHECK_DEADLOCK FALSE
