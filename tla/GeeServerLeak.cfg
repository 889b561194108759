CONSTANTS
    Rcvrs <- MCRcvrs
    Names <- MCNames
    MaxReqs = 2
    HandleTimeouts = {TRUE}
SPECIFICATION Spec
PROPERTIES
    HandlerGoroutinesExit
CHECK_DEADLOCK FALSE
