CONSTANTS
    Rcvrs <- MCRcvrs
    Names <- MCNames
    MaxReqs = 2
    HandleTimeouts = {FALSE}
SPECIFICATION Spec
INVARIANTS
    NextReadAtFrameBoundary
CHECK_DEADLOCK FALSE
