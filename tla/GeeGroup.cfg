CONSTANTS
    Callers <- MCCallers
    Keys <- MCKeys
    EmptyKey = ""
    Missing <- MCMissing
    Owner <- MCOwner
    Self = "self"
    HasPeers = TRUE
    AllowEvict = TRUE
    None = None
SPECIFICATION Spec
INVARIANTS
    TypeOK
    OneLoadInFlight
    WaitersShareResult
PROPERTIES
    GetsReturn
CHECK_DEADLOCK FALSE
