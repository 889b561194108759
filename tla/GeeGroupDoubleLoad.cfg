CONSTANTS
    Callers <- MCCallers
    Keys <- MCKeys
    EmptyKey = ""
    Missing <- MCNoMissing
    Owner <- MCOwner
    Self = "self"
    HasPeers = FALSE
    AllowEvict = FALSE
    None = None
SPECIFICATION Spec
INVARIANTS
    LoadedOncePerKey
CHECK_DEADLOCK FALSE
