CONSTANTS
    Addrs <- MCAddrs
    MayHang <- MCMayHang
    Deadline = TRUE
    MaxCalls = 3
SPECIFICATION Spec
\* The program ends: Broadcast has returned and the caller made its calls.
CHECK_DEADLOCK FALSE
INVARIANTS
    TypeOK
    BroadcastResult
    RoundRobinCoversAll
PROPERTIES
    BroadcastReturns
