CONSTANTS
    Calls <- MCCalls
    CtxCalls <- MCCtxCalls
    NoHolder = NoHolder
    ConnectTimeout = TRUE
SPECIFICATION Spec
INVARIANTS
    TypeOK
    DoneAtMostOnce
    CallReturnsOwnReply
    NoOrphanAfterShutdown
PROPERTIES
    CallsTerminate
    FailedDialReleasesClient
CHECK_DEADLOCK FALSE
