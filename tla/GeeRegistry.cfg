CONSTANTS
    Servers <- MCServers
    TTL = 3
    DefaultTimeout = 3
    Durations <- MCDurations
    CanFail = TRUE
    MaxTime = 7
SPECIFICATION Spec
INVARIANTS
    TypeOK
PROPERTIES
    HeartbeatingServerListed
    RegistryRefinesTTLMap
