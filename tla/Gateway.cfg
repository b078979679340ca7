SPECIFICATION Spec
CONSTANTS
    Requests = {r1, r2}
    Meters = {m1}
    Ids = {i1}
    MaxRegisters = 2
    MaxSignals = 2
    NONE = none
INVARIANTS
    PendingIsLive
    OneResponse
    RelayHonest
    OfflineIsFinal
PROPERTIES
    CommandsAnswered
    ShutdownCompletes
CHECK_DEADLOCK FALSE
