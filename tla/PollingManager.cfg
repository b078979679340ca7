SPECIFICATION ManagerSpec
CONSTANTS
    Meters = {m1}
    NumRegisters = 2
    Retries = 1
    MaxChains = 2
    MaxCalls = 3
    NONE = none
    Tasks = {poll, k1, k2}
    Poller = poll
    NoTask = NoTask
INVARIANTS
    OneCycle
    OneTimerChain
    LockMatchesHolder
    NoLostWakeup
PROPERTIES
    CyclesGoOn
    QuietAfterStop
    WaitersFinish
    ImplementsMutex
CHECK_DEADLOCK FALSE
