SPECIFICATION ToolsSpec

CONSTANTS
    Sockets = {1, 2, 3}
    NoSocket = none
    MaxDrops = 1
    MaxLate = 1
    Phase1Probes <- MCPhase1Probes
    Phase2Variants <- MCPhase2Variants
    MaxC = 1
    Radius = 1
    ScannedC = {0, 1}
    MaxProbesPerSession = 2
    GroupExhaustThreshold = 2
    SaveEvery = 2
    MaxStarts = 2
    MaxOverlap = 0
    Answers = {"success", "undefined"}
    ClassesToTry <- MCClassesToTry
    SnBaseAddresses <- MCSnBaseAddresses
    Destinations <- MCDestinations
    Raw = "raw"
    MaxConnections <- MCMaxConnections

INVARIANTS
    HonestUnlessLate
    SkipsJustified
    CompleteUnlessRefused
    AssociationsReleased

PROPERTIES
    SavedResultsKept
    RunsAdvance

CHECK_DEADLOCK FALSE
