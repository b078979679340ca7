SPECIFICATION Spec
CONSTANTS
    MeterKinds <- CleanIvyOnly
    MaxItems = 2
    MAX_PAYLOAD_LENGTH = 20
INVARIANT
    FragmentsAccumulate
CHECK_DEADLOCK FALSE
