SPECIFICATION Spec
CONSTANTS
    MeterKinds <- AllKinds
    MaxItems = 2
    MAX_PAYLOAD_LENGTH = 20
INVARIANTS
    ChunksIrrelevant
    IntactUnlessTorn
    BufferBounded
CHECK_DEADLOCK FALSE
