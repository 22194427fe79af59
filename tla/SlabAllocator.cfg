SPECIFICATION FairSlabSpec
CONSTANTS
    Slots = 3
    MaxSlabs = 2
    NULL = null
INVARIANTS
    ChecksHold
    SlabIsTiled
    FreeSlabsExact
PROPERTIES
    ImplementsHeap
    SweepEnds
