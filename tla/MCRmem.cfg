SPECIFICATION Spec
CONSTANTS
    Regions = {r1, r2, r3, r4}
    NULL = NULL
    NPages = 2
    InitCapacity = 2
    GcInRealloc = FALSE
    MaxRaises = 1
SYMMETRY Symmetry
INVARIANTS
    TypeOK
    NoSharedPages
    LivePagesAllocated
    RegionsOwnedOnce
    MasksExact
    OneSpareChunk
PROPERTY AllocatorSpec
