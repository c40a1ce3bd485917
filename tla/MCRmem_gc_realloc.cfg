SPECIFICATION Spec
CONSTANTS
    Regions = {r1, r2, r3, r4}
    NULL = NULL
    NPages = 2
    InitCapacity = 2
    GcInRealloc = TRUE
    MaxRaises = 0
SYMMETRY Symmetry
INVARIANT NoSharedPages
