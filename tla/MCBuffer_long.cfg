SPECIFICATION ReadsSpec
CONSTANTS
    Page = {p1, p2, p3}
    NULL = NULL
    PageSize = 3
    Lengths = {1, 2, 4}
    LongLengths = {2, 5}
    Uses <- LongUses
    MaxBytes = 8
    Capacity = 3
    ReadSizes = {0, 2, 4}
    IoBufferSize = 2
    Letter <- Letters
INVARIANT IoGetsStream
