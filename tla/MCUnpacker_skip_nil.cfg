SPECIFICATION Spec
CONSTANTS
    Capacity = 4
    Uses <- SkipNilUses
INVARIANT SkipNilConsumes
