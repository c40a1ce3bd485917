SPECIFICATION Spec
CONSTANTS
    Capacity = 4
    Uses <- SkipInProcUses
INVARIANT StackMatchesCalls
