SPECIFICATION FairSpec
CONSTANTS
    Capacity = 4
    Uses <- SoundUses
INVARIANTS
    TypeOK
    EachInOrder
    ObjectsGenuine
    EachDrains
    StackMatchesCalls
    StackBounded
PROPERTY CallsEnd
