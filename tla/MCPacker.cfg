SPECIFICATION Spec
CONSTANTS
    Base = 8
    FixNegative = 1
    FixRaw = 4
    FixCount = 2
    FixExt = {1, 2, 4}
    ReferenceThreshold = 4
    Object <- Objects
    Data <- AllData
    Nil = "nil"
    Uses <- PackerUses
INVARIANTS
    TypeOK
    WholeObjects
    Decodes
    EarlierKept
    RefsAlive
PROPERTY CallsEnd
