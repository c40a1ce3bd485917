SPECIFICATION Spec
CONSTANTS
    NULL = NULL
    f1 = f1  f2 = f2  p1 = p1  p2 = p2  n1 = n1
    Symbol = Symbol  Integer = Integer  Module = Module  Person = Person  Singleton = Singleton
    Factories <- TwoFactories
    Packers <- OnePacker
    Unpackers <- OneUnpacker
    Holder <- All
    Registry = {r1, r2, r3}
    ExtType = {0}
    ZeroType = 0
    UkEntry <- FlagClasses
    ExtModule <- Modules
    Class <- FlagClasses
    Ancestors <- AncestorsOf
    PkEntry = {proc, noproc}
    NoProc = noproc
    Instances <- NoObject
    HashId = {h1, h2, h3}
    MaxPuts = 2
INVARIANT BigintsPacked
