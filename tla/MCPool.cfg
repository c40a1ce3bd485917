SPECIFICATION Spec
CONSTANTS
    Call = {c1, c2, c3}
    Member = {m1, m2, m3, m4, m5, m6}
    Sizes = {0, 1}
    NULL = NULL
SYMMETRY Symmetry
INVARIANTS
    TypeOK
    Exclusive
    PooledClean
    Bounded
