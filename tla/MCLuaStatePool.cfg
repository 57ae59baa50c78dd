CONSTANTS
    NoName = NoName
    Threads = {t1, t2, t3}
    Names = {core, test}
    MaxId = 3
SPECIFICATION Spec
SYMMETRY Symmetry
INVARIANTS
    ExclusiveBorrow
    BorrowIsLive
    FlagIffBorrowed
    PoolInv
PROPERTY
    ImplementsExclusivePool
