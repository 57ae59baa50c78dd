CONSTANTS
    Threads = {t1, t2, t3}
    Uuids = {u1, u2}
    Null = Null
    Nobody = Nobody
    MaxCount = 2
    MaxTime = 3
SPECIFICATION Spec
SYMMETRY Symmetry
INVARIANTS
    OnlyAddsAreHalf
PROPERTIES
    NoOverwrite
