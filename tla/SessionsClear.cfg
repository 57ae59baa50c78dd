CONSTANTS
    Threads = {t1, t2}
    Uuids = {u1, u2}
    Null = Null
    Nobody = Nobody
    MaxCount = 1
    MaxTime = 2
SPECIFICATION Spec
PROPERTY
    ClearsWhatItFound
