\* Fewer states than workers: one of them has to wait.
CONSTANTS
    Threads = {w1, w2}
    Names = {core}
    Core = core
    NoName = NoName
    Nobody = Nobody
    Gone = Gone
    MaxId = 1
    CoreCounts = {1}
    MaxScripts = 1
    CallbackResults = {TRUE, FALSE}
SPECIFICATION ServeSpec
PROPERTY
    SleepersAreWoken
