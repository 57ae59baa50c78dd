\* A state for each worker, or one state for both; callbacks succeed or fail.
CONSTANTS
    Threads = {w1, w2}
    Names = {core}
    Core = core
    NoName = NoName
    Nobody = Nobody
    Gone = Gone
    MaxId = 2
    CoreCounts = {1, 2}
    MaxScripts = 2
    CallbackResults = {TRUE, FALSE}
SPECIFICATION ServeSpec
INVARIANTS
    ScriptSeesOwnRequest
    NobodySleeps
PROPERTIES
    OnlyFailedCallbacksSpoil
    EveryExecutionReturns
