CONSTANTS
    NoKey = NoKey
    Undefined = Undefined
    Values = {1, 2}
    Words = {1}
    NoWord = 0
    NoCache = NoCache
    MaxRows = 3
    Tab = {a, b, c}
SPECIFICATION PageSpec
INVARIANTS
    ListNamesItsRows
    ReloadLosesNothing
    GetDataKeepsRows
    OnePanelShown
PROPERTIES
    ModifiedIsMarked
    ShownTabStays
