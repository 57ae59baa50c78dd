CONSTANTS
    Values = {1}
    Names = {a, b}
    NoName = NoName
    NoIndex = NoIndex
    HeaderSize = 0
    FooterSize = 0
    MaxRows = 2
    MaxColumns = 2
    MaxKey = 3
SPECIFICATION Spec
INVARIANTS
    UndoRestoresCell
