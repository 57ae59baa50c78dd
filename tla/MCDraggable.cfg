\* A page may destroy every draggable.
CONSTANTS
    Element = {p, q}
    Handle = {h1, h2, h3}
    NaN = NaN
    MaxClient = 2
    Start = 1
    Boxes <- MCBoxes
    GridSize = 2
    MaxPresses = 2
SYMMETRY Symmetry
SPECIFICATION Spec
CHECK_DEADLOCK FALSE
INVARIANTS
    DraggedIsOnTop
    DragStylesEnd
    
PROPERTIES
    GripHolds
