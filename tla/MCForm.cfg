CONSTANTS
    name = name
    age = age
    low = low
    high = high
    Empty = Empty
    Undefined = Undefined
    Ids <- MCIds
    Values <- MCValues
    Number = {age}
    Text = {name}
    Required = {name}
    Default <- MCDefault
    Breaks <- MCBreaks
    Silent <- MCSilent
SPECIFICATION Spec
INVARIANTS
    ModifiedIsExact
    MessagesFollowFlags
