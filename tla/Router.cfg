\* A request ends when it is answered.
CONSTANT MaxSegments = 5
SPECIFICATION Spec
CHECK_DEADLOCK FALSE
INVARIANTS
    TypeOK
    OneOwner
    NothingMadeIsLost
    FailedDbCommandIsLast
PROPERTY
    EveryRequestAnswered
