\* The program ends when SERVER_Start has returned.
SPECIFICATION Spec
CONSTANTS
    Threads = {t1, t2, t3}
    Sessions = {s1, s2}
    Listener = Listener
INVARIANTS
    OneOperation
    NoTrafficAfterShutdown
    EndsOnlyWhenTold
PROPERTIES
    StopEndsServer
    EveryRequestAnswered
CHECK_DEADLOCK FALSE
