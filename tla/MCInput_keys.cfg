CONSTANTS
    back = back
    ok = ok
    Keys = {back, ok}
    NoEvent = NoEvent
    KeyOrder <- MCKeyOrder
    DebounceTicks = 2
    Held = {back, ok}
    QueueLen = 2
    MaxEdges = 3
SPECIFICATION InputSpec
CHECK_DEADLOCK FALSE
INVARIANTS
    PressIsFresh
PROPERTIES
    Implements
