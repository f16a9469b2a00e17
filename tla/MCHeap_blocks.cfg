CONSTANTS
    t1 = t1
    t2 = t2
    NoThread = NoThread
    Threads = {t1, t2}
    End = 24
    Header = 2
    Align = 2
    SizeMax = 63
    Requests = {0, 1, 9, 63}
    NodeSize = 2
SPECIFICATION Spec
CHECK_DEADLOCK FALSE
INVARIANTS
    HeapSound
    BytesCounted
    NodesAreOwned
PROPERTIES
    Implements
