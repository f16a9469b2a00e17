CONSTANTS
    a = a
    b = b
    NoInstance = NoInstance
    Instances = {a, b}
    QueueLen = 1
    MaxStarts = 2
SPECIFICATION FairSpec
INVARIANTS
    TouchedIsAllocated
    ChecksHold
PROPERTIES
    JoinedIsFinished
    JoinReturns
