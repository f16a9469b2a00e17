CONSTANTS
    c1 = c1
    c2 = c2
    a = a
    b = b
    NoTimer = NoTimer
    Clients = {c1, c2}
    Timers = {a, b}
    User <- MCUser
    Periodic = {b}
    QueueLen = 2
SPECIFICATION FairSpec
INVARIANTS
    FreedIsForgotten
    FlushedIsSilent
PROPERTIES
    FreeReturns
