CONSTANTS
    q = q
    s = s
    m = m
    f = f
    sem = sem
    t1 = t1
    isr = isr
    Loop = Loop
    NoObject = NoObject
    Objects = {s}
    Threads = {t1}
    Handlers = {}
    Kind <- MCKind
    Capacity <- MCCapacity
    Trigger <- MCTrigger
    Subscriptions <- LevelOrOnce
    UsesThreadFlags = TRUE
    MaxStops = 1
    MaxPend = 2
    MaxTimer = 1
    DaemonLen = 1
SPECIFICATION Spec
CHECK_DEADLOCK FALSE
INVARIANTS
    WorkIsFlagged
    LevelNoticed
    PendingAfterTimers
    ThreadFlagNoticed
