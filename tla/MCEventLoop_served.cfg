CONSTANTS
    q = q
    s = s
    m = m
    f = f
    sem = sem
    t1 = t1
    isr = isr
    Loop = Loop
    NoObject = NoObject
    Objects = {q, m, f, sem}
    Threads = {t1, isr}
    Handlers = {isr}
    Kind <- MCKind
    Capacity <- MCCapacity
    Trigger <- MCTrigger
    Subscriptions <- AllEvents
    UsesThreadFlags = FALSE
    MaxStops = 1
    MaxPend = 0
    MaxTimer = 0
    DaemonLen = 1
SPECIFICATION FairSpec
CONSTRAINT Bounded
INVARIANTS
    ItemsAreLive
    LevelNoticed
    EdgeNoticed
PROPERTIES
    LevelServed
