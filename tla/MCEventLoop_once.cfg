CONSTANTS
    q = q
    s = s
    m = m
    f = f
    sem = sem
    t1 = t1
    isr = isr
    Loop = Loop
    NoObject = NoObject
    Objects = {m}
    Threads = {t1}
    Handlers = {}
    Kind <- MCKind
    Capacity <- MCCapacity
    Trigger <- MCTrigger
    Subscriptions <- Once
    UsesThreadFlags = FALSE
    MaxStops = 1
    MaxPend = 0
    MaxTimer = 0
    DaemonLen = 1
SPECIFICATION Spec
CHECK_DEADLOCK FALSE
PROPERTIES
    OnceIsDelivered
