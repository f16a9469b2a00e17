CONSTANTS
    a = a
    b = b
    Timers = {a, b}
    Periodic = {b}
    Modulus = 8
    Intervals = {1, 2}
    OtherEvents = TRUE
    TickIntervals = {1}
    MaxLate = 1
    StartClock = 7
    MaxClock = 9
    MaxStops = 1
SPECIFICATION FairSpec
CONSTRAINT OwnInterval
INVARIANTS
    ListsMatchTimers
    PhaseKept
    OversleepBounded
PROPERTIES
    NeverEarly
    StoppedIsSilent
    ExpiredIsServed
