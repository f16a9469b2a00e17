CONSTANTS
    A = A
    B = B
    t1 = t1
    isr = isr
    Bits = {A, B}
    Setters = {t1, isr}
    Waits <- MixedWaits
    Clears <- ClearA
    Forever = 9
    MaxClock = 5
SPECIFICATION FlagsFair
INVARIANTS
    BlockedIsUnset
    FlagKept
PROPERTIES
    NeverLate
    WaitReturns
