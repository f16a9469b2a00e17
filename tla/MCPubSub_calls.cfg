CONSTANTS
    t1 = t1
    t2 = t2
    t3 = t3
    s1 = s1
    s2 = s2
    s3 = s3
    NoThread = NoThread
    NoSub = NoSub
    Threads = {t1, t2, t3}
    Subs = {s1, s2, s3}
SPECIFICATION FairSpec
INVARIANTS
    UsedIsLinked
    SilentAfterUnsubscribe
PROPERTIES
    Implements
    CallReturns
