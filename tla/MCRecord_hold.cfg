CONSTANTS
    r1 = r1
    r2 = r2
    h1 = h1
    h2 = h2
    h3 = h3
    d1 = d1
    d2 = d2
    NoRecord = NoRecord
    NoData = NoData
    Records = {r1, r2}
    Handles = {h1, h2, h3}
    Data = {d1, d2}
SPECIFICATION FairSpec
PROPERTIES
    Implements
    OpenReturns
