SPECIFICATION FairSpec
CONSTANTS
    Callers = {c1, c2}
    Ids = {i1, i2}
    WS = {w1, w2, w3}
    PoolSize = 2
    None = None
INVARIANTS
    TypeOK
    OneOwner
    NothingLost
    ReturnedIsLive
PROPERTIES
    GetEnds
