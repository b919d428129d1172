SPECIFICATION Spec
CONSTANTS
    Faults = TRUE
    N = 2
    Kind <- MCKind
    WriteThrough = {1, 2}
    LRU = {1}
    TTL = {}
    Limit <- MCLimit
    Jobs = {j1, j2}
    Refs = {r1, r2}
    Sweeper = Sweeper
    NoRef = NoRef
SYMMETRY Symmetry
INVARIANTS
    FoundWhileKept
    StoredIsTracked
    DeletedIsGone
