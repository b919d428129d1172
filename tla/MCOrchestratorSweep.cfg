SPECIFICATION Spec
CONSTANTS
    Actors = {a1, a2}
    Workers = {w1, w2, w3}
    Sandboxes = {s1, s2}
    Calls = {k1}
    None = None
    Reused = {}
    Picky = {}
    MaxWarmIdle = 2
    MaxVersion = 6
    MaxReused = 6
SYMMETRY Symmetry
INVARIANTS
    RunningIsLive
CHECK_DEADLOCK FALSE
