SPECIFICATION Spec
CONSTANTS
    Actors = {a1, a2}
    Workers = {w1, w2}
    Sandboxes = {s1, s2}
    Calls = {k1}
    None = None
    Reused = {}
    Picky = {}
    MaxWarmIdle = 2
    MaxVersion = 6
    MaxReused = 6
SYMMETRY Symmetry
INVARIANTS
    BoundOnlyWhileActive
CHECK_DEADLOCK FALSE
