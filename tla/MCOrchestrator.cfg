SPECIFICATION Spec
CONSTANTS
    Actors = {a1, a2}
    Workers = {w1, w2, w3}
    Sandboxes = {s1, s2, s3}
    Calls = {k1}
    None = None
    Reused = {a2}
    Picky = {a2}
    MaxWarmIdle = 2
    MaxVersion = 6
    MaxReused = 4
SYMMETRY Symmetry
INVARIANTS
    TypeOK
    RunningHasWorker
    FlightHasWorker
    RoutedToOwnWorker
    IdleIsWarm
    ClaimIsAccounted
    WorkerHasOneUser
    SandboxAccounting
    WarmIsIdle
CHECK_DEADLOCK FALSE
