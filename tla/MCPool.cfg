SPECIFICATION Spec
CONSTANTS
    Callers = {c1, c2, c3}
    Sandboxes = {s1, s2, s3, s4, s5}
    NoSandbox = NoSandbox
    MaxSize = 2
    MinWarm = 2
    Strategy = "fifo"
    HealthCheck = TRUE
    MaxProvisions = 1
SYMMETRY Symmetry
INVARIANTS
    TypeOK
    CapacityBound
    PendingExact
    LiveBound
    ExclusiveLease
    LeasedIsLive
    NothingLost
    InUseIsLeased
    NoMissedReturn
    ProvisionCap
