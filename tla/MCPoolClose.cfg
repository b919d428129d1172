SPECIFICATION FairSpec
CONSTANTS
    Callers = {c1, c2}
    Sandboxes = {s1, s2, s3, s4}
    NoSandbox = NoSandbox
    MaxSize = 2
    MinWarm = 1
    Strategy = "lifo"
    HealthCheck = TRUE
    MaxProvisions = 0
PROPERTY ClosedPoolEmpties
