SPECIFICATION Spec
CONSTANTS
    Callers = {c1, c2}
    Sandboxes = {s1, s2, s3, s4}
    NoSandbox = NoSandbox
    MaxSize = 1
    MinWarm = 0
    Strategy = "lifo"
    HealthCheck = FALSE
    MaxProvisions = 0
INVARIANT AcloseWakesWaiters
