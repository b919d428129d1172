SPECIFICATION Spec
CONSTANTS
    c1 = c1
    c2 = c2
    c3 = c3
    Callers <- MCCallers
    Patient <- MCPatient
    Keys = {k1}
    Flights = {f1}
    NoFlight = NoFlight
INVARIANTS
    BystandersUnharmed
