SPECIFICATION FairSpec
CONSTANTS
    c1 = c1
    c2 = c2
    c3 = c3
    Callers <- MCCallers
    Patient <- MCPatient
    Keys = {k1, k2}
    Flights = {f1, f2}
    NoFlight = NoFlight
INVARIANTS
    TypeOK
    OneExecution
PROPERTIES
    KeepsContract
    FlightEnds
