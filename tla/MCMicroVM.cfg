SPECIFICATION Spec
CONSTANTS
    Pinger = Pinger
    Clients = {u1, Pinger}
    Exchanges = {e1, e2}
    NoEx = NoEx
    Kinds = {"quick", "bulk", "hugeAsk", "hugeAnswer"}
    Threads = 2
    Backlog = 2
    Procs = {p1, p2}
    NoProc = NoProc
SYMMETRY Symmetry
INVARIANTS
    NoLateCommand
    NoStrayVM
    BoundToOwnVM
