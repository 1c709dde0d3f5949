SPECIFICATION Spec
CONSTANTS
    N = 2
    F = 1
    Procs = {p1, p2}
    Addrs = {a, b}
    MaxOpens = 3
    QueueLimit = 1
    CrashInCall = TRUE
INVARIANTS
    TypeOK
    DescriptorsOwned
    InUseStaysOpen
SYMMETRY Symmetry
VIEW View
CHECK_DEADLOCK FALSE
