SPECIFICATION FairSpec
CONSTANTS
    N = 2
    F = 1
    Procs = {p1}
    Addrs = {a, b}
    MaxOpens = 2
    QueueLimit = 1
    CrashInCall = FALSE
PROPERTIES
    ReleasedUnlessStuck
CHECK_DEADLOCK FALSE
