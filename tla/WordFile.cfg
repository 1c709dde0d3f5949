SPECIFICATION FairSpec
CONSTANTS
    Clients = {c1, c2}
    Words = {"lab", "networks"}
    Size <- MCSize
    MaxWords = 4
    MaxRuns = 2
INVARIANTS
    TypeOK
    WholeFile
PROPERTIES
    EveryClientEnds
CHECK_DEADLOCK FALSE
