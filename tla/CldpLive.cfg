SPECIFICATION FairSpec
CONSTANTS
    Servers = {s1, s2}
    Heap = {n1, n2, n3}
    MaxQueries = 1
PROPERTIES
    StoppedIsDropped
    RunningIsFound
CHECK_DEADLOCK FALSE
