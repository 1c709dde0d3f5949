SPECIFICATION FairSpec
CONSTANTS
    MAXTASKS = 3
    Lines = 2
    Clients = {c1, c2}
INVARIANTS
    TypeOK
    InOnePlace
    RightResult
PROPERTIES
    NoneMeansNone
    PoolSpec
    TaskComesBack
    EveryRequestAnswered
CHECK_DEADLOCK FALSE
