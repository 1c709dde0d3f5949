SPECIFICATION FairSpec
CONSTANTS
    Clients = {c1, c2, c3}
    Numbers = {1, 2}
    Garbage = {3}
    MINCLIENTS = 2
    MAXCLIENTS = 2
INVARIANTS
    TypeOK
PROPERTIES
    MaximumIsRight
    HeardUnlessOuttalked
CHECK_DEADLOCK FALSE
