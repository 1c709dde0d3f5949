SPECIFICATION Spec
CONSTANTS
    Servers = {s1, s2}
    Heap = {n1, n2, n3, n4}
    MaxQueries = 2
INVARIANTS
    TypeOK
    NodesLinked
    OneEach
SYMMETRY Symmetry
CHECK_DEADLOCK FALSE
