SPECIFICATION Spec
CONSTANTS
    WINDOWSIZE = 2
    MAXSEQ = 8
    MaxMsgs = 4
    Cap = 4
    Lossy = TRUE
    Reordering = TRUE
INVARIANTS
    InOrderDelivery
    NothingForgotten
