SPECIFICATION FairSpec
CONSTANTS
    WINDOWSIZE = 2
    MAXSEQ = 4
    MaxMsgs = 5
    Cap = 4
    Lossy = TRUE
    Reordering = FALSE
INVARIANTS
    TypeOK
    InOrderDelivery
    NothingForgotten
    NoOverrun
    NewAckIsFound
    IInv
PROPERTIES
    EdgeNeverRetracts
    PipeSpec
    DeliveredUnlessStalled
