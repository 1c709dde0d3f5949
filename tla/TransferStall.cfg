SPECIFICATION FairSpec
CONSTANTS
    WINDOWSIZE = 2
    MAXSEQ = 4
    MaxMsgs = 3
    Cap = 4
    Lossy = TRUE
    Reordering = FALSE
PROPERTIES
    EveryMessageDelivered
