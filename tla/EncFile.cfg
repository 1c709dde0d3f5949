SPECIFICATION FairSpec
CONSTANTS
    KEYLEN = 2
    MAXBUFLEN = 3
    UpRoom = 4
    DownRoom = 3
    OtherBytes = {9}
    Files <- MCFiles
    MaxRounds = 3
INVARIANTS
    TypeOK
    CopyIsRight
PROPERTIES
    EveryRoundEnds
CHECK_DEADLOCK FALSE
