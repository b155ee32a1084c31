SPECIFICATION FairSpec
CONSTANTS
    NumBlocks <- TwoPieces
    Peers = {c1, c2}
    MaxFaults = 1
    MaxRequests = 3
    MaxChanges = 1
INVARIANTS
    TypeOK
    EntriesAgree
    CountsOk
    RequestsCounted
    HaveIsOnDisk
    WritingIsWritten
PROPERTY
    PieceDecided
CHECK_DEADLOCK FALSE
