SPECIFICATION FairSpec
CONSTANTS
    Workers = {w1}
    NumFiles = 2
    Blocks = {b1, b2}
    Pieces = {p1, p2}
    b1 = b1
    b2 = b2
    b3 = b3
    b4 = b4
    p1 = p1
    p2 = p2
    p3 = p3
    PieceOf <- OneBlockPieces
    BlocksOf <- OneBlockFiles
    PadFiles = {}
    HiddenFiles = {}
    QueueBound = 1
    MaxHashFails = 0
PROPERTY
    CompletionReported
CHECK_DEADLOCK FALSE
