SPECIFICATION Spec
CONSTANTS
    Workers = {w1, w2}
    NumFiles = 4
    Blocks = {b1, b2, b3, b4}
    Pieces = {p1, p2, p3}
    b1 = b1
    b2 = b2
    b3 = b3
    b4 = b4
    p1 = p1
    p2 = p2
    p3 = p3
    PieceOf <- WithPaddingPiece
    BlocksOf <- PaddedAndEmpty
    PadFiles = {2}
    HiddenFiles = {}
    QueueBound = 1
    MaxHashFails = 0
SYMMETRY WorkerSymmetry
INVARIANTS
    PrioritiesFollowSelection
    FinishIsSound
CHECK_DEADLOCK FALSE
