SPECIFICATION Spec
CONSTANTS
    Workers = {w1, w2}
    NumFiles = 2
    Blocks = {b1, b2, b3}
    Pieces = {p1, p2}
    b1 = b1
    b2 = b2
    b3 = b3
    b4 = b4
    p1 = p1
    p2 = p2
    p3 = p3
    PieceOf <- TwoPieces
    BlocksOf <- SharedPiece
    PadFiles = {}
    HiddenFiles = {2}
    QueueBound = 2
    MaxHashFails = 1
SYMMETRY WorkerSymmetry
INVARIANTS
    TypeOK
    SlotExclusive
    NoStaleCallbacks
    PrioritiesFollowSelection
    FinishIsSound
    LeakOnlyBySilentEnd
    RowsUpToDate
PROPERTY
    ImplementsSlot
CHECK_DEADLOCK FALSE
