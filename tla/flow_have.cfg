SPECIFICATION Spec
CONSTANTS
    NumBlocks <- OneBlock
    Peers = {c1, c2}
    MaxFaults = 2
    MaxRequests = 2
    MaxChanges = 0
INVARIANT
    HaveMeansFlushed
CHECK_DEADLOCK FALSE
