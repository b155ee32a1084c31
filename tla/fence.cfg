SPECIFICATION FairSpec
CONSTANTS
    Threads = {t1, t2}
    Writes = {w1}
    Others = {o1}
    Fences = {f1, f2}
INVARIANTS
    TypeOK
    FenceExclusive
    CountersAgree
    NoJobLost
    FenceOrder
PROPERTY
    StuckOnlyByLateWrite
CHECK_DEADLOCK FALSE
