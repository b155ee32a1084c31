SPECIFICATION FairSpec
CONSTANTS
    Threads = {t1, t2}
    Writes = {w1}
    Others = {}
    Fences = {f1, f2}
PROPERTY
    FenceRuns
CHECK_DEADLOCK FALSE
