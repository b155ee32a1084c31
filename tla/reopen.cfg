SPECIFICATION Spec
CONSTANTS
    f1 = f1
    f2 = f2
    p1 = p1
    p2 = p2
    Files = {f1, f2}
    Pieces = {p1, p2}
    FileOf <- Layout
    Sessions = {s1, s2}
    MaxVisits = 2
    MaxBad = 1
    MaxKills = 1
SYMMETRY Symmetry
INVARIANTS TypeOK FullRowExplained
PROPERTY DamageOnlyByStaleCheck
CHECK_DEADLOCK FALSE
