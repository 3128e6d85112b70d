SPECIFICATION Spec
CONSTANTS
    t1 = t1
    t2 = t2
    p = p
    q = q
    Threads = {t1, t2}
    Keys <- MCKeys
    TTL = 1
    MaxSets = 2
    MaxGets = 2
    MaxStarts = 2
    MaxTime = 2
SYMMETRY MCSymmetry
INVARIANTS
    HitsAreOwnAndYoung
    ClearedStayAway
    RowsKeepUp
PROPERTIES
    SoundRowsSurvive
CHECK_DEADLOCK FALSE
