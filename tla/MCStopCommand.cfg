SPECIFICATION StopSpec
CONSTANTS
    p1 = p1
    p2 = p2
    p3 = p3
    u1 = u1
    Pids = {p1, p2, p3}
    Commands = {u1}
    Absent = Absent
    Empty = Empty
    MaxStarts = 4
    NameIsBinary = TRUE
SYMMETRY MCSymmetry
INVARIANTS
    OneDaemonUnlessRaced
    PidNamesDaemon
    ReachableUnlessOverlapped
    StopIsTrue
CHECK_DEADLOCK FALSE
