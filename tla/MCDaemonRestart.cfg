SPECIFICATION Spec
CONSTANTS
    p1 = p1
    p2 = p2
    Pids = {p1, p2}
    Absent = Absent
    Empty = Empty
    MaxStarts = 2
SYMMETRY MCSymmetry
INVARIANTS
    ReachableUnlessRaced
CHECK_DEADLOCK FALSE
