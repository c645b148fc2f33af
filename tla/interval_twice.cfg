CONSTANTS
    p1 = p1
    p2 = p2
    Proc = {p1, p2}
    None = None
SYMMETRY Perms
SPECIFICATION Spec
INVARIANTS
    IntervalStartedOnce
CHECK_DEADLOCK FALSE
