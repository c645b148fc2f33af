CONSTANTS
    n1 = n1
    k1 = k1
    k2 = k2
    v1 = v1
    v2 = v2
    Namespace = {n1}
    Key = {k1, k2}
    Fetched = {k1}
    Value = {v1, v2}
    MaxKeys = 1
    Runs = 3
    None = None
SYMMETRY Perms
SPECIFICATION Spec
INVARIANTS
    PollsArePublished
CHECK_DEADLOCK FALSE
