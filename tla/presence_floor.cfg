CONSTANTS
    None = None
    MaxSeq = 2
    MaxTime = 3
    Floor = 2
    Minimum = 1
    Overlap = TRUE
    MaxPreviews = 1
    MaxSends = 2
SPECIFICATION Spec
INVARIANTS
    AttemptsAnHourApart
CHECK_DEADLOCK FALSE
