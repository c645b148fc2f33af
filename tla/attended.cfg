CONSTANTS
    Wall = 4
    Timeout = 1
    Minimum = 2
    MaxTime = 6
SPECIFICATION FairSpec
INVARIANTS
    NoPostAfterConflict
    ShownVerdictIsKept
    TimeoutHasCause
PROPERTIES
    ImplementsOneShotPost
    RunEnds
CHECK_DEADLOCK FALSE
