CONSTANTS
    p1 = p1
    p2 = p2
    Process = {p1, p2}
    Missing = Missing
    Unlocked = Unlocked
    Interval = 1
    NormalInterval = 1
    Window = 3
    Budget = 2
    MaxTime = 4
    MaxPause = 1
SPECIFICATION Spec
SYMMETRY Perms
INVARIANTS
    CallIsRecorded
    CallsAreSpaced
    DailyCeiling
    NoThirdFailure
PROPERTIES
    DisabledIsQuiet
CHECK_DEADLOCK TRUE
