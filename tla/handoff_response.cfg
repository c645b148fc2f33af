CONSTANTS
    p1 = p1
    p2 = p2
    a1 = a1
    a2 = a2
    Process = {p1, p2}
    Approval = {a1, a2}
    NoProcess = NoProcess
    NoApproval = NoApproval
    NoFile = NoFile
SPECIFICATION Spec
PROPERTIES
    EveryResponseIsRecorded
CHECK_DEADLOCK TRUE
