CONSTANTS
    a1 = a1
    a2 = a2
    r1 = r1
    Accepting = {a1, a2}
    Rejecting = {r1}
    Other = Other
    MaxRoom = 3
    PageLimit = 2
SPECIFICATION Spec
SYMMETRY Perms
INVARIANTS
    EvidenceBeforeCursor
    AnswerHasEvidence
PROPERTIES
    CursorOnlyAdvances
    MarkerIsFinal
CHECK_DEADLOCK TRUE
