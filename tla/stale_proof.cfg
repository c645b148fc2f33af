CONSTANTS
    c1 = c1
    a1 = a1
    q1 = q1
    Client = {c1}
    Action = {a1}
    Request = {q1}
    MaxAttempts = 1
    NonceScope <- MCNonceScope
SPECIFICATION Spec
PROPERTY AttemptsNeedReadBack
CHECK_DEADLOCK FALSE
