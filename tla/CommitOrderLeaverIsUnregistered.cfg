SPECIFICATION Spec
CONSTANTS
    w1 = w1
    w2 = w2
    w3 = w3
    Workers = {w1, w2, w3}
    NTrx = 3
    RowTrx = {1, 2, 3}
    EmptyTrx = {3}
    TransRetries = 1
    KillAllowed = TRUE
CHECK_DEADLOCK FALSE
PROPERTY LeaverIsUnregistered
