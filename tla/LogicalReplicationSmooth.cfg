SPECIFICATION Spec
CONSTANTS
    Sessions = {s1, s2}
    a = a
    b = b
    n = n
    Rows = {a, b, n}
    Keyed = {a, b}
    Loads <- AllLoads
    NWorkers = 2
    GaqSize = 3
    MaxGaps = 1
    MaxFailures = 1
CHECK_DEADLOCK FALSE
INVARIANT
    SmoothTransition
