SPECIFICATION Spec
CONSTANTS
    MaxSessions = 3
    Replicas = {r1, r2, r3}
    WaitCounts = {3}
    MaxGroup = 2
    Bounds <- QuietBounds
    None = None
INVARIANT
    YesIsReplicated
