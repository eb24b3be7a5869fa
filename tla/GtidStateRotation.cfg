SPECIFICATION Spec
CONSTANTS
    c1 = c1
    c2 = c2
    a1 = a1
    None = None
    Clients = {c1, c2}
    Appliers = {a1}
    MaxSidno = 2
    MaxGno = 4
    Loads <- QueryRotationLoads
SYMMETRY Symmetry
INVARIANT PreviousGtidsComplete
CHECK_DEADLOCK FALSE
