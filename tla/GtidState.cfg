SPECIFICATION Spec
CONSTANTS
    c1 = c1
    c2 = c2
    a1 = a1
    None = None
    Clients = {c1, c2}
    Appliers = {a1}
    MaxSidno = 2
    MaxGno = 4
    Loads <- SafeLoads
SYMMETRY Symmetry
INVARIANTS TypeOK OwnershipIsExclusive GapsAreFilled LoggedOnce PreviousGtidsComplete
    ExecutedSurvives PurgedIsExact AutoPositionSendsAll NoLostWakeup
PROPERTIES WaitIsTrue
CHECK_DEADLOCK FALSE
