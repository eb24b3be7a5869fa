SPECIFICATION Spec
CONSTANTS
    s1 = s1
    s2 = s2
    s3 = s3
    s4 = s4
    Sessions = {s1, s2, s3, s4}
    None = None
    Torn = Torn
    Settings <- SafetySettings
    MaxSize = 2
SYMMETRY Symmetry
INVARIANTS TypeOK CommitsInBinlogOrder AcknowledgedSurvives BinloggedIsCommitted CommittedIsBinlogged ClosedFilesAreCommitted FollowerHasLeader
PROPERTIES ImplementsCommitLog
