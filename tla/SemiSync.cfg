SPECIFICATION Spec
CONSTANTS
    MaxSessions = 3
    Replicas = {r1, r2}
    WaitCounts = {1, 2}
    MaxGroup = 2
    Bounds <- SafetyBounds
    None = None
INVARIANTS TypeOK YesIsReplicated NodesOutliveWaiters NoLostReply
PROPERTIES AckReleases
