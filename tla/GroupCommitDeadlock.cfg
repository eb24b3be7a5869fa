SPECIFICATION Spec
CONSTANTS
    s1 = s1
    s2 = s2
    s3 = s3
    s4 = s4
    Sessions = {s1, s2}
    None = None
    Torn = Torn
    Settings <- UnorderedSettings
    MaxSize = 1
CHECK_DEADLOCK FALSE
PROPERTIES CommitEnds
