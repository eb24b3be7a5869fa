SPECIFICATION Spec
CONSTANTS
    s1 = s1
    s2 = s2
    s3 = s3
    s4 = s4
    Sessions = {s1, s2, s3}
    None = None
    Torn = Torn
    Settings <- LiveSettings
    MaxSize = 1
PROPERTIES CommitEnds
