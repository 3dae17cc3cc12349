SPECIFICATION MCSpec
CONSTANTS
    MaxEdits = 2
    MaxMounts = 2
    MaxCalls = 5
    Tabs = {t1}
    Sessions = {s1, s2, s3}
    Doubles = {s1}
    None = None
CHECK_DEADLOCK FALSE
INVARIANTS
    Inv
    NoSilentLoss
PROPERTIES
    SavesEndInSight
    Reconnected
