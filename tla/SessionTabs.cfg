SPECIFICATION Spec
CONSTANTS
    Tabs = {t1, t2}
    Sessions = {s1, s2, s3}
    Doubles = {s1}
    None = None
SYMMETRY IdSymmetry
CHECK_DEADLOCK FALSE
INVARIANTS
    Inv
