SPECIFICATION Spec
CONSTANTS
    Hosts = {h1, h2}
    Keys = {k1}
    Files = {}
    None = None
    Attempts = {a1, a2}
    Gone = Gone
    MaxTries = 1
    MaxEdits = 0
CHECK_DEADLOCK FALSE
INVARIANT
    UnknownHostIsPrompted
