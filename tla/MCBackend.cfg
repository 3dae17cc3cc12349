SPECIFICATION MCSpec
CONSTANTS
    Sessions = {s1, s2, spare}
    spare = spare
    Adhoc = {s1}
    Tunneled = {s2}
    Calls = {c1}
    None = None
    Tunnels = {a, b}
    Remote = {b}
    Refreshes = {r1}
    MaxCommands = 3
    MaxStarts = 2
    h1 = h1
    k1 = k1
    Hosts = {h1, h2}
    Keys = {k1}
    Files = {}
    Attempts = {a1, a2}
    Gone = Gone
    MaxTries = 2
    MaxEdits = 0
CHECK_DEADLOCK FALSE
INVARIANTS
    BackendInv

    
