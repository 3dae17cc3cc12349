SPECIFICATION MCSpec
CONSTANTS
    h1 = h1
    h2 = h2
    k1 = k1
    Hosts = {h1, h2}
    Keys = {k1, k2}
    Files <- MCFiles
    Threads = {w1, w2}
    Calls <- MCCalls
    NoCall = NoCall
    Torn = Torn
    None = None
    Attempts = {a1, a2}
    Gone = Gone
    MaxTries = 2
    MaxEdits = 1
    Suites <- MCSuites
    Plans <- MCPlans
    Payloads = {20}
    Chunks = {1, 4, 5, 8, 15, 17}
    BufSize = 64
    MaxPayload = 80
    MaxSends = 1
CHECK_DEADLOCK FALSE
INVARIANTS
    ConnectionsInv
    SecretsOnlyToApproved
    PacketsComeThrough
    SentIsWellFormed
PROPERTIES
    ImplementsTrustedHosts
