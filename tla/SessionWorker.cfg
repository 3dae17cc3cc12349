SPECIFICATION FairSpec
CONSTANTS
    ShellCalls = {c1}
    ExecCalls = {x1}
    SftpCalls = {s1}
    Transfers = {t1, t2}
    TunnelCalls = {n1}
    MaxCalls = 3
    Shutdown = Shutdown
    None = None
CHECK_DEADLOCK FALSE
INVARIANTS
    Inv
    WaitingIsHeld
    TeardownCancelsTransfers
PROPERTIES
    QuietAfterDisconnected
    ImplementsTransferJob
    WorkEnds
