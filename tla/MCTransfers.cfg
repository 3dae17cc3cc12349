SPECIFICATION MCSpec
CONSTANTS
    MaxFiles = 3
    MaxSize = 5
    Chunk = 2
    Interval = 3
    Ids = {t1, t2, t3}
    MaxRunning = 1
SYMMETRY IdSymmetry
CHECK_DEADLOCK FALSE
INVARIANTS
    Inv
    CancelIsPrompt
    HonestReports
    RowsAreSound
PROPERTIES
    FinalRowStays
    ProgressToTheEnd
