SPECIFICATION FairSpec
CONSTANTS
    p1 = p1
    p2 = p2
    w1 = w1
    w2 = w2
    NoWorker = NoWorker
    Processes <- TwoProcesses
    Workers <- TwoWorkers
    Owner <- OneEach
    Runs <- TwoRuns
    Times <- ThreeTimes
    Outcomes <- OneOutcome
    MaxAge = 1
    MaxRuns = 1
INVARIANTS
    TypeOK
    RowsHaveSnapshots
    LockHasHolder
PROPERTIES
    ImplementsHistory
    RetentionComplete
    CallReturns
