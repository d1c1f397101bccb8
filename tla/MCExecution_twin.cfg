SPECIFICATION Spec
CONSTANTS
    i1 = i1
    i2 = i2
    backup = backup
    hello = hello
    Instances <- TwoInstances
    Actions <- RejectOnly
    RejectActions <- RejectOnly
    TimedActions <- RejectOnly
    EnabledActions <- RejectOnly
    Runs <- TwoRuns
    Times <- OneTime
    MaxRuns = 0
    StorageFaults = FALSE
    Supervised = TRUE
    StubbornChildren = FALSE
INVARIANTS
    RestartSummaryTruthful
