SPECIFICATION Spec
CONSTANTS
    i1 = i1
    i2 = i2
    backup = backup
    hello = hello
    Instances <- OneInstance
    Actions <- BothActions
    RejectActions <- RejectOnly
    TimedActions <- RejectOnly
    EnabledActions <- BothActions
    Runs <- TwoRuns
    Times <- TwoTimes
    MaxRuns = 1
    StorageFaults = TRUE
    Supervised = TRUE
    StubbornChildren = TRUE
INVARIANTS
    TypeOK
    RejectExclusive
    GateHasHolder
    StatusMatchesProcess
    RestartSummaryTruthful
    NoOverlap
    RecoveredBeforeServing
PROPERTIES
    TerminalIsFinal
    ImplementsLifecycle
