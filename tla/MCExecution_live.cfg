SPECIFICATION FairSpec
CONSTANTS
    i1 = i1
    i2 = i2
    backup = backup
    hello = hello
    Instances <- OneInstance
    Actions <- RejectOnly
    RejectActions <- RejectOnly
    TimedActions <- RejectOnly
    EnabledActions <- RejectOnly
    Runs <- TwoRuns
    Times <- OneTime
    MaxRuns = 1
    StorageFaults = TRUE
    Supervised = TRUE
    StubbornChildren = FALSE
PROPERTIES
    TimedInvocationReturns
    GateReleased
    AcceptedSettles
