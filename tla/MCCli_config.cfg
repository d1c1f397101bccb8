SPECIFICATION FairSpec
CONSTANTS
    ServicePath <- BlankPath
    ExampleFile <- Example
    FileValues <- AnyFileValues
    ActionValues <- AnyActionValues
    TokenValues <- AnyTokenValues
    MaxEdits = 3
    MaxItems = 2
    Day = 5
    DayBits = 6
INVARIANTS
    TypeOK
    AcceptedIsUsable
    ScopeAsWritten
    EnvironmentAsWritten
    ExitCodeTruthful
    StoreClosedOnExit
PROPERTIES
    SignalEndsServe
