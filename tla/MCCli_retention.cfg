SPECIFICATION FairSpec
CONSTANTS
    ServicePath <- BlankPath
    ExampleFile <- Example
    FileValues <- DaysOnly
    ActionValues <- Nothing
    TokenValues <- Nothing
    MaxEdits = 1
    MaxItems = 1
    Day = 5
    DayBits = 6
INVARIANT
    RetentionAsConfigured
