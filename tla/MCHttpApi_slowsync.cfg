SPECIFICATION Spec
CONSTANTS
    c1 = c1
    c2 = c2
    Runs <- OneRun
    Connections <- OneConnection
    Tokens <- TwoTokens
    Actions <- TwoActions
    EnabledActions <- Deploy
    UnknownAction = "unknown"
    Configs <- OneConfig
    StatusFilters <- Filters
INVARIANTS
    CompletedRunIsAnswered
