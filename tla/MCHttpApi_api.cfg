SPECIFICATION Spec
CONSTANTS
    c1 = c1
    c2 = c2
    Runs <- OneRun
    Connections <- TwoConnections
    Tokens <- TwoTokens
    Actions <- TwoActions
    EnabledActions <- Deploy
    UnknownAction = "unknown"
    Configs <- SomeConfigs
    StatusFilters <- Filters
SYMMETRY Symmetry
INVARIANTS
    TypeOK
    ScopeRespected
    ReadableOnceTold
    CodesMatchHistory
