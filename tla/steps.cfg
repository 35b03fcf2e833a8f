SPECIFICATION StepsSpec
CONSTANTS
    Nodes <- LinearSteps
    StartNode = "work"
    OnSuccess <- AfterSuccess
    OnFail <- AfterFailure
    Gates = {"gate"}
    RetargetOf <- BackToWork
    MaxRetries <- RetriesOf
    GateCap = 1
    Budget = 4
    BudgetHalts = FALSE
    ProviderCap = 1
    TimeoutCap = 2
    LoopCap = 4
    AbortCap = 2
    MaxAsks = 2
    None = None
INVARIANTS
    TurnSafe LanguageSound ResultsHold McpSound
PROPERTIES
    RoutingHeld TurnsSettle
\* A walk ends.
CHECK_DEADLOCK FALSE
