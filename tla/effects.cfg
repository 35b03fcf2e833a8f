CONSTANTS
    NumNodes = 2
    FailTo <- LoopBack
    MaxRetries = 0
    TimeoutMax = 2
    AbortCeiling = 2
    HealMayFail = TRUE
    MaxCalls = 4
    MaxCrashes = 2
    None = None
SPECIFICATION EffectsSpec
INVARIANTS
    QuarantineIsWarranted NoBlindRetry ToolsSound
PROPERTIES
    LostCallsReachOperator NoUpdateLost
\* A run may end, and so may every call: the rest is an idle daemon.
CHECK_DEADLOCK FALSE
