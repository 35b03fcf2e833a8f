SPECIFICATION EngineSpec
CONSTANTS
    Paths <- TwoBranches
    Limit = 2
    OccCeiling = 2
    AbortCeiling = 2
    MaxLoops = 3
    MaxFaults = 2
    None = None
INVARIANTS
    SpendSettled RegionSafe ToolStepSound
PROPERTIES
    FoldRides EngineSettles
\* A settled run leaves the engine idle.
CHECK_DEADLOCK FALSE
