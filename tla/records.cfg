SPECIFICATION RecordsSpec
CONSTANTS
    Runs = {1, 2}
    Clients = {1, 2}
    RunPlans <- CheckoutPlans
    MaxWork = 1
    MaxFaults = 1
    MaxVerbs = 1
    None = None
INVARIANTS
    CheckoutSafe OneRunSeen SessionSound TravelSound SchemaSound
\* Every run may have ended.
CHECK_DEADLOCK FALSE
