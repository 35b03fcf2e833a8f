SPECIFICATION ServicesSpec
CONSTANTS
    Shas = {a, b}
    Scopes = {c}
    Writers = {w1, w2}
    Sweepers = {g1}
    None = None
    Limit = 1
    Kinds = {"artifact", "replace", "spill", "import"}
    MaxWrites = 3
    MaxFaults = 1
INVARIANTS
    ContentSafe ServicesSound
PROPERTIES
    ServicesProgress
\* Every component may come to rest.
CHECK_DEADLOCK FALSE
