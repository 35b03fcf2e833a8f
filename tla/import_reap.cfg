SPECIFICATION Spec
CONSTANTS
    Shas = {a}
    Scopes = {c}
    Writers = {w1, w2}
    Sweepers = {g1}
    None = None
    Limit = 1
    Kinds = {"artifact", "import"}
    MaxWrites = 2
    MaxFaults = 0
INVARIANT ContentPresent
