SPECIFICATION Spec
CONSTANTS
    Harnesses = {h1, h2}
    Serves = {}
    Daemons = {d1, d2}
    Foreign = {}
    Recycled = {}
    MaxFastFailures = 1
    MaxOutside = 0
    MaxLate = 1
    None = None
INVARIANTS
    HarnessSound
PROPERTIES
    SparesTheLiving
\* The last harness and the last daemon may end.
CHECK_DEADLOCK FALSE
