SPECIFICATION Spec
CONSTANTS
    Harnesses = {h1}
    Serves = {s1}
    Daemons = {d1, d2, d3}
    Foreign = {d3}
    Recycled = {d2}
    MaxFastFailures = 1
    MaxOutside = 1
    MaxLate = 0
    None = None
INVARIANTS
    HarnessSound
PROPERTIES
    SparesTheLiving
    Recovers
\* The last harness and the last daemon may end.
CHECK_DEADLOCK FALSE
