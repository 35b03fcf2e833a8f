CONSTANTS
    Kinds <- AllKinds
    Compatible <- Upgrade
    MaxLoops = 2
    MaxIntents = 3
    MaxStops = 2
SPECIFICATION Spec
INVARIANTS NoCancelBuried RaisesLand AdmittedWakesOnce
PROPERTIES OperatorPauseHolds
\* A run may end: a done run leaves the daemon idle.
CHECK_DEADLOCK FALSE
