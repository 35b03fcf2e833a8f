SPECIFICATION Spec
CONSTANTS
  Pids = {p1, p2}
  r1 = r1
  r2 = r2
  Runs = {r1, r2}
  Reaper = reaper
  NoPid = noPid
  MaxInFlight = 1
  MaxVersion <- Depth
  MaxBeats = 2
  FlakyHeals = {r2}
SYMMETRY Symmetry
INVARIANTS OneOwner ClaimUndisturbed HolderDrivesAll
PROPERTIES ImplementsLifecycle
\* The last daemon may stop for good.
CHECK_DEADLOCK FALSE
