------------------------ MODULE RunOwnership_proofs ------------------------
(***************************************************************************)
(* RunOwnership, for every number of runs, processes and versions; and the *)
(* supervision of the daemon (Harness, here as the instance H), for every  *)
(* number of harnesses, servers, daemons, failures and crashes.            *)
(***************************************************************************)
EXTENDS RunOwnership, FiniteSetTheorems, TLAPS

CONSTANTS Harnesses, Serves, Daemons, Foreign, Recycled, MaxFastFailures, MaxOutside, MaxLate, None
VARIABLES held, expired, endpoint, proc, parent, told, attempt, watched, stage, child, timers, fails, window,
          seen, server, unclear, target, outside, late

H == INSTANCE Harness WITH lock <- held, stale <- expired, snap <- seen, pc <- stage

(* The fence is inductive once three facts are added: a fiber's epoch is   *)
(* never ahead of its row's, no two fibers of a run share an epoch, past   *)
(* or present, and a wake whose version still matches is about a parked    *)
(* run.                                                                    *)
EpochsBounded == \A f \in fibers : f.epoch <= rows[f.run].epoch

EpochsDistinct == \A f, g \in fibers : f.run = g.run /\ f.epoch = g.epoch => f = g

WakesFresh ==
    \A w \in wakes :
        /\ w.ver <= rows[w.run].version
        /\ w.ver = rows[w.run].version => rows[w.run].status \in {"paused", "quarantined"}

FenceInv == EpochsBounded /\ EpochsDistinct /\ ClaimUndisturbed /\ WakesFresh

IInv == TypeOK /\ FenceInv

-----------------------------------------------------------------------------
\* The initial state satisfies the inductive invariant.
LEMMA InitIInv == Init => IInv
<1> SUFFICES ASSUME Init PROVE IInv
  OBVIOUS
<1>1. TypeOK
  BY DEF Init, TypeOK, Row, Status, Lock, Sweep, Idle
<1>2. FenceInv
  BY DEF Init, FenceInv, EpochsBounded, EpochsDistinct, ClaimUndisturbed, WakesFresh
<1> QED BY <1>1, <1>2 DEF IInv

\* What the operators on rows and on the lock return.
LEMMA FencedType ==
    ASSUME NEW row \in Row, NEW status \in Status
    PROVE  /\ Fenced(row, status) \in Row
           /\ Fenced(row, status).status = status
           /\ Fenced(row, status).version = row.version + 1
           /\ Fenced(row, status).epoch = row.epoch + 1
  BY DEF Fenced, Row

\* Every variable keeps its type under every step.
LEMMA NextTypeOK == TypeOK /\ [Next]_vars => TypeOK'
<1> SUFFICES ASSUME TypeOK, [Next]_vars PROVE TypeOK'
  OBVIOUS
<1> USE DEF TypeOK, Row, Status, Lock
<1>1. ASSUME NEW p \in Pids, DaemonStep(p) PROVE TypeOK'
  <2>1. CASE AcquireDaemonLock(p) \/ ForceAcquireDaemonLock(p)
    <3>1. lock' \in Lock
      BY <2>1 DEF AcquireDaemonLock, ForceAcquireDaemonLock, InstallLock
    <3>2. stale' = FALSE
      BY <2>1, Zenon DEF AcquireDaemonLock, ForceAcquireDaemonLock, InstallLock
    <3>3. sweep' \in [Sweepers -> Sweep]
      <4>1. Scanning \in Sweep
        BY DEF Scanning, Sweep
      <4>2. sweep' = [sweep EXCEPT ![p] = Scanning]
        BY <2>1, Zenon DEF AcquireDaemonLock, ForceAcquireDaemonLock
      <4> QED BY <4>1, <4>2 DEF Sweepers
    <3> QED BY <2>1, <3>1, <3>2, <3>3 DEF AcquireDaemonLock, ForceAcquireDaemonLock
  <2>2. CASE SeeStaleLock(p) \/ HeartbeatLost(p)
    BY <2>2 DEF SeeStaleLock, HeartbeatLost
  <2>3. CASE HeartbeatOwned(p)
    <3>1. lock' \in Lock
      BY <2>3 DEF HeartbeatOwned, InstallLock
    <3>2. stale' \in BOOLEAN
      BY <2>3 DEF HeartbeatOwned, InstallLock
    <3> QED BY <2>3, <3>1, <3>2 DEF HeartbeatOwned
  <2>4. CASE ReleaseDaemonLock(p)
    BY <2>4 DEF ReleaseDaemonLock
  <2>5. CASE Exit(p)
    BY <2>5 DEF Exit, Dies, Idle, Sweep, Sweepers
  <2> QED BY <1>1, <2>1, <2>2, <2>3, <2>4, <2>5 DEF DaemonStep
<1>2. ASSUME NEW p \in Pids, ExecutorStep(p) PROVE TypeOK'
  <2>1. ASSUME NEW r \in Runs, WakeRead(p, r) PROVE TypeOK'
    BY <2>1 DEF WakeRead, Wake
  <2>2. ASSUME NEW r \in Runs, ClaimNextRun(p, r) PROVE TypeOK'
    <3>1. rows' \in [Runs -> Row]
      BY <2>2 DEF ClaimNextRun, Fenced
    <3>2. fibers' \subseteq Fiber
      BY <2>2 DEF Fenced, ClaimNextRun, Fiber
    <3> QED BY <2>2, <3>1, <3>2 DEF ClaimNextRun
  <2> QED BY <1>2, <2>1, <2>2 DEF ExecutorStep
<1>3. ASSUME NEW p \in Pids, Shutdown(p) \/ Crash(p) PROVE TypeOK'
  <2>1. CASE Shutdown(p)
    BY <2>1 DEF Shutdown
  <2>2. CASE Crash(p)
    BY <2>2 DEF Crash, Dies, Idle, Sweep, Sweepers
  <2> QED BY <1>3, <2>1, <2>2
<1>4. ASSUME NEW a \in Sweepers, SweepStep(a) PROVE TypeOK'
  <2>1. CASE SweepScan(a)
    BY <2>1 DEF SweepScan, Sweep
  <2>2. CASE SweepEnds(a)
    BY <2>2 DEF SweepEnds, Sweep, Idle, Sweepers
  <2>3. ASSUME NEW r \in Runs, HealQuarantine(a, r) PROVE TypeOK'
    <3>1. rows' \in [Runs -> Row]
      BY <2>3 DEF HealQuarantine, Fenced
    <3>2. sweep' \in [Sweepers -> Sweep]
      BY <2>3 DEF HealQuarantine, Sweep
    <3> QED BY <2>3, <3>1, <3>2 DEF HealQuarantine
  <2>4. ASSUME NEW r \in Runs, HealRequeue(a, r) PROVE TypeOK'
    <3>1. rows' \in [Runs -> Row]
      BY <2>4 DEF HealRequeue, Fenced
    <3>2. sweep' \in [Sweepers -> Sweep]
      BY <2>4 DEF HealRequeue, Sweep
    <3> QED BY <2>4, <3>1, <3>2 DEF HealRequeue
  <2>5. ASSUME NEW r \in Runs, HealFails(a, r) PROVE TypeOK'
    <3>1. CASE sweep' = [sweep EXCEPT ![a].toQuarantine = @ \ {r}]
      BY <2>5, <3>1 DEF HealFails, Sweep
    <3>2. CASE sweep' = [sweep EXCEPT ![a].toRequeue = @ \ {r}]
      BY <2>5, <3>2 DEF HealFails, Sweep
    <3> QED BY <2>5, <3>1, <3>2 DEF HealFails
  <2> QED BY <1>4, <2>1, <2>2, <2>3, <2>4, <2>5 DEF SweepStep
<1>5. CASE ReaperStep
  BY <1>5 DEF ReaperStep, EvictSnapshot, EvictDelete, ReaperDies, Sweep, Idle, Scanning, Sweepers
<1>6. CASE LockExpires
  BY <1>6 DEF LockExpires
<1>7. ASSUME NEW w \in wakes, WakeStep(w) PROVE TypeOK'
  <2>1. PICK status \in {"queued", "done"}, settled \in BOOLEAN : WakeCommit(w, status, settled)
    BY <1>7 DEF WakeStep
  <2>2. rows' \in [Runs -> Row]
    BY <2>1 DEF WakeCommit, Woken, Wake
  <2> QED BY <2>1, <2>2 DEF WakeCommit
<1>8. ASSUME NEW f \in fibers, FiberStep(f) PROVE TypeOK'
  <2>1. CASE FiberStops(f) \/ FiberTurn(f) \/ FiberRejected(f)
    <3>1. CASE FiberStops(f)
      BY <3>1 DEF FiberStops, Ends
    <3>2. CASE FiberTurn(f)
      <4>1. fibers' \subseteq Fiber
        BY <3>2 DEF FiberTurn, Ends, Becomes, Fiber
      <4> QED BY <3>2, <4>1 DEF FiberTurn
    <3>3. CASE FiberRejected(f)
      <4>1. ASSUME NEW pc \in {"work", "turn"}
            PROVE  [f EXCEPT !.pc = pc, !.ver = rows[f.run].version] \in Fiber
        BY DEF Fiber
      <4>2. fibers' \subseteq Fiber
        BY <3>3, <4>1 DEF FiberRejected, Ends, Becomes
      <4> QED BY <3>3, <4>2 DEF FiberRejected
    <3> QED BY <2>1, <3>1, <3>2, <3>3
  <2>2. CASE ReleaseClaim(f)
    <3>1. rows' \in [Runs -> Row]
      BY <2>2 DEF ReleaseClaim, Fenced, Fiber
    <3> QED BY <2>2, <3>1 DEF ReleaseClaim, Ends
  <2>3. ASSUME NEW status \in {"running", "paused", "done"}, FiberCommit(f, status) PROVE TypeOK'
    BY <2>3 DEF FiberCommit, Ends, Becomes, Fiber
  <2>4. ASSUME NEW open \in BOOLEAN, RecordEffect(f, open) PROVE TypeOK'
    BY <2>4 DEF RecordEffect, Becomes, Fiber
  <2>5. CASE SteeringApplied(f)
    BY <2>5 DEF SteeringApplied, Fiber
  <2> QED BY <1>8, <2>1, <2>2, <2>3, <2>4, <2>5 DEF FiberStep
<1>9. ASSUME NEW r \in Runs, ProjectEnded(r) PROVE TypeOK'
  BY <1>9 DEF ProjectEnded, Woken
<1>10. CASE UNCHANGED vars
  BY <1>10 DEF vars
<1> QED BY <1>1, <1>2, <1>3, <1>4, <1>5, <1>6, <1>7, <1>8, <1>9, <1>10 DEF Next

\* No step lets two fibers share a claim, moves a run under a standing claim
\* or leaves a wake with a matching version of a run that is not parked.
LEMMA NextFenceInv == IInv /\ [Next]_vars => FenceInv'
<1> SUFFICES ASSUME IInv, [Next]_vars PROVE FenceInv'
  OBVIOUS
<1> USE DEF IInv, FenceInv, EpochsBounded, EpochsDistinct, ClaimUndisturbed, WakesFresh,
            HoldsClaim, TypeOK, Row, Fiber, Wake
<1>1. ASSUME UNCHANGED <<rows, fibers, wakes>> PROVE FenceInv'
  BY <1>1
<1>2. ASSUME NEW p \in Pids, Dies(p) PROVE FenceInv'
  BY <1>2 DEF Dies
<1>3. ASSUME NEW p \in Pids, NEW r \in Runs, WakeRead(p, r) PROVE FenceInv'
  BY <1>3 DEF WakeRead
<1>4. ASSUME NEW p \in Pids, NEW r \in Runs, ClaimNextRun(p, r) PROVE FenceInv'
  BY <1>4 DEF ClaimNextRun, Fenced
<1>5. ASSUME NEW a \in Sweepers, NEW r \in Runs, HealQuarantine(a, r) PROVE FenceInv'
  BY <1>5 DEF HealQuarantine, Fenced
<1>6. ASSUME NEW a \in Sweepers, NEW r \in Runs, HealRequeue(a, r) PROVE FenceInv'
  BY <1>6 DEF HealRequeue, Fenced
<1>7. ASSUME NEW w \in wakes, WakeStep(w) PROVE FenceInv'
  BY <1>7 DEF WakeStep, WakeCommit, Woken
<1>8. ASSUME NEW f \in fibers, FiberStep(f) PROVE FenceInv'
  <2>1. CASE FiberStops(f)
    BY <2>1 DEF FiberStops, Ends
  <2>2. CASE FiberTurn(f)
    BY <2>2 DEF FiberTurn, Ends, Becomes
  <2>3. CASE FiberRejected(f)
    <3>1. CASE Ends(f)
      BY <2>3, <3>1 DEF FiberRejected, Ends
    <3>2. ASSUME NEW pc \in {"work", "turn"},
                 Becomes(f, [f EXCEPT !.pc = pc, !.ver = rows[f.run].version])
          PROVE  FenceInv'
      <4> DEFINE g == [f EXCEPT !.pc = pc, !.ver = rows[f.run].version]
      <4>1. g.run = f.run /\ g.epoch = f.epoch /\ g.ver = rows[f.run].version
        OBVIOUS
      <4>2. fibers' = (fibers \ {f}) \cup {g} /\ UNCHANGED <<rows, wakes>>
        BY <2>3, <3>2 DEF FiberRejected, Becomes
      <4>3. rows[f.run].status = "running"
        BY <2>3, <3>2, <4>1, <4>2 DEF FiberRejected, Ends
      <4> HIDE DEF g
      <4>4. EpochsBounded'
        BY <4>1, <4>2
      <4>5. EpochsDistinct'
        BY <4>1, <4>2
      <4>6. ClaimUndisturbed'
        BY <4>1, <4>2, <4>3
      <4>7. WakesFresh'
        BY <4>2
      <4> QED BY <4>4, <4>5, <4>6, <4>7
    <3> QED BY <2>3, <3>1, <3>2 DEF FiberRejected
  <2>4. CASE ReleaseClaim(f)
    BY <2>4 DEF ReleaseClaim, Ends, Fenced
  <2>5. ASSUME NEW status \in {"running", "paused", "done"}, FiberCommit(f, status) PROVE FenceInv'
    BY <2>5 DEF FiberCommit, Ends, Becomes, CanAppend
  <2>6. ASSUME NEW open \in BOOLEAN, RecordEffect(f, open) PROVE FenceInv'
    BY <2>6 DEF RecordEffect, Becomes
  <2>7. CASE SteeringApplied(f)
    BY <2>7 DEF SteeringApplied
  <2> QED BY <1>8, <2>1, <2>2, <2>3, <2>4, <2>5, <2>6, <2>7 DEF FiberStep
<1>9. ASSUME NEW r \in Runs, ProjectEnded(r) PROVE FenceInv'
  BY <1>9 DEF ProjectEnded, Woken
<1> HIDE DEF IInv, FenceInv, TypeOK
<1> QED
  BY <1>1, <1>2, <1>3, <1>4, <1>5, <1>6, <1>7, <1>8, <1>9
     DEF Next, DaemonStep, ExecutorStep, SweepStep, ReaperStep, vars,
         AcquireDaemonLock, SeeStaleLock, ForceAcquireDaemonLock, HeartbeatOwned, HeartbeatLost,
         ReleaseDaemonLock, Exit, Shutdown, Crash, SweepScan, SweepEnds, HealFails,
         EvictSnapshot, EvictDelete, ReaperDies, LockExpires

\* Every step of a daemon, a fiber, a sweep or the reaper keeps the invariant.
LEMMA NextIInv == IInv /\ [Next]_vars => IInv'
  BY NextTypeOK, NextFenceInv DEF IInv

\* The inductive invariant holds in every reachable state.
LEMMA SpecIInv == Spec => []IInv
<1>1. IInv /\ [Next]_vars => IInv'
  BY NextIInv
<1> QED BY InitIInv, <1>1, PTL DEF Spec

\* Type correctness of the store rows, the lock, the processes and the fibers.
THEOREM TypeCorrect == Spec => []TypeOK
<1>1. IInv => TypeOK
  BY DEF IInv
<1> QED BY SpecIInv, <1>1, PTL

\* The claim fence: at any moment at most one fiber, in any process, holds a
\* run's claim (claimNextRun and every requeue bump claim_epoch).
THEOREM OneOwnerHolds == Spec => []OneOwner
<1>1. IInv => OneOwner
  BY DEF IInv, FenceInv, EpochsDistinct, OneOwner, HoldsClaim
<1> QED BY SpecIInv, <1>1, PTL

\* While a claim stands its run is running and its version only moves forward:
\* a turn that still owns the run can always plan a lost commit again.
THEOREM ClaimUndisturbedHolds == Spec => []ClaimUndisturbed
<1>1. IInv => ClaimUndisturbed
  BY DEF IInv, FenceInv
<1> QED BY SpecIInv, <1>1, PTL

-----------------------------------------------------------------------------
(* What a step does to the rows, whoever takes it. *)

\* A row that moves is moved by the sweep, a release, a claim, a wake of a
\* parked run, a fact that leaves its status alone (a receipt, a side effect,
\* the facts of an ended run), or a fiber that holds its claim.
RowStep(r) ==
    \/ rows'[r] = rows[r]
    \/ rows'[r] = Fenced(rows[r], "quarantined") /\ rows[r].status \notin {"done", "quarantined"}
    \/ rows'[r] = Fenced(rows[r], "queued") /\ rows[r].status = "running"
    \/ /\ rows'[r] = Fenced(rows[r], "running")
       /\ rows[r].status = "queued"
       /\ Cardinality(RunningRuns) < MaxInFlight
    \/ /\ rows'[r].epoch = rows[r].epoch
       /\ rows'[r].status # "running"
       /\ rows[r].status \in {"paused", "quarantined"}
    \/ \E status \in {"done", "running"} :
          rows'[r] = Woken(rows[r], status) /\ rows[r].status = status
    \/ /\ rows'[r].epoch = rows[r].epoch
       /\ \E f \in fibers :
            /\ f.run = r /\ HoldsClaim(f) /\ f.pc = "work"
            /\ rows'[r].status # "running" => f \notin fibers'

\* A step leaves a row alone or moves it in one of the ways RowStep lists.
LEMMA StepRows == IInv /\ [Next]_vars => \A r \in Runs : RowStep(r)
<1> SUFFICES ASSUME IInv, [Next]_vars, NEW r \in Runs PROVE RowStep(r)
  OBVIOUS
<1> USE DEF RowStep, IInv, TypeOK, Row
<1>1. CASE rows' = rows
  BY <1>1
<1>2. ASSUME NEW p \in Pids, NEW q \in Runs, ClaimNextRun(p, q) PROVE RowStep(r)
  BY <1>2 DEF ClaimNextRun
<1>3. ASSUME NEW a \in Sweepers, NEW q \in Runs, HealQuarantine(a, q) \/ HealRequeue(a, q)
      PROVE RowStep(r)
  BY <1>3 DEF HealQuarantine, HealRequeue
<1>4. ASSUME NEW w \in wakes, WakeStep(w) PROVE RowStep(r)
  BY <1>4 DEF WakeStep, WakeCommit, Woken, Wake, FenceInv, WakesFresh
<1>5. ASSUME NEW f \in fibers, FiberStep(f) PROVE RowStep(r)
  <2>1. CASE ReleaseClaim(f)
    BY <2>1 DEF ReleaseClaim, Fiber
  <2>2. ASSUME NEW status \in {"running", "paused", "done"}, FiberCommit(f, status) PROVE RowStep(r)
    BY <2>2 DEF FiberCommit, CanAppend, HoldsClaim, Ends, Becomes, Fiber
  <2>3. ASSUME NEW open \in BOOLEAN, RecordEffect(f, open) PROVE RowStep(r)
    BY <2>3 DEF RecordEffect, Woken, Fiber
  <2>4. CASE SteeringApplied(f)
    BY <2>4 DEF SteeringApplied, Woken, Fiber
  <2> HIDE DEF RowStep
  <2> QED
    BY <1>1, <1>5, <2>1, <2>2, <2>3, <2>4 DEF FiberStep, FiberStops, FiberTurn, FiberRejected
<1>6. ASSUME NEW q \in Runs, ProjectEnded(q) PROVE RowStep(r)
  BY <1>6 DEF ProjectEnded
<1> HIDE DEF RowStep, IInv
<1> QED
  BY <1>1, <1>2, <1>3, <1>4, <1>5, <1>6
     DEF Next, DaemonStep, ExecutorStep, SweepStep, ReaperStep, vars, WakeRead, Dies,
         AcquireDaemonLock, SeeStaleLock, ForceAcquireDaemonLock, HeartbeatOwned, HeartbeatLost,
         ReleaseDaemonLock, Exit, Shutdown, Crash, SweepScan, SweepEnds, HealFails,
         EvictSnapshot, EvictDelete, ReaperDies, LockExpires

\* No late fiber, sweep or wake moves a run that has ended.
THEOREM EndedIsFinalHolds == Spec => EndedIsFinal
<1> DEFINE Final(r) ==
      rows[r].status = "done" => rows'[r].status = "done" /\ rows'[r].epoch = rows[r].epoch
<1>1. ASSUME IInv, NEW r \in Runs, RowStep(r) PROVE Final(r)
  BY <1>1 DEF RowStep, Woken, IInv, FenceInv, ClaimUndisturbed
<1>2. IInv /\ [Next]_vars => [\A r \in Runs : Final(r)]_vars
  BY StepRows, <1>1
<1> QED BY SpecIInv, <1>2, PTL DEF Spec, EndedIsFinal

\* A running row leaves that status by its owner's commit or under a new epoch.
THEOREM OnlyOwnerMovesRunningHolds == Spec => OnlyOwnerMovesRunning
<1> DEFINE Moved(r) ==
      rows[r].status = "running" /\ rows'[r].status # "running" =>
          \/ rows'[r].epoch = rows[r].epoch + 1
          \/ \E f \in fibers : f.run = r /\ HoldsClaim(f) /\ f.pc = "work" /\ f \notin fibers'
<1>1. ASSUME NEW r \in Runs, RowStep(r) PROVE Moved(r)
  BY <1>1 DEF RowStep, Fenced, Woken
<1>2. IInv /\ [Next]_vars => [\A r \in Runs : Moved(r)]_vars
  BY StepRows, <1>1
<1> QED BY SpecIInv, <1>2, PTL DEF Spec, OnlyOwnerMovesRunning

-----------------------------------------------------------------------------
(* Capacity: a step either starts no run or is a claim, which counts first *)

\* Only claimNextRun makes a run running.
LEMMA OnlyClaimsStart ==
    ASSUME IInv, [Next]_vars, NEW q \in RunningRuns', q \notin RunningRuns
    PROVE  \E p \in Pids : ClaimNextRun(p, q)
<1>1. ASSUME NEW p \in Pids, NEW r \in Runs, ClaimNextRun(p, r) PROVE r = q
  BY <1>1 DEF ClaimNextRun, RunningRuns, IInv, TypeOK
<1>2. q \in Runs /\ rows[q].status # "running" /\ rows'[q].status = "running"
  BY DEF RunningRuns
<1>3. rows'[q] = Fenced(rows[q], "running")
  <2>1. RowStep(q)
    BY <1>2, StepRows
  <2>2. \A f \in fibers : f.run = q => ~HoldsClaim(f)
    BY <1>2 DEF IInv, FenceInv, ClaimUndisturbed
  <2>3. \A status : Fenced(rows[q], status).status = status
    BY DEF Fenced
  <2> QED BY <1>2, <2>1, <2>2, <2>3 DEF RowStep, Woken
<1>4. rows[q].version \in Nat /\ rows[q].epoch \in Nat
  BY <1>2 DEF IInv, TypeOK, Row
<1>5. rows'[q].epoch # rows[q].epoch
  BY <1>3, <1>4 DEF Fenced
<1>6. PICK p \in Pids, r \in Runs : ClaimNextRun(p, r)
  <2>1. ASSUME rows' = rows PROVE FALSE
    BY <2>1, <1>5
  <2>2. ASSUME NEW a \in Sweepers, NEW r \in Runs, HealQuarantine(a, r) \/ HealRequeue(a, r)
        PROVE FALSE
    BY <2>2, <1>2 DEF HealQuarantine, HealRequeue, Fenced, IInv, TypeOK
  <2>3. ASSUME NEW w \in wakes, WakeStep(w) PROVE FALSE
    BY <2>3, <1>2, <1>5 DEF WakeStep, WakeCommit, Woken, IInv, TypeOK, Wake
  <2>4. ASSUME NEW f \in fibers, FiberStep(f) PROVE FALSE
    <3>1. CASE ReleaseClaim(f)
      BY <3>1, <1>2 DEF ReleaseClaim, Fenced, IInv, TypeOK, Fiber
    <3>2. ASSUME NEW status \in {"running", "paused", "done"}, FiberCommit(f, status) PROVE FALSE
      BY <3>2, <1>5, <1>2 DEF FiberCommit, IInv, TypeOK, Row, Fiber
    <3>3. ASSUME NEW open \in BOOLEAN, RecordEffect(f, open) PROVE FALSE
      BY <3>3, <1>5, <1>2 DEF RecordEffect, IInv, TypeOK, Row, Fiber
    <3>4. CASE SteeringApplied(f)
      BY <3>4, <1>5, <1>2 DEF SteeringApplied, IInv, TypeOK, Row, Fiber
    <3> QED
      BY <2>1, <2>4, <3>1, <3>2, <3>3, <3>4 DEF FiberStep, FiberStops, FiberTurn, FiberRejected
  <2>5. ASSUME NEW r \in Runs, ProjectEnded(r) PROVE FALSE
    BY <2>5, <1>2 DEF ProjectEnded, Woken, IInv, TypeOK
  <2> QED
    BY <2>1, <2>2, <2>3, <2>4, <2>5
       DEF Next, DaemonStep, ExecutorStep, SweepStep, ReaperStep, vars, WakeRead, Dies,
           AcquireDaemonLock, SeeStaleLock, ForceAcquireDaemonLock, HeartbeatOwned, HeartbeatLost,
           ReleaseDaemonLock, Exit, Shutdown, Crash, SweepScan, SweepEnds, HealFails,
           EvictSnapshot, EvictDelete, ReaperDies, LockExpires
<1> QED BY <1>1, <1>6

\* No step but claimNextRun adds to the running runs, and it adds one of them.
LEMMA StepRunning ==
    IInv /\ [Next]_vars =>
        \/ RunningRuns' \subseteq RunningRuns
        \/ \E r \in Runs : /\ RunningRuns' = RunningRuns \cup {r}
                           /\ Cardinality(RunningRuns) < MaxInFlight
<1> SUFFICES ASSUME IInv, [Next]_vars, NEW q \in RunningRuns', q \notin RunningRuns
             PROVE  /\ q \in Runs
                    /\ RunningRuns' = RunningRuns \cup {q}
                    /\ Cardinality(RunningRuns) < MaxInFlight
  OBVIOUS
<1>1. q \in Runs
  BY DEF RunningRuns
<1>2. PICK p \in Pids : ClaimNextRun(p, q)
  BY OnlyClaimsStart
<1> QED BY <1>1, <1>2 DEF ClaimNextRun, RunningRuns, Fenced, IInv, TypeOK

\* At most maxConcurrentRuns runs are ever running: a zombie's late commit
\* cannot revive a run past the count claimNextRun makes.
THEOREM CapacityHolds == Spec => []Capacity
<1>1. Init => Capacity
  <2> SUFFICES ASSUME Init PROVE Capacity
    OBVIOUS
  <2>1. RunningRuns = {}
    BY DEF Init, RunningRuns
  <2> QED BY <2>1, FS_EmptySet, ConstantsAssumption DEF Capacity, ConstantsAssumption
<1>2. IInv /\ Capacity /\ [Next]_vars => Capacity'
  <2> SUFFICES ASSUME IInv, Capacity, [Next]_vars PROVE Capacity'
    OBVIOUS
  <2>1. IsFiniteSet(RunningRuns)
    BY FS_Subset, ConstantsAssumption DEF ConstantsAssumption, RunningRuns
  <2>2. Cardinality(RunningRuns) \in Nat /\ MaxInFlight \in Nat
    BY <2>1, FS_CardinalityType, ConstantsAssumption DEF ConstantsAssumption
  <2>3. CASE RunningRuns' \subseteq RunningRuns
    <3>1. /\ IsFiniteSet(RunningRuns')
          /\ Cardinality(RunningRuns') <= Cardinality(RunningRuns)
      BY <2>1, <2>3, FS_Subset
    <3>2. Cardinality(RunningRuns') \in Nat
      BY <3>1, FS_CardinalityType
    <3> QED BY <2>2, <3>1, <3>2 DEF Capacity
  <2>4. ASSUME NEW r \in Runs, RunningRuns' = RunningRuns \cup {r},
               Cardinality(RunningRuns) < MaxInFlight
        PROVE  Capacity'
    <3>1. Cardinality(RunningRuns') <= Cardinality(RunningRuns) + 1
      <4>1. Cardinality(RunningRuns \cup {r}) =
              IF r \in RunningRuns THEN Cardinality(RunningRuns) ELSE Cardinality(RunningRuns) + 1
        BY <2>1, FS_AddElement
      <4> QED BY <2>2, <2>4, <4>1
    <3>2. Cardinality(RunningRuns') \in Nat
      BY <2>1, <2>4, FS_AddElement, FS_CardinalityType
    <3> QED BY <2>2, <2>4, <3>1, <3>2 DEF Capacity
  <2> QED BY <2>3, <2>4, StepRunning
<1> QED BY SpecIInv, <1>1, <1>2, PTL DEF Spec
-----------------------------------------------------------------------------
(* The holder drives all: a sweep hands its daemon a store in which no run *)
(* is running but those whose heal gave up, and nobody claims before the   *)
(* holder.                                                                 *)

\* Only a booting daemon sweeps, and what it has not healed yet covers what is
\* still running once its lock keeps every other process from claiming.
SweepersBoot == \A p \in Pids : sweep[p].pc # "idle" => daemon[p] = "boot"

BootSweeps ==
    \A p \in Pids : lock.pid = p /\ daemon[p] = "boot" /\ sweep[p].pc = "heal" =>
        RunningRuns \ FlakyHeals \subseteq sweep[p].toQuarantine \cup sweep[p].toRequeue

DriveInv == SweepersBoot /\ BootSweeps /\ HolderDrivesAll

\* While a process boots as the holder, nobody starts a run.
LEMMA BootHoldsStill ==
    ASSUME IInv, [Next]_vars, NEW p \in Pids, lock.pid = p, daemon[p] = "boot"
    PROVE  RunningRuns' \subseteq RunningRuns
  BY OnlyClaimsStart DEF ClaimNextRun

\* A standing claim on a run outlives every step after which the run is running
\* and the claim's process is up: fibers give a claim up only with their run.
LEMMA ClaimKept ==
    ASSUME IInv, [Next]_vars,
           NEW f \in fibers, HoldsClaim(f),
           daemon[f.pid] = "up", daemon'[f.pid] = "up",
           rows'[f.run].status = "running"
    PROVE  \E g \in fibers' : g.run = f.run /\ g.pid = f.pid /\ rows'[g.run].epoch = g.epoch
<1> DEFINE Kept == \E g \in fibers' : g.run = f.run /\ g.pid = f.pid /\ rows'[g.run].epoch = g.epoch
<1> SUFFICES Kept
  OBVIOUS
<1>1. /\ f \in Fiber /\ f.run \in Runs /\ f.pid \in Pids
      /\ rows[f.run] \in Row /\ rows[f.run].status = "running"
  BY DEF IInv, TypeOK, Fiber, FenceInv, ClaimUndisturbed
<1>2. ASSUME UNCHANGED rows, f \in fibers' PROVE Kept
  BY <1>2 DEF HoldsClaim
<1>3. ASSUME NEW p \in Pids, Dies(p) PROVE Kept
  BY <1>1, <1>2, <1>3 DEF Dies, IInv, TypeOK
<1>4. ASSUME NEW p \in Pids, NEW r \in Runs, ClaimNextRun(p, r) PROVE Kept
  BY <1>1, <1>4 DEF ClaimNextRun, HoldsClaim, IInv, TypeOK
<1>5. ASSUME NEW a \in Sweepers, NEW r \in Runs, HealQuarantine(a, r) \/ HealRequeue(a, r)
      PROVE  Kept
  BY <1>1, <1>5, FencedType DEF HealQuarantine, HealRequeue, HoldsClaim, IInv, TypeOK, Status
<1>6. ASSUME NEW w \in wakes, WakeStep(w) PROVE Kept
  BY <1>1, <1>6 DEF WakeStep, WakeCommit, Woken, HoldsClaim, IInv, TypeOK, Wake
<1>7. ASSUME NEW h \in fibers, FiberStep(h) PROVE Kept
  <2>1. h \in Fiber /\ h.run \in Runs /\ rows[h.run] \in Row
    BY DEF IInv, TypeOK, Fiber
  <2>2. h.run = f.run /\ h.epoch = f.epoch => h = f
    BY DEF IInv, FenceInv, EpochsDistinct
  <2>3. CASE FiberStops(h)
    BY <1>2, <2>3 DEF FiberStops, Ends
  <2>4. CASE FiberTurn(h)
    <3>1. CASE h # f
      BY <1>2, <2>4, <3>1 DEF FiberTurn, Ends, Becomes
    <3>2. CASE h = f
      <4> DEFINE g == [run |-> f.run, epoch |-> f.epoch, pid |-> f.pid,
                       pc |-> "work", ver |-> rows[f.run].version]
      <4>1. g.run = f.run /\ g.pid = f.pid /\ g.epoch = f.epoch /\ g \in fibers'
        BY <1>1, <2>4, <3>2 DEF FiberTurn, Becomes
      <4> HIDE DEF g
      <4> QED BY <2>4, <4>1 DEF FiberTurn, HoldsClaim
    <3> QED BY <3>1, <3>2
  <2>5. CASE FiberRejected(h)
    <3>1. CASE h # f
      BY <1>2, <2>5, <3>1 DEF FiberRejected, Ends, Becomes
    <3>2. CASE h = f
      <4>1. PICK pc \in {"work", "turn"} :
               Becomes(f, [f EXCEPT !.pc = pc, !.ver = rows[f.run].version])
        BY <1>1, <2>5, <3>2 DEF FiberRejected
      <4> DEFINE g == [f EXCEPT !.pc = pc, !.ver = rows[f.run].version]
      <4>2. g.run = f.run /\ g.pid = f.pid /\ g.epoch = f.epoch /\ g \in fibers'
        BY <1>1, <4>1 DEF Becomes, Fiber
      <4> HIDE DEF g
      <4> QED BY <2>5, <4>2 DEF FiberRejected, HoldsClaim
    <3> QED BY <3>1, <3>2
  <2>6. CASE ReleaseClaim(h)
    BY <1>1, <2>1, <2>2, <2>6, FencedType DEF ReleaseClaim, Ends, HoldsClaim, IInv, TypeOK, Status
  <2>7. ASSUME NEW status \in {"running", "paused", "done"}, FiberCommit(h, status) PROVE Kept
    <3>1. \A q \in Runs : rows'[q].epoch = rows[q].epoch
      BY <2>1, <2>7 DEF FiberCommit, IInv, TypeOK, Row
    <3>2. rows'[h.run].status = status
      BY <2>1, <2>7 DEF FiberCommit, IInv, TypeOK, Row
    <3>3. CASE h # f
      BY <1>1, <2>7, <3>1, <3>3 DEF FiberCommit, Ends, Becomes, HoldsClaim
    <3>4. CASE h = f
      <4> DEFINE g == [f EXCEPT !.pc = "turn"]
      <4>1. g.run = f.run /\ g.pid = f.pid /\ g.epoch = f.epoch /\ g \in fibers'
        BY <1>1, <2>7, <3>2, <3>4 DEF FiberCommit, Becomes, Fiber
      <4> HIDE DEF g
      <4> QED BY <1>1, <3>1, <4>1 DEF HoldsClaim
    <3> QED BY <3>3, <3>4
  <2>8. ASSUME NEW open \in BOOLEAN, RecordEffect(h, open) PROVE Kept
    <3>1. \A q \in Runs : rows'[q].epoch = rows[q].epoch
      BY <2>1, <2>8 DEF RecordEffect, IInv, TypeOK, Row
    <3>2. CASE h # f
      BY <1>1, <2>8, <3>1, <3>2 DEF RecordEffect, Becomes, HoldsClaim
    <3>3. CASE h = f
      <4> DEFINE g == [f EXCEPT !.ver = rows[f.run].version + 1]
      <4>1. g.run = f.run /\ g.pid = f.pid /\ g.epoch = f.epoch /\ g \in fibers'
        BY <1>1, <2>8, <3>3 DEF RecordEffect, Becomes, Fiber
      <4> HIDE DEF g
      <4> QED BY <1>1, <3>1, <4>1 DEF HoldsClaim
    <3> QED BY <3>2, <3>3
  <2>9. CASE SteeringApplied(h)
    BY <1>1, <2>1, <2>9 DEF SteeringApplied, HoldsClaim, IInv, TypeOK, Row
  <2> QED BY <1>7, <2>3, <2>4, <2>5, <2>6, <2>7, <2>8, <2>9 DEF FiberStep
<1>8. ASSUME NEW r \in Runs, ProjectEnded(r) PROVE Kept
  BY <1>1, <1>8 DEF ProjectEnded, HoldsClaim, IInv, TypeOK
<1> HIDE DEF Kept
<1> QED
  BY <1>2, <1>3, <1>4, <1>5, <1>6, <1>7, <1>8
     DEF Next, DaemonStep, ExecutorStep, SweepStep, ReaperStep, vars, WakeRead,
         AcquireDaemonLock, SeeStaleLock, ForceAcquireDaemonLock, HeartbeatOwned, HeartbeatLost,
         ReleaseDaemonLock, Exit, Shutdown, Crash, SweepScan, SweepEnds, HealFails,
         EvictSnapshot, EvictDelete, ReaperDies, LockExpires

\* A process becomes the holder only by booting, with its scan still to do.
LEMMA HolderBoots ==
    ASSUME IInv, [Next]_vars, NEW p \in Pids, lock'.pid = p
    PROVE  lock.pid = p \/ (daemon'[p] = "boot" /\ sweep'[p] = Scanning)
<1>1. NoPid # p /\ p \in Sweepers
  BY ConstantsAssumption DEF ConstantsAssumption, Sweepers
<1>2. ASSUME NEW q \in Pids, AcquireDaemonLock(q) \/ ForceAcquireDaemonLock(q)
      PROVE  daemon'[q] = "boot" /\ sweep'[q] = Scanning /\ lock'.pid = q
  BY <1>2 DEF AcquireDaemonLock, ForceAcquireDaemonLock, InstallLock, IInv, TypeOK, Sweepers
<1>3. ASSUME NEW q \in Pids, HeartbeatOwned(q) PROVE lock'.pid = lock.pid
  BY <1>3 DEF HeartbeatOwned, InstallLock
<1>4. ASSUME NEW q \in Pids, ReleaseDaemonLock(q) PROVE lock'.pid \in {lock.pid, NoPid}
  BY <1>4 DEF ReleaseDaemonLock, IInv, TypeOK, Lock
<1>5. ASSUME ReaperStep PROVE lock'.pid \in {lock.pid, NoPid}
  BY <1>5 DEF ReaperStep, EvictSnapshot, EvictDelete, ReaperDies, IInv, TypeOK, Lock
<1> QED
  BY <1>1, <1>2, <1>3, <1>4, <1>5
     DEF Next, DaemonStep, ExecutorStep, SweepStep, vars, WakeRead, ClaimNextRun,
         SeeStaleLock, HeartbeatLost, Exit, Shutdown, Crash, Dies, SweepScan, SweepEnds,
         HealQuarantine, HealRequeue, HealFails, LockExpires, ProjectEnded, WakeStep, WakeCommit,
         FiberStep, FiberStops, FiberTurn, FiberRejected, ReleaseClaim, SteeringApplied,
         FiberCommit, RecordEffect

\* What a step does to one daemon's program counter and to its sweep, unless the
\* daemon takes the lock or dies.
SweepMoves(p) ==
    \/ /\ sweep'[p] = sweep[p]
       /\ daemon'[p] # daemon[p] => daemon[p] # "boot" /\ daemon'[p] # "up"
    \/ SweepScan(p) /\ daemon' = daemon
    \/ SweepEnds(p) /\ sweep'[p] = Idle /\ daemon'[p] = "up" /\ rows' = rows
    \/ \E r \in Runs : (HealQuarantine(p, r) \/ HealRequeue(p, r)) /\ daemon' = daemon
    \/ \E r \in FlakyHeals : HealFails(p, r) /\ daemon' = daemon

\* A daemon's sweep is started by its boot, dropped by its death, and moved by
\* nobody but itself.
LEMMA SweepIsItsOwn ==
    ASSUME IInv, [Next]_vars, NEW p \in Pids
    PROVE  \/ daemon'[p] = "boot" /\ sweep'[p] = Scanning
           \/ daemon'[p] = "dead" /\ sweep'[p] = Idle
           \/ SweepMoves(p)
<1> DEFINE Goal == \/ daemon'[p] = "boot" /\ sweep'[p] = Scanning
                   \/ daemon'[p] = "dead" /\ sweep'[p] = Idle
                   \/ SweepMoves(p)
<1> SUFFICES Goal
  OBVIOUS
<1>1. /\ Reaper # p /\ p \in Sweepers
      /\ daemon \in [Pids -> {"new", "takeover", "boot", "up", "stopping", "exiting", "dead"}]
      /\ sweep \in [Sweepers -> Sweep]
  BY ConstantsAssumption DEF ConstantsAssumption, Sweepers, IInv, TypeOK
<1>2. ASSUME UNCHANGED <<daemon, sweep>> PROVE Goal
  BY <1>2 DEF SweepMoves
<1>3. ASSUME NEW q \in Pids, AcquireDaemonLock(q) \/ ForceAcquireDaemonLock(q) PROVE Goal
  BY <1>1, <1>3 DEF AcquireDaemonLock, ForceAcquireDaemonLock, SweepMoves
<1>4. ASSUME NEW q \in Pids,
             SeeStaleLock(q) \/ HeartbeatLost(q) \/ Shutdown(q) \/ ReleaseDaemonLock(q)
      PROVE  Goal
  BY <1>1, <1>4 DEF SeeStaleLock, HeartbeatLost, Shutdown, ReleaseDaemonLock, SweepMoves
<1>5. ASSUME NEW q \in Pids, Dies(q) PROVE Goal
  BY <1>1, <1>5 DEF Dies, SweepMoves
<1>6. ASSUME NEW a \in Sweepers, SweepStep(a) PROVE Goal
  <2>1. CASE SweepScan(a)
    BY <1>1, <2>1 DEF SweepScan, SweepMoves
  <2>2. CASE SweepEnds(a)
    BY <1>1, <2>2 DEF SweepEnds, SweepMoves, Sweepers
  <2>3. ASSUME NEW r \in Runs, HealQuarantine(a, r) \/ HealRequeue(a, r) PROVE Goal
    <3>1. CASE a = p
      BY <2>3, <3>1 DEF HealQuarantine, HealRequeue, SweepMoves
    <3>2. CASE a # p
      BY <1>1, <2>3, <3>2 DEF HealQuarantine, HealRequeue, SweepMoves
    <3> QED BY <3>1, <3>2
  <2>4. ASSUME NEW r \in Runs, HealFails(a, r) PROVE Goal
    <3>1. CASE a = p
      BY <2>4, <3>1 DEF HealFails, SweepMoves
    <3>2. CASE a # p
      BY <1>1, <2>4, <3>2 DEF HealFails, SweepMoves
    <3> QED BY <3>1, <3>2
  <2> QED BY <1>6, <2>1, <2>2, <2>3, <2>4 DEF SweepStep
<1>7. CASE ReaperStep
  BY <1>1, <1>7 DEF ReaperStep, EvictSnapshot, EvictDelete, ReaperDies, SweepMoves
<1> HIDE DEF Goal
<1> QED
  BY <1>2, <1>3, <1>4, <1>5, <1>6, <1>7
     DEF Next, DaemonStep, ExecutorStep, vars, WakeRead, ClaimNextRun, HeartbeatOwned,
         Exit, Crash, LockExpires, ProjectEnded, WakeStep, WakeCommit,
         FiberStep, FiberStops, FiberTurn, FiberRejected, ReleaseClaim, SteeringApplied,
         FiberCommit, RecordEffect

\* Steps keep the drive invariant: the sweep that boots a holder covers every run
\* left running whose heal does not give up, and a holder loses no run it drives.
LEMMA NextDriveInv ==
    ASSUME IInv, DriveInv, [Next]_vars
    PROVE  DriveInv'
<1>1. SweepersBoot'
  <2> SUFFICES ASSUME NEW p \in Pids, sweep'[p].pc # "idle" PROVE daemon'[p] = "boot"
    BY DEF SweepersBoot
  <2>1. CASE SweepMoves(p)
    BY <2>1 DEF SweepMoves, DriveInv, SweepersBoot, SweepScan, HealQuarantine, HealRequeue, HealFails, Idle
  <2> QED BY <2>1, SweepIsItsOwn DEF Idle
<1>2. BootSweeps'
  <2> SUFFICES ASSUME NEW p \in Pids, lock'.pid = p, daemon'[p] = "boot", sweep'[p].pc = "heal"
               PROVE  RunningRuns' \ FlakyHeals \subseteq sweep'[p].toQuarantine \cup sweep'[p].toRequeue
    BY DEF BootSweeps
  <2>1. lock.pid = p /\ SweepMoves(p)
    BY HolderBoots, SweepIsItsOwn DEF Scanning, Idle
  <2>2. p \in Sweepers /\ sweep \in [Sweepers -> Sweep] /\ rows \in [Runs -> Row]
    BY DEF Sweepers, IInv, TypeOK
  <2>3. sweep[p].pc # "idle"
    BY <2>1 DEF SweepMoves, SweepScan, HealQuarantine, HealRequeue, HealFails, Idle
  <2>4. daemon[p] = "boot"
    BY <2>3 DEF DriveInv, SweepersBoot
  <2>5. RunningRuns' \subseteq RunningRuns
    BY <2>1, <2>4, BootHoldsStill
  <2>6. sweep[p].pc = "heal" => RunningRuns \ FlakyHeals \subseteq sweep[p].toQuarantine \cup sweep[p].toRequeue
    BY <2>1, <2>4 DEF DriveInv, BootSweeps
  <2>7. CASE sweep'[p] = sweep[p]
    BY <2>5, <2>6, <2>7
  <2>8. CASE SweepScan(p)
    BY <2>2, <2>5, <2>8 DEF SweepScan, RunningRuns
  <2>9. ASSUME NEW r \in Runs, HealQuarantine(p, r) PROVE
              RunningRuns' \ FlakyHeals \subseteq sweep'[p].toQuarantine \cup sweep'[p].toRequeue
    <3>1. r \notin RunningRuns'
      BY <2>2, <2>9 DEF HealQuarantine, RunningRuns, Fenced
    <3>2. /\ sweep[p].pc = "heal"
          /\ sweep'[p].toQuarantine = sweep[p].toQuarantine \ {r}
          /\ sweep'[p].toRequeue = sweep[p].toRequeue
      BY <2>2, <2>9 DEF HealQuarantine, Sweep
    <3> QED BY <2>5, <2>6, <3>1, <3>2
  <2>10. ASSUME NEW r \in Runs, HealRequeue(p, r) PROVE
              RunningRuns' \ FlakyHeals \subseteq sweep'[p].toQuarantine \cup sweep'[p].toRequeue
    <3>1. r \notin RunningRuns'
      BY <2>2, <2>10 DEF HealRequeue, RunningRuns, Fenced
    <3>2. /\ sweep[p].pc = "heal"
          /\ sweep'[p].toQuarantine = sweep[p].toQuarantine
          /\ sweep'[p].toRequeue = sweep[p].toRequeue \ {r}
      BY <2>2, <2>10 DEF HealRequeue, Sweep
    <3> QED BY <2>5, <2>6, <3>1, <3>2
  <2>11. ASSUME NEW r \in FlakyHeals, HealFails(p, r) PROVE
              RunningRuns' \ FlakyHeals \subseteq sweep'[p].toQuarantine \cup sweep'[p].toRequeue
    <3>1. /\ sweep[p].pc = "heal"
          /\ sweep[p].toQuarantine \ {r} \subseteq sweep'[p].toQuarantine
          /\ sweep[p].toRequeue \ {r} \subseteq sweep'[p].toRequeue
      BY <2>2, <2>11 DEF HealFails, Sweep
    <3> QED BY <2>5, <2>6, <2>11, <3>1
  <2> QED BY <2>1, <2>7, <2>8, <2>9, <2>10, <2>11 DEF SweepMoves, Idle
<1>3. HolderDrivesAll'
  <2> SUFFICES ASSUME NEW p \in Pids, lock'.pid = p, daemon'[p] = "up", NEW r \in RunningRuns' \ FlakyHeals
               PROVE  \E f \in fibers' : f.run = r /\ f.pid = p /\ rows'[f.run].epoch = f.epoch
    BY DEF HolderDrivesAll, HoldsClaim
  <2>1. lock.pid = p /\ SweepMoves(p)
    BY HolderBoots, SweepIsItsOwn
  <2>2. CASE SweepEnds(p) /\ rows' = rows
    <3>1. daemon[p] = "boot"
      BY <2>2 DEF SweepEnds, DriveInv, SweepersBoot
    <3>2. RunningRuns \subseteq FlakyHeals
      BY <2>1, <2>2, <3>1 DEF SweepEnds, DriveInv, BootSweeps
    <3>3. RunningRuns' = RunningRuns
      BY <2>2 DEF RunningRuns
    <3> QED BY <3>2, <3>3
  <2>3. CASE daemon[p] = "up"
    <3>1. CASE r \in RunningRuns
      <4>1. PICK f \in fibers : f.run = r /\ HoldsClaim(f) /\ f.pid = p
        BY <2>1, <2>3, <3>1 DEF DriveInv, HolderDrivesAll
      <4>2. rows'[f.run].status = "running"
        BY <4>1 DEF RunningRuns
      <4> QED BY <2>3, <4>1, <4>2, ClaimKept
    <3>2. CASE r \notin RunningRuns
      <4>1. PICK q \in Pids : ClaimNextRun(q, r)
        BY <3>2, OnlyClaimsStart
      <4>2. q = p /\ r \in Runs /\ rows'[r].epoch = Fenced(rows[r], "running").epoch
        BY <2>1, <4>1, FencedType DEF ClaimNextRun, RunningRuns, IInv, TypeOK
      <4> DEFINE g == [run |-> r, epoch |-> Fenced(rows[r], "running").epoch, pid |-> p,
                       pc |-> "turn", ver |-> 0]
      <4>3. g \in fibers' /\ g.run = r /\ g.pid = p /\ g.epoch = Fenced(rows[r], "running").epoch
        BY <4>1, <4>2 DEF ClaimNextRun
      <4> HIDE DEF g
      <4> QED BY <4>2, <4>3
    <3> QED BY <3>1, <3>2
  <2> QED
    BY <2>1, <2>2, <2>3 DEF SweepMoves, SweepScan, HealQuarantine, HealRequeue, HealFails, DriveInv, SweepersBoot
<1> QED BY <1>1, <1>2, <1>3 DEF DriveInv

\* The process that holds the daemon lock drives every running run itself, those
\* whose heal gave up aside: no slot is lost to a run nobody works on, and the heal
\* that fails costs no other run its recovery.
THEOREM HolderDrivesAllHolds == Spec => []HolderDrivesAll
<1>1. Init => DriveInv
  <2> SUFFICES ASSUME Init PROVE DriveInv
    OBVIOUS
  <2>1. SweepersBoot
    BY DEF Init, SweepersBoot, Sweepers, Idle
  <2>2. \A p \in Pids : daemon[p] = "new"
    BY DEF Init
  <2> QED BY <2>1, <2>2 DEF DriveInv, BootSweeps, HolderDrivesAll
<1>2. IInv /\ DriveInv /\ [Next]_vars => DriveInv'
  BY NextDriveInv
<1>3. DriveInv => HolderDrivesAll
  BY DEF DriveInv
<1> QED BY SpecIInv, <1>1, <1>2, <1>3, PTL DEF Spec

-----------------------------------------------------------------------------
(* The refinement: claims that stand are owners, and a step maps to a step *)
(* of Lifecycle or to a stutter.                                           *)

StatusOf == [r \in Runs |-> rows[r].status]

\* A claim that stands is a fiber, of any process, whose epoch is its row's.
LEMMA ClaimsMembers ==
    ASSUME NEW o
    PROVE  o \in Claims <=> \E f \in fibers : HoldsClaim(f) /\ o = <<f.run, f.pid>>
  BY DEF Claims

\* The same of the next state.
LEMMA ClaimsMembersNext ==
    ASSUME NEW o
    PROVE  o \in Claims' <=>
             \E f \in fibers' : rows'[f.run].epoch = f.epoch /\ o = <<f.run, f.pid>>
  BY DEF Claims, HoldsClaim

\* Fibers that stop, die or are rejected leave their runs without an owner.
LEMMA AbstractAbandon ==
    ASSUME StatusOf' = StatusOf, Claims' \subseteq Claims
    PROVE  Abstract!Next
<1>1. Abstract!Abandon(Claims \ Claims')
  BY DEF Abstract!Abandon, StatusOf
<1>2. Claims \ Claims' \in SUBSET Claims
  OBVIOUS
<1> QED BY <1>1, <1>2 DEF Abstract!Next

\* A sweep or a release fences the row's claim out: nobody owns the run any more.
LEMMA AbstractTakenBack ==
    ASSUME IInv, NEW r \in Runs, NEW status \in Status,
           rows' = [rows EXCEPT ![r] = Fenced(@, status)],
           \A f \in fibers' : f \in fibers,
           \A f \in fibers : f.run # r => f \in fibers'
    PROVE  /\ StatusOf' = [StatusOf EXCEPT ![r] = status]
           /\ Claims' = Claims \ Abstract!OwnersOf(r)
<1>1. \A q \in Runs : rows'[q] = IF q = r THEN Fenced(rows[q], status) ELSE rows[q]
  BY DEF IInv, TypeOK
<1>2. StatusOf' = [StatusOf EXCEPT ![r] = status]
  <2>1. StatusOf' = [q \in Runs |-> rows'[q].status]
    BY DEF StatusOf
  <2>2. \A q \in Runs : rows'[q].status = IF q = r THEN status ELSE rows[q].status
    BY <1>1 DEF Fenced
  <2> QED BY <2>1, <2>2 DEF StatusOf
<1>3. ASSUME NEW f \in fibers
      PROVE  rows'[f.run].epoch = f.epoch <=> f.run # r /\ HoldsClaim(f)
  BY <1>1 DEF IInv, FenceInv, EpochsBounded, HoldsClaim, TypeOK, Fiber, Row, Fenced
<1>4. ASSUME NEW o PROVE o \in Claims' <=> o \in Claims /\ o[1] # r
  BY <1>3, ClaimsMembers, ClaimsMembersNext
<1> QED BY <1>2, <1>4 DEF Abstract!OwnersOf

\* Steps that leave every status and every standing claim alone are stutters: the
\* receipts, side effects and projected facts that move only a row's version.
LEMMA AbstractStutter ==
    ASSUME IInv, NEW r \in Runs, NEW row \in Row,
           row.status = rows[r].status, row.epoch = rows[r].epoch,
           rows' = [rows EXCEPT ![r] = row],
           \A f \in fibers' : \E g \in fibers :
               f.run = g.run /\ f.pid = g.pid /\ f.epoch = g.epoch
    PROVE  StatusOf' = StatusOf /\ Claims' \subseteq Claims
<1>1. \A q \in Runs : rows'[q].status = rows[q].status /\ rows'[q].epoch = rows[q].epoch
  BY DEF IInv, TypeOK
<1>2. StatusOf' = StatusOf
  <2>1. StatusOf' = [q \in Runs |-> rows'[q].status]
    BY DEF StatusOf
  <2> QED BY <1>1, <2>1 DEF StatusOf
<1>3. ASSUME NEW o \in Claims' PROVE o \in Claims
  <2>1. PICK f \in fibers' : rows'[f.run].epoch = f.epoch /\ o = <<f.run, f.pid>>
    BY ClaimsMembersNext
  <2>2. PICK g \in fibers : f.run = g.run /\ f.pid = g.pid /\ f.epoch = g.epoch
    BY <2>1
  <2>3. g.run \in Runs
    BY DEF IInv, TypeOK, Fiber
  <2> QED BY <1>1, <2>1, <2>2, <2>3, ClaimsMembers DEF HoldsClaim
<1> QED BY <1>2, <1>3

\* Both modules count with the same Cardinality.
LEMMA AbstractCardinality == \A S : Abstract!Cardinality(S) = Cardinality(S)
  BY DEF Abstract!Cardinality, Cardinality

\* claimNextRun makes the claiming process the only owner of a queued run.
LEMMA AbstractClaim ==
    ASSUME IInv, NEW p \in Pids, NEW r \in Runs, ClaimNextRun(p, r)
    PROVE  Abstract!Claim(r, p)
<1> DEFINE g == [run |-> r, epoch |-> rows[r].epoch + 1, pid |-> p, pc |-> "turn", ver |-> 0]
<1>1. /\ \A q \in Runs : q # r => rows'[q] = rows[q]
      /\ rows'[r].status = "running"
      /\ rows'[r].epoch = rows[r].epoch + 1
  BY FencedType DEF ClaimNextRun, IInv, TypeOK, Status
<1>2. \A q \in Runs : rows'[q].status = IF q = r THEN "running" ELSE rows[q].status
  BY <1>1
<1>3. StatusOf' = [StatusOf EXCEPT ![r] = "running"]
  <2>1. StatusOf' = [q \in Runs |-> rows'[q].status]
    BY DEF StatusOf
  <2> QED BY <1>2, <2>1 DEF StatusOf
<1>4. \A q \in Runs : rows'[q].epoch = IF q = r THEN rows[q].epoch + 1 ELSE rows[q].epoch
  BY <1>1
<1>5. fibers' = fibers \cup {g}
  BY DEF ClaimNextRun, Fenced
<1>6. ASSUME NEW f \in fibers
      PROVE  rows'[f.run].epoch = f.epoch <=> HoldsClaim(f)
  BY <1>4 DEF ClaimNextRun, IInv, FenceInv, EpochsBounded, ClaimUndisturbed, HoldsClaim,
              TypeOK, Fiber, Row
<1>7. rows'[g.run].epoch = g.epoch /\ g.run = r /\ g.pid = p
  BY <1>4
<1> HIDE DEF g
<1>8. ASSUME NEW o PROVE o \in Claims' <=> o \in Claims \/ o = <<r, p>>
  BY <1>5, <1>6, <1>7, ClaimsMembers, ClaimsMembersNext
<1>9. Abstract!InFlight = RunningRuns
  BY DEF Abstract!InFlight, RunningRuns
<1> QED BY <1>3, <1>8, <1>9, AbstractCardinality DEF Abstract!Claim, StatusOf, ClaimNextRun

\* A commit that parks or ends the run is its only owner's last act on it.
LEMMA AbstractFinish ==
    ASSUME IInv, NEW f \in fibers, NEW s \in {"paused", "done"}, FiberCommit(f, s)
    PROVE  Abstract!Finish(f.run, f.pid, s)
<1>1. f \in Fiber /\ f.run \in Runs /\ HoldsClaim(f)
  BY DEF IInv, TypeOK, Fiber, FiberCommit, CanAppend
<1>2. \A q \in Runs : /\ rows'[q].status = IF q = f.run THEN s ELSE rows[q].status
                      /\ rows'[q].epoch = rows[q].epoch
  BY <1>1 DEF FiberCommit, IInv, TypeOK, Row
<1>3. StatusOf' = [StatusOf EXCEPT ![f.run] = s]
  <2>1. StatusOf' = [q \in Runs |-> rows'[q].status]
    BY DEF StatusOf
  <2> QED BY <1>2, <2>1 DEF StatusOf
<1>4. fibers' = fibers \ {f}
  BY DEF FiberCommit, Ends
<1>5. \A g \in fibers : g.run \in Runs
  BY DEF IInv, TypeOK, Fiber
<1>6. \A g \in fibers : g.run = f.run /\ HoldsClaim(g) => g = f
  BY <1>1 DEF IInv, FenceInv, EpochsDistinct, HoldsClaim
<1>7. \A g \in fibers : rows'[g.run].epoch = g.epoch <=> HoldsClaim(g)
  BY <1>2, <1>5 DEF HoldsClaim
<1>8. ASSUME NEW o PROVE o \in Claims' <=> o \in Claims /\ o # <<f.run, f.pid>>
  <2>1. ASSUME o \in Claims' PROVE o \in Claims /\ o # <<f.run, f.pid>>
    <3>1. PICK g \in fibers' : rows'[g.run].epoch = g.epoch /\ o = <<g.run, g.pid>>
      BY <2>1, ClaimsMembersNext
    <3>2. g \in fibers /\ g # f /\ HoldsClaim(g)
      BY <1>4, <1>7, <3>1
    <3> QED BY <1>6, <3>1, <3>2, ClaimsMembers
  <2>2. ASSUME o \in Claims, o # <<f.run, f.pid>> PROVE o \in Claims'
    <3>1. PICK g \in fibers : HoldsClaim(g) /\ o = <<g.run, g.pid>>
      BY <2>2, ClaimsMembers
    <3>2. g \in fibers' /\ rows'[g.run].epoch = g.epoch
      BY <1>4, <1>7, <2>2, <3>1
    <3> QED BY <3>1, <3>2, ClaimsMembersNext
  <2> QED BY <2>1, <2>2
<1>9. <<f.run, f.pid>> \in Claims
  BY <1>1, ClaimsMembers
<1> QED BY <1>3, <1>8, <1>9 DEF Abstract!Finish, StatusOf

\* A wake that still meets the version it read moves a parked run nobody owns.
LEMMA AbstractWake ==
    ASSUME IInv, NEW w \in wakes, NEW s \in {"queued", "done"},
           rows[w.run].version = w.ver,
           rows' = [rows EXCEPT ![w.run] = Woken(@, s)],
           fibers' = fibers
    PROVE  Abstract!Wake(w.run, s)
<1>1. w.run \in Runs /\ rows[w.run].status \in {"paused", "quarantined"}
  BY DEF IInv, TypeOK, Wake, FenceInv, WakesFresh
<1>2. /\ \A q \in Runs : q # w.run => rows'[q] = rows[q]
      /\ rows'[w.run].status = s
      /\ rows'[w.run].epoch = rows[w.run].epoch
  BY <1>1 DEF IInv, TypeOK, Woken
<1>3. \A q \in Runs : /\ rows'[q].status = IF q = w.run THEN s ELSE rows[q].status
                      /\ rows'[q].epoch = rows[q].epoch
  BY <1>2
<1>4. StatusOf' = [StatusOf EXCEPT ![w.run] = s]
  <2>1. StatusOf' = [q \in Runs |-> rows'[q].status]
    BY DEF StatusOf
  <2> QED BY <1>3, <2>1 DEF StatusOf
<1>5. \A g \in fibers : rows'[g.run].epoch = g.epoch <=> HoldsClaim(g)
  BY <1>3 DEF HoldsClaim, IInv, TypeOK, Fiber
<1>6. ASSUME NEW o PROVE o \in Claims' <=> o \in Claims
  BY <1>5, ClaimsMembers, ClaimsMembersNext
<1> QED BY <1>1, <1>4, <1>6 DEF Abstract!Wake, StatusOf

\* A step of one fiber is a step of its run's owner, a fiber less, or a stutter.
LEMMA FiberStepImplements ==
    ASSUME IInv, NEW f \in fibers, FiberStep(f)
    PROVE  Abstract!Next \/ UNCHANGED Abstract!lifeVars
<1> DEFINE Implements == Abstract!Next \/ UNCHANGED Abstract!lifeVars
<1>1. f \in Fiber /\ f.run \in Runs /\ f.pid \in Pids /\ rows[f.run] \in Row
  BY DEF IInv, TypeOK, Fiber
<1>2. ASSUME rows' = rows,
             \A h \in fibers' : \E g \in fibers :
                 h.run = g.run /\ h.pid = g.pid /\ h.epoch = g.epoch
      PROVE  Implements
  <2>1. rows' = [rows EXCEPT ![f.run] = rows[f.run]]
    BY <1>1, <1>2 DEF IInv, TypeOK
  <2> QED BY <1>1, <1>2, <2>1, AbstractStutter, AbstractAbandon
<1>3. CASE FiberStops(f)
  BY <1>2, <1>3 DEF FiberStops, Ends
<1>4. CASE FiberTurn(f)
  BY <1>2, <1>4 DEF FiberTurn, Ends, Becomes
<1>5. CASE FiberRejected(f)
  <2>1. ASSUME NEW pc \in {"work", "turn"}
        PROVE  /\ [f EXCEPT !.pc = pc, !.ver = rows[f.run].version].run = f.run
               /\ [f EXCEPT !.pc = pc, !.ver = rows[f.run].version].pid = f.pid
               /\ [f EXCEPT !.pc = pc, !.ver = rows[f.run].version].epoch = f.epoch
    BY <1>1 DEF Fiber
  <2> QED BY <1>2, <1>5, <2>1 DEF FiberRejected, Ends, Becomes
<1>6. CASE ReleaseClaim(f)
  <2>1. CASE rows[f.run].status = "running" /\ HoldsClaim(f)
    <3>1. rows' = [rows EXCEPT ![f.run] = Fenced(@, "queued")]
      BY <1>6, <2>1 DEF ReleaseClaim
    <3>2. /\ StatusOf' = [StatusOf EXCEPT ![f.run] = "queued"]
          /\ Claims' = Claims \ Abstract!OwnersOf(f.run)
      BY <1>1, <1>6, <3>1, AbstractTakenBack DEF ReleaseClaim, Ends, Status
    <3>3. Abstract!TakeBack(f.run)
      BY <1>1, <2>1, <3>2 DEF Abstract!TakeBack, StatusOf
    <3> QED BY <1>1, <3>3 DEF Abstract!Next
  <2>2. CASE ~(rows[f.run].status = "running" /\ HoldsClaim(f))
    <3>1. rows' = rows
      BY <1>1, <1>6, <2>2 DEF ReleaseClaim, IInv, TypeOK
    <3> QED BY <1>2, <1>6, <3>1 DEF ReleaseClaim, Ends
  <2> QED BY <2>1, <2>2
<1>7. CASE SteeringApplied(f)
  <2> DEFINE row == [rows[f.run] EXCEPT !.version = @ + 1]
  <2>1. /\ row \in Row /\ row.status = rows[f.run].status /\ row.epoch = rows[f.run].epoch
        /\ rows' = [rows EXCEPT ![f.run] = row]
    BY <1>1, <1>7 DEF SteeringApplied, Row
  <2>2. fibers' = fibers
    BY <1>7 DEF SteeringApplied
  <2> HIDE DEF row
  <2> QED BY <1>1, <2>1, <2>2, AbstractStutter, AbstractAbandon
<1>8. ASSUME NEW status \in {"running", "paused", "done"}, FiberCommit(f, status)
      PROVE  Implements
  <2>1. CASE status = "running"
    <3> DEFINE row == [rows[f.run] EXCEPT !.status = "running", !.version = @ + 1]
               g == [f EXCEPT !.pc = "turn"]
    <3>1. /\ row \in Row /\ row.status = rows[f.run].status /\ row.epoch = rows[f.run].epoch
          /\ rows' = [rows EXCEPT ![f.run] = row]
      <4>1. rows[f.run].status = "running"
        BY <1>8 DEF FiberCommit, CanAppend, IInv, FenceInv, ClaimUndisturbed
      <4> QED BY <1>1, <1>8, <2>1, <4>1 DEF FiberCommit, Row, IInv, TypeOK
    <3>2. g.run = f.run /\ g.pid = f.pid /\ g.epoch = f.epoch /\ fibers' = (fibers \ {f}) \cup {g}
      BY <1>1, <1>8, <2>1 DEF FiberCommit, Becomes, Fiber
    <3> HIDE DEF row, g
    <3> QED BY <1>1, <3>1, <3>2, AbstractStutter, AbstractAbandon
  <2>2. CASE status \in {"paused", "done"}
    BY <1>1, <1>8, <2>2, AbstractFinish DEF Abstract!Next
  <2> QED BY <2>1, <2>2
<1>9. ASSUME NEW open \in BOOLEAN, RecordEffect(f, open) PROVE Implements
  <2> DEFINE row == [rows[f.run] EXCEPT !.version = @ + 1]
             g == [f EXCEPT !.ver = rows[f.run].version + 1]
  <2>1. /\ row \in Row /\ row.status = rows[f.run].status /\ row.epoch = rows[f.run].epoch
        /\ rows' = [rows EXCEPT ![f.run] = row]
    BY <1>1, <1>9 DEF RecordEffect, Row
  <2>2. g.run = f.run /\ g.pid = f.pid /\ g.epoch = f.epoch /\ fibers' = (fibers \ {f}) \cup {g}
    BY <1>1, <1>9 DEF RecordEffect, Becomes, Fiber
  <2> HIDE DEF row, g
  <2> QED BY <1>1, <2>1, <2>2, AbstractStutter, AbstractAbandon
<1> QED BY <1>3, <1>4, <1>5, <1>6, <1>7, <1>8, <1>9 DEF FiberStep

\* A heal of the sweep quarantines a run, takes it back, or finds it moved on.
LEMMA HealImplements ==
    ASSUME IInv, NEW a \in Sweepers, NEW r \in Runs, HealQuarantine(a, r) \/ HealRequeue(a, r)
    PROVE  Abstract!Next \/ UNCHANGED Abstract!lifeVars
<1>1. fibers' = fibers /\ rows[r] \in Row
  BY DEF HealQuarantine, HealRequeue, IInv, TypeOK
<1>2. CASE rows' = rows
  <2>1. rows' = [rows EXCEPT ![r] = rows[r]]
    BY <1>2 DEF IInv, TypeOK
  <2> QED BY <1>1, <2>1, AbstractStutter, AbstractAbandon
<1>3. CASE HealQuarantine(a, r) /\ rows[r].status \notin {"done", "quarantined"}
  <2>1. rows' = [rows EXCEPT ![r] = Fenced(@, "quarantined")]
    BY <1>3 DEF HealQuarantine
  <2>2. /\ StatusOf' = [StatusOf EXCEPT ![r] = "quarantined"]
        /\ Claims' = Claims \ Abstract!OwnersOf(r)
    BY <1>1, <2>1, AbstractTakenBack DEF Status
  <2>3. rows[r].status \in {"queued", "running", "paused"}
    BY <1>1, <1>3 DEF Row, Status
  <2>4. Abstract!Quarantine(r)
    BY <2>2, <2>3 DEF Abstract!Quarantine, StatusOf
  <2> QED BY <2>4 DEF Abstract!Next
<1>4. CASE HealRequeue(a, r) /\ rows[r].status = "running"
  <2>1. rows' = [rows EXCEPT ![r] = Fenced(@, "queued")]
    BY <1>4 DEF HealRequeue
  <2>2. /\ StatusOf' = [StatusOf EXCEPT ![r] = "queued"]
        /\ Claims' = Claims \ Abstract!OwnersOf(r)
    BY <1>1, <2>1, AbstractTakenBack DEF Status
  <2>3. Abstract!TakeBack(r)
    BY <1>4, <2>2 DEF Abstract!TakeBack, StatusOf
  <2> QED BY <2>3 DEF Abstract!Next
<1>5. CASE HealQuarantine(a, r) /\ rows[r].status \in {"done", "quarantined"}
  BY <1>2, <1>5 DEF HealQuarantine, IInv, TypeOK
<1>6. CASE HealRequeue(a, r) /\ rows[r].status # "running"
  BY <1>2, <1>6 DEF HealRequeue, IInv, TypeOK
<1> QED BY <1>3, <1>4, <1>5, <1>6

\* Every step of the implementation is a step of the lifecycle or a stutter.
LEMMA StepImplements ==
    IInv /\ [Next]_vars => Abstract!Next \/ UNCHANGED Abstract!lifeVars
<1> DEFINE Implements == Abstract!Next \/ UNCHANGED Abstract!lifeVars
<1> SUFFICES ASSUME IInv, [Next]_vars PROVE Implements
  OBVIOUS
<1>1. ASSUME UNCHANGED rows, fibers' \subseteq fibers PROVE Implements
  <2>1. StatusOf' = StatusOf
    BY <1>1 DEF StatusOf
  <2>2. Claims' \subseteq Claims
    BY <1>1 DEF Claims, HoldsClaim
  <2> QED BY <2>1, <2>2, AbstractAbandon
<1>2. ASSUME NEW p \in Pids, Dies(p) PROVE Implements
  BY <1>1, <1>2 DEF Dies
<1>3. ASSUME NEW p \in Pids, NEW r \in Runs, ClaimNextRun(p, r) PROVE Implements
  BY <1>3, AbstractClaim DEF Abstract!Next
<1>4. ASSUME NEW a \in Sweepers, NEW r \in Runs, HealQuarantine(a, r) \/ HealRequeue(a, r)
      PROVE  Implements
  BY <1>4, HealImplements
<1>5. ASSUME NEW w \in wakes, WakeStep(w) PROVE Implements
  <2>1. PICK s \in {"queued", "done"}, settled \in BOOLEAN : WakeCommit(w, s, settled)
    BY <1>5 DEF WakeStep
  <2>2. CASE rows[w.run].version = w.ver
    <3>1. rows' = [rows EXCEPT ![w.run] = Woken(@, s)] /\ fibers' = fibers
      BY <2>1, <2>2 DEF WakeCommit
    <3>2. Abstract!Wake(w.run, s)
      BY <2>2, <3>1, AbstractWake
    <3>3. w.run \in Runs
      BY DEF IInv, TypeOK, Wake
    <3> QED BY <3>2, <3>3 DEF Abstract!Next
  <2>3. CASE rows[w.run].version # w.ver
    BY <1>1, <2>1, <2>3 DEF WakeCommit
  <2> QED BY <2>2, <2>3
<1>6. ASSUME NEW f \in fibers, FiberStep(f) PROVE Implements
  BY <1>6, FiberStepImplements
<1>7. ASSUME NEW r \in Runs, ProjectEnded(r) PROVE Implements
  <2>1. /\ Woken(rows[r], "done") \in Row
        /\ Woken(rows[r], "done").status = rows[r].status
        /\ Woken(rows[r], "done").epoch = rows[r].epoch
    BY <1>7 DEF ProjectEnded, Woken, IInv, TypeOK, Row, Status
  <2>2. rows' = [rows EXCEPT ![r] = Woken(rows[r], "done")] /\ fibers' = fibers
    BY <1>7 DEF ProjectEnded
  <2> QED BY <2>1, <2>2, AbstractStutter, AbstractAbandon
<1> HIDE DEF Implements
<1> QED
  BY <1>1, <1>2, <1>3, <1>4, <1>5, <1>6, <1>7
     DEF Next, DaemonStep, ExecutorStep, SweepStep, ReaperStep, vars, WakeRead,
         AcquireDaemonLock, SeeStaleLock, ForceAcquireDaemonLock, HeartbeatOwned, HeartbeatLost,
         ReleaseDaemonLock, Exit, Shutdown, Crash, SweepScan, SweepEnds, HealFails,
         EvictSnapshot, EvictDelete, ReaperDies, LockExpires

\* Locks, epochs, versions, sweeps and zombies implement the lifecycle, in which
\* one owner at a time decides how its run goes on (claimNextRun, appendFact,
\* startupSweep, wakePending).
THEOREM LifecycleImplemented == Spec => ImplementsLifecycle
<1>1. Init => Abstract!Init
  <2> SUFFICES ASSUME Init PROVE Abstract!Init
    OBVIOUS
  <2>1. Claims = {}
    BY DEF Init, Claims
  <2>2. StatusOf = [r \in Runs |-> "queued"]
    BY DEF Init, StatusOf
  <2> QED BY <2>1, <2>2 DEF Abstract!Init, StatusOf
<1>2. IInv /\ [Next]_vars => [Abstract!Next]_Abstract!lifeVars
  BY StepImplements
<1> QED BY SpecIInv, <1>1, <1>2, PTL DEF Spec, ImplementsLifecycle, Abstract!Spec

-----------------------------------------------------------------------------
(* Harnesses, servers, and the daemons they keep running.                  *)

\* What is known of a pid: a daemon that has no harness was never an attempt,
\* and one that never ran is in no row.
Strangers ==
    \A d \in Daemons :
        /\ parent[d] = None => attempt[d] = "none" /\ ~watched[d]
        /\ proc[d] = "none" => held.pid # d /\ parent[d] = None

\* What is known of a child, while it runs and after: who waits for it, and that
\* a harness which no longer waits has told it to stop.
Children ==
    \A d \in Daemons : \A h \in Harnesses : parent[d] = h =>
        /\ attempt[d] # "none"
        /\ stage[h] \notin {"new", "checked"}
        /\ H!Runs(d) \/ attempt[d] = "pending" => watched[d]
        /\ H!Runs(d) /\ attempt[d] \in {"reaping", "failed"} => told[d]
        /\ H!Runs(d) /\ ~told[d] => stage[h] \in {"idle", "crashed"}
        /\ d \in H!Awaited(h) => stage[h] \notin {"booting", "spawning"}
        /\ d \in H!Awaited(h) /\ stage[h] = "idle" => child[h] = d /\ timers[h] = 0

\* A harness in its event loop waits for a timer or for its child.
Attempts ==
    \A h \in Harnesses :
        /\ stage[h] = "idle" => timers[h] = 1 \/ (timers[h] = 0 /\ child[h] \in H!Awaited(h))
        /\ stage[h] # "idle" => timers[h] = 0

LockRow == held.harness # None => held.pid # None /\ parent[held.pid] = held.harness

\* A row that a harness has read and nobody has written since may still be deleted.
Snapshots ==
    \A h \in Harnesses :
        /\ seen[h] # "none" => stage[h] \in {"booting", "idle"}
        /\ seen[h] = "same" =>
              /\ held.pid # None
              /\ expired \/ held.pid \in Foreign \/ ~H!Runs(held.pid)
              /\ parent[held.pid] = h => told[held.pid] \/ ~H!Runs(held.pid)

\* The server of a harness, and the child it remembers.
Own ==
    \A h \in Harnesses :
        /\ server[h] = "deciding" => stage[h] = "checked"
        /\ server[h] = "crashed" => stage[h] = "crashed"
        /\ stage[h] \notin {"gone", "crashed"} /\ child[h] # None => parent[child[h]] = h

HarnessInv == H!TypeOK /\ Own /\ Strangers /\ Children /\ Attempts /\ LockRow /\ Snapshots /\ H!DiscoveryLives

\* A daemon that finds no row.
LEMMA AcquireKeeps ==
    ASSUME H!HarnessAssumption, HarnessInv, NEW d \in Daemons, H!Acquire(d)
    PROVE  HarnessInv'
<1> USE DEF H!HarnessAssumption, HarnessInv
<1>1. H!TypeOK'
  BY DEF H!Acquire, H!TakeLock, H!WriteLock, H!attempts, H!bounds, H!supervisors, H!TypeOK, H!Servers
<1>2. Own'
  BY DEF H!Acquire, H!TakeLock, H!WriteLock, H!attempts, H!bounds, H!supervisors, Own, Strangers,
         H!TypeOK, H!Servers
<1>3. Strangers'
  BY DEF H!Acquire, H!TakeLock, H!WriteLock, H!attempts, H!bounds, H!supervisors, Strangers, H!TypeOK
<1>4. Children'
  BY DEF H!Acquire, H!Awaited, H!Of, H!Runs, H!TakeLock, H!WriteLock, H!attempts, H!bounds,
         H!supervisors, Children, Own, Strangers, H!TypeOK
<1>5. Attempts'
  BY DEF H!Acquire, H!Awaited, H!Of, H!Runs, H!TakeLock, H!WriteLock, H!attempts, H!bounds,
         H!supervisors, Attempts, Own, Children, H!TypeOK
<1>6. LockRow'
  BY DEF H!Acquire, H!TakeLock, H!WriteLock, H!attempts, H!bounds, H!supervisors, LockRow, Own,
         Strangers, H!TypeOK
<1>7. Snapshots'
  BY DEF H!Acquire, H!Runs, H!TakeLock, H!WriteLock, H!attempts, H!bounds, H!supervisors, Snapshots,
         Strangers, Children, H!TypeOK
<1>8. H!DiscoveryLives'
  BY DEF H!Acquire, H!TakeLock, H!WriteLock, H!attempts, H!bounds, H!supervisors, H!DiscoveryLives, Own,
         H!TypeOK, H!Servers
<1> QED BY <1>1, <1>2, <1>3, <1>4, <1>5, <1>6, <1>7, <1>8

\* A daemon that finds a row.
LEMMA FindHeldKeeps ==
    ASSUME H!HarnessAssumption, HarnessInv, NEW d \in Daemons, H!FindHeld(d)
    PROVE  HarnessInv'
<1> USE DEF H!HarnessAssumption, HarnessInv
<1>1. H!TypeOK'
  BY DEF H!FindHeld, H!attempts, H!bounds, H!rows, H!supervisors, H!TypeOK, H!Servers
<1>2. Own'
  BY DEF H!FindHeld, H!attempts, H!bounds, H!rows, H!supervisors, Own, Strangers, H!TypeOK, H!Servers
<1>3. Strangers'
  BY DEF H!FindHeld, H!attempts, H!bounds, H!rows, H!supervisors, Strangers, H!TypeOK
<1>4. Children'
  BY DEF H!FindHeld, H!Awaited, H!Of, H!Runs, H!attempts, H!bounds, H!rows, H!supervisors, Children, Own,
         Strangers, H!TypeOK
<1>5. Attempts'
  BY DEF H!FindHeld, H!Awaited, H!Of, H!Runs, H!attempts, H!bounds, H!rows, H!supervisors, Attempts, Own,
         Children, H!TypeOK
<1>6. LockRow'
  BY DEF H!FindHeld, H!attempts, H!bounds, H!rows, H!supervisors, LockRow, Own, Strangers, H!TypeOK
<1>7. Snapshots'
  BY DEF H!FindHeld, H!Runs, H!attempts, H!bounds, H!rows, H!supervisors, Snapshots, Strangers, Children,
         H!TypeOK
<1>8. H!DiscoveryLives'
  BY DEF H!FindHeld, H!attempts, H!bounds, H!rows, H!supervisors, H!DiscoveryLives, Own, H!TypeOK, H!Servers
<1> QED BY <1>1, <1>2, <1>3, <1>4, <1>5, <1>6, <1>7, <1>8

\* A takeover.
LEMMA ForceAcquireKeeps ==
    ASSUME H!HarnessAssumption, HarnessInv, NEW d \in Daemons, H!ForceAcquire(d)
    PROVE  HarnessInv'
<1> USE DEF H!HarnessAssumption, HarnessInv
<1>1. H!TypeOK'
  BY DEF H!ForceAcquire, H!TakeLock, H!WriteLock, H!attempts, H!bounds, H!supervisors, H!TypeOK, H!Servers
<1>2. Own'
  BY DEF H!ForceAcquire, H!TakeLock, H!WriteLock, H!attempts, H!bounds, H!supervisors, Own, Strangers,
         H!TypeOK, H!Servers
<1>3. Strangers'
  BY DEF H!ForceAcquire, H!TakeLock, H!WriteLock, H!attempts, H!bounds, H!supervisors, Strangers, H!TypeOK
<1>4. Children'
  BY DEF H!ForceAcquire, H!Awaited, H!Of, H!Runs, H!TakeLock, H!WriteLock, H!attempts, H!bounds,
         H!supervisors, Children, Own, Strangers, H!TypeOK
<1>5. Attempts'
  BY DEF H!ForceAcquire, H!Awaited, H!Of, H!Runs, H!TakeLock, H!WriteLock, H!attempts, H!bounds,
         H!supervisors, Attempts, Own, Children, H!TypeOK
<1>6. LockRow'
  BY DEF H!ForceAcquire, H!TakeLock, H!WriteLock, H!attempts, H!bounds, H!supervisors, LockRow, Own,
         Strangers, H!TypeOK
<1>7. Snapshots'
  BY DEF H!ForceAcquire, H!Runs, H!TakeLock, H!WriteLock, H!attempts, H!bounds, H!supervisors, Snapshots,
         Strangers, Children, H!TypeOK
<1>8. H!DiscoveryLives'
  BY DEF H!ForceAcquire, H!TakeLock, H!WriteLock, H!attempts, H!bounds, H!supervisors, H!DiscoveryLives,
         Own, H!TypeOK, H!Servers
<1> QED BY <1>1, <1>2, <1>3, <1>4, <1>5, <1>6, <1>7, <1>8

\* A heartbeat.
LEMMA BeatKeeps ==
    ASSUME H!HarnessAssumption, HarnessInv, NEW d \in Daemons, H!Beat(d)
    PROVE  HarnessInv'
<1> USE DEF H!HarnessAssumption, HarnessInv
<1>1. H!TypeOK'
  BY DEF H!Beat, H!WriteLock, H!attempts, H!bounds, H!daemons, H!supervisors, H!TypeOK, H!Servers
<1>2. Own'
  BY DEF H!Beat, H!WriteLock, H!attempts, H!bounds, H!daemons, H!supervisors, Own, Strangers, H!TypeOK,
         H!Servers
<1>3. Strangers'
  BY DEF H!Beat, H!WriteLock, H!attempts, H!bounds, H!daemons, H!supervisors, Strangers, H!TypeOK
<1>4. Children'
  BY DEF H!Beat, H!Awaited, H!Of, H!Runs, H!WriteLock, H!attempts, H!bounds, H!daemons, H!supervisors,
         Children, Own, Strangers, H!TypeOK
<1>5. Attempts'
  BY DEF H!Beat, H!Awaited, H!Of, H!Runs, H!WriteLock, H!attempts, H!bounds, H!daemons, H!supervisors,
         Attempts, Own, Children, H!TypeOK
<1>6. LockRow'
  BY DEF H!Beat, H!WriteLock, H!attempts, H!bounds, H!daemons, H!supervisors, LockRow, Own, Strangers,
         H!TypeOK
<1>7. Snapshots'
  BY DEF H!Beat, H!Runs, H!WriteLock, H!attempts, H!bounds, H!daemons, H!supervisors, Snapshots,
         Strangers, Children, H!TypeOK
<1>8. H!DiscoveryLives'
  BY DEF H!Beat, H!WriteLock, H!attempts, H!bounds, H!daemons, H!supervisors, H!DiscoveryLives, Own,
         H!TypeOK, H!Servers
<1> QED BY <1>1, <1>2, <1>3, <1>4, <1>5, <1>6, <1>7, <1>8

\* A daemon that is told to stop or lost its row.
LEMMA TripsKeeps ==
    ASSUME H!HarnessAssumption, HarnessInv, NEW d \in Daemons, H!Trips(d)
    PROVE  HarnessInv'
<1> USE DEF H!HarnessAssumption, HarnessInv
<1>1. H!TypeOK'
  BY DEF H!Trips, H!attempts, H!bounds, H!rows, H!supervisors, H!TypeOK, H!Servers
<1>2. Own'
  BY DEF H!Trips, H!attempts, H!bounds, H!rows, H!supervisors, Own, Strangers, H!TypeOK, H!Servers
<1>3. Strangers'
  BY DEF H!Trips, H!attempts, H!bounds, H!rows, H!supervisors, Strangers, H!TypeOK
<1>4. Children'
  BY DEF H!Trips, H!Awaited, H!Of, H!Runs, H!attempts, H!bounds, H!rows, H!supervisors, Children, Own,
         Strangers, H!TypeOK
<1>5. Attempts'
  BY DEF H!Trips, H!Awaited, H!Of, H!Runs, H!attempts, H!bounds, H!rows, H!supervisors, Attempts, Own,
         Children, H!TypeOK
<1>6. LockRow'
  BY DEF H!Trips, H!attempts, H!bounds, H!rows, H!supervisors, LockRow, Own, Strangers, H!TypeOK
<1>7. Snapshots'
  BY DEF H!Trips, H!Runs, H!attempts, H!bounds, H!rows, H!supervisors, Snapshots, Strangers, Children,
         H!TypeOK
<1>8. H!DiscoveryLives'
  BY DEF H!Trips, H!attempts, H!bounds, H!rows, H!supervisors, H!DiscoveryLives, Own, H!TypeOK, H!Servers
<1> QED BY <1>1, <1>2, <1>3, <1>4, <1>5, <1>6, <1>7, <1>8

\* A SIGTERM before there is a handler.
LEMMA DiesYoungKeeps ==
    ASSUME H!HarnessAssumption, HarnessInv, NEW d \in Daemons, H!DiesYoung(d)
    PROVE  HarnessInv'
<1> USE DEF H!HarnessAssumption, HarnessInv
<1>1. H!TypeOK'
  BY DEF H!DiesYoung, H!attempts, H!bounds, H!rows, H!supervisors, H!TypeOK, H!Servers
<1>2. Own'
  BY DEF H!DiesYoung, H!attempts, H!bounds, H!rows, H!supervisors, Own, Strangers, H!TypeOK, H!Servers
<1>3. Strangers'
  BY DEF H!DiesYoung, H!attempts, H!bounds, H!rows, H!supervisors, Strangers, H!TypeOK
<1>4. Children'
  BY DEF H!DiesYoung, H!Awaited, H!Of, H!Runs, H!attempts, H!bounds, H!rows, H!supervisors, Children,
         Own, Strangers, H!TypeOK
<1>5. Attempts'
  BY DEF H!DiesYoung, H!Awaited, H!Of, H!Runs, H!attempts, H!bounds, H!rows, H!supervisors, Attempts,
         Own, Children, H!TypeOK
<1>6. LockRow'
  BY DEF H!DiesYoung, H!attempts, H!bounds, H!rows, H!supervisors, LockRow, Own, Strangers, H!TypeOK
<1>7. Snapshots'
  BY DEF H!DiesYoung, H!Runs, H!attempts, H!bounds, H!rows, H!supervisors, Snapshots, Strangers,
         Children, H!TypeOK
<1>8. H!DiscoveryLives'
  BY DEF H!DiesYoung, H!attempts, H!bounds, H!rows, H!supervisors, H!DiscoveryLives, Own, H!TypeOK,
         H!Servers
<1> QED BY <1>1, <1>2, <1>3, <1>4, <1>5, <1>6, <1>7, <1>8

\* The end of a daemon.
LEMMA ExitKeeps ==
    ASSUME H!HarnessAssumption, HarnessInv, NEW d \in Daemons, H!Exit(d)
    PROVE  HarnessInv'
<1> USE DEF H!HarnessAssumption, HarnessInv
<1>1. H!TypeOK'
  BY DEF H!Exit, H!NoLock, H!Outside, H!WriteLock, H!attempts, H!supervisors, H!TypeOK, H!Servers
<1>2. Own'
  BY DEF H!Exit, H!NoLock, H!Outside, H!WriteLock, H!attempts, H!supervisors, Own, Strangers, H!TypeOK,
         H!Servers
<1>3. Strangers'
  BY DEF H!Exit, H!NoLock, H!Outside, H!WriteLock, H!attempts, H!supervisors, Strangers, H!TypeOK
<1>4. Children'
  BY DEF H!Exit, H!Awaited, H!NoLock, H!Of, H!Outside, H!Runs, H!WriteLock, H!attempts, H!supervisors,
         Children, Own, Strangers, H!TypeOK
<1>5. Attempts'
  BY DEF H!Exit, H!Awaited, H!NoLock, H!Of, H!Outside, H!Runs, H!WriteLock, H!attempts, H!supervisors,
         Attempts, Own, Children, H!TypeOK
<1>6. LockRow'
  BY DEF H!Exit, H!NoLock, H!Outside, H!WriteLock, H!attempts, H!supervisors, LockRow, Own, Strangers,
         H!TypeOK
<1>7. Snapshots'
  BY DEF H!Exit, H!NoLock, H!Outside, H!Runs, H!WriteLock, H!attempts, H!supervisors, Snapshots,
         Strangers, Children, H!TypeOK
<1>8. H!DiscoveryLives'
  BY DEF H!Exit, H!NoLock, H!Outside, H!WriteLock, H!attempts, H!supervisors, H!DiscoveryLives, Own,
         H!TypeOK, H!Servers
<1> QED BY <1>1, <1>2, <1>3, <1>4, <1>5, <1>6, <1>7, <1>8

\* A daemon that no harness started.
LEMMA StartByHandKeeps ==
    ASSUME H!HarnessAssumption, HarnessInv, NEW d \in Daemons, H!StartByHand(d)
    PROVE  HarnessInv'
<1> USE DEF H!HarnessAssumption, HarnessInv
<1>1. H!TypeOK'
  BY DEF H!StartByHand, H!Outside, H!attempts, H!rows, H!supervisors, H!TypeOK, H!Servers
<1>2. Own'
  BY DEF H!StartByHand, H!Outside, H!attempts, H!rows, H!supervisors, Own, Strangers, H!TypeOK, H!Servers
<1>3. Strangers'
  BY DEF H!StartByHand, H!Outside, H!attempts, H!rows, H!supervisors, Strangers, H!TypeOK
<1>4. Children'
  BY DEF H!StartByHand, H!Awaited, H!Of, H!Outside, H!Runs, H!attempts, H!rows, H!supervisors, Children,
         Own, Strangers, H!TypeOK
<1>5. Attempts'
  BY DEF H!StartByHand, H!Awaited, H!Of, H!Outside, H!Runs, H!attempts, H!rows, H!supervisors, Attempts,
         Own, Children, H!TypeOK
<1>6. LockRow'
  BY DEF H!StartByHand, H!Outside, H!attempts, H!rows, H!supervisors, LockRow, Own, Strangers, H!TypeOK
<1>7. Snapshots'
  BY DEF H!StartByHand, H!Outside, H!Runs, H!attempts, H!rows, H!supervisors, Snapshots, Strangers,
         Children, H!TypeOK
<1>8. H!DiscoveryLives'
  BY DEF H!StartByHand, H!Outside, H!attempts, H!rows, H!supervisors, H!DiscoveryLives, Own, H!TypeOK,
         H!Servers
<1> QED BY <1>1, <1>2, <1>3, <1>4, <1>5, <1>6, <1>7, <1>8

\* A daemon that stops by itself.
LEMMA GivesUpKeeps ==
    ASSUME H!HarnessAssumption, HarnessInv, NEW d \in Daemons, H!GivesUp(d)
    PROVE  HarnessInv'
<1> USE DEF H!HarnessAssumption, HarnessInv
<1>1. H!TypeOK'
  BY DEF H!GivesUp, H!Outside, H!attempts, H!rows, H!supervisors, H!TypeOK, H!Servers
<1>2. Own'
  BY DEF H!GivesUp, H!Outside, H!attempts, H!rows, H!supervisors, Own, Strangers, H!TypeOK, H!Servers
<1>3. Strangers'
  BY DEF H!GivesUp, H!Outside, H!attempts, H!rows, H!supervisors, Strangers, H!TypeOK
<1>4. Children'
  BY DEF H!GivesUp, H!Awaited, H!Of, H!Outside, H!Runs, H!attempts, H!rows, H!supervisors, Children, Own,
         Strangers, H!TypeOK
<1>5. Attempts'
  BY DEF H!GivesUp, H!Awaited, H!Of, H!Outside, H!Runs, H!attempts, H!rows, H!supervisors, Attempts, Own,
         Children, H!TypeOK
<1>6. LockRow'
  BY DEF H!GivesUp, H!Outside, H!attempts, H!rows, H!supervisors, LockRow, Own, Strangers, H!TypeOK
<1>7. Snapshots'
  BY DEF H!GivesUp, H!Outside, H!Runs, H!attempts, H!rows, H!supervisors, Snapshots, Strangers, Children,
         H!TypeOK
<1>8. H!DiscoveryLives'
  BY DEF H!GivesUp, H!Outside, H!attempts, H!rows, H!supervisors, H!DiscoveryLives, Own, H!TypeOK, H!Servers
<1> QED BY <1>1, <1>2, <1>3, <1>4, <1>5, <1>6, <1>7, <1>8

\* The crash of a daemon.
LEMMA CrashKeeps ==
    ASSUME H!HarnessAssumption, HarnessInv, NEW d \in Daemons, H!Crash(d)
    PROVE  HarnessInv'
<1> USE DEF H!HarnessAssumption, HarnessInv
<1>1. H!TypeOK'
  BY DEF H!Crash, H!Outside, H!Runs, H!attempts, H!rows, H!supervisors, H!TypeOK, H!Servers
<1>2. Own'
  BY DEF H!Crash, H!Outside, H!Runs, H!attempts, H!rows, H!supervisors, Own, Strangers, H!TypeOK, H!Servers
<1>3. Strangers'
  BY DEF H!Crash, H!Outside, H!Runs, H!attempts, H!rows, H!supervisors, Strangers, H!TypeOK
<1>4. Children'
  BY DEF H!Crash, H!Awaited, H!Of, H!Outside, H!Runs, H!attempts, H!rows, H!supervisors, Children, Own,
         Strangers, H!TypeOK
<1>5. Attempts'
  BY DEF H!Crash, H!Awaited, H!Of, H!Outside, H!Runs, H!attempts, H!rows, H!supervisors, Attempts, Own,
         Children, H!TypeOK
<1>6. LockRow'
  BY DEF H!Crash, H!Outside, H!Runs, H!attempts, H!rows, H!supervisors, LockRow, Own, Strangers, H!TypeOK
<1>7. Snapshots'
  BY DEF H!Crash, H!Outside, H!Runs, H!attempts, H!rows, H!supervisors, Snapshots, Strangers, Children,
         H!TypeOK
<1>8. H!DiscoveryLives'
  BY DEF H!Crash, H!Outside, H!Runs, H!attempts, H!rows, H!supervisors, H!DiscoveryLives, Own, H!TypeOK,
         H!Servers
<1> QED BY <1>1, <1>2, <1>3, <1>4, <1>5, <1>6, <1>7, <1>8

\* A lock that goes stale.
LEMMA LockAgesKeeps ==
    ASSUME H!HarnessAssumption, HarnessInv, H!LockAges
    PROVE  HarnessInv'
<1> USE DEF H!HarnessAssumption, HarnessInv
<1>1. H!TypeOK'
  BY DEF H!LockAges, H!attempts, H!daemons, H!supervisors, H!TypeOK, H!Servers
<1>2. Own'
  BY DEF H!LockAges, H!attempts, H!daemons, H!supervisors, Own, Strangers, H!TypeOK, H!Servers
<1>3. Strangers'
  BY DEF H!LockAges, H!attempts, H!daemons, H!supervisors, Strangers, H!TypeOK
<1>4. Children'
  BY DEF H!LockAges, H!Awaited, H!Of, H!Runs, H!attempts, H!daemons, H!supervisors, Children, Own,
         Strangers, H!TypeOK
<1>5. Attempts'
  BY DEF H!LockAges, H!Awaited, H!Of, H!Runs, H!attempts, H!daemons, H!supervisors, Attempts, Own,
         Children, H!TypeOK
<1>6. LockRow'
  BY DEF H!LockAges, H!attempts, H!daemons, H!supervisors, LockRow, Own, Strangers, H!TypeOK
<1>7. Snapshots'
  BY DEF H!LockAges, H!Runs, H!attempts, H!daemons, H!supervisors, Snapshots, Strangers, Children, H!TypeOK
<1>8. H!DiscoveryLives'
  BY DEF H!LockAges, H!attempts, H!daemons, H!supervisors, H!DiscoveryLives, Own, H!TypeOK, H!Servers
<1> QED BY <1>1, <1>2, <1>3, <1>4, <1>5, <1>6, <1>7, <1>8

\* `daemon stop`, its look at the row.
LEMMA StopReadsKeeps ==
    ASSUME H!HarnessAssumption, HarnessInv, H!StopReads
    PROVE  HarnessInv'
<1> USE DEF H!HarnessAssumption, HarnessInv
<1>1. H!TypeOK'
  BY DEF H!StopReads, H!HarnessLooksAlive, H!Outside, H!attempts, H!daemons, H!rows, H!supervisors,
         H!TypeOK, H!Servers
<1>2. Own'
  BY DEF H!StopReads, H!HarnessLooksAlive, H!Outside, H!attempts, H!daemons, H!rows, H!supervisors, Own,
         Strangers, H!TypeOK, H!Servers
<1>3. Strangers'
  BY DEF H!StopReads, H!HarnessLooksAlive, H!Outside, H!attempts, H!daemons, H!rows, H!supervisors,
         Strangers, H!TypeOK
<1>4. Children'
  BY DEF H!StopReads, H!Awaited, H!HarnessLooksAlive, H!Of, H!Outside, H!Runs, H!attempts, H!daemons,
         H!rows, H!supervisors, Children, Own, Strangers, H!TypeOK
<1>5. Attempts'
  BY DEF H!StopReads, H!Awaited, H!HarnessLooksAlive, H!Of, H!Outside, H!Runs, H!attempts, H!daemons,
         H!rows, H!supervisors, Attempts, Own, Children, H!TypeOK
<1>6. LockRow'
  BY DEF H!StopReads, H!HarnessLooksAlive, H!Outside, H!attempts, H!daemons, H!rows, H!supervisors,
         LockRow, Own, Strangers, H!TypeOK
<1>7. Snapshots'
  BY DEF H!StopReads, H!HarnessLooksAlive, H!Outside, H!Runs, H!attempts, H!daemons, H!rows,
         H!supervisors, Snapshots, Strangers, Children, H!TypeOK
<1>8. H!DiscoveryLives'
  BY DEF H!StopReads, H!HarnessLooksAlive, H!Outside, H!attempts, H!daemons, H!rows, H!supervisors,
         H!DiscoveryLives, Own, H!TypeOK, H!Servers
<1> QED BY <1>1, <1>2, <1>3, <1>4, <1>5, <1>6, <1>7, <1>8

\* `daemon stop`, its signal.
LEMMA StopSignalsKeeps ==
    ASSUME H!HarnessAssumption, HarnessInv, H!StopSignals
    PROVE  HarnessInv'
<1> USE DEF H!HarnessAssumption, HarnessInv
<1>1. H!TypeOK'
  BY DEF H!StopSignals, H!LooksDead, H!NoLock, H!Runs, H!WriteLock, H!attempts, H!bounds, H!supervisors,
         H!TypeOK, H!Servers
<1>2. Own'
  BY DEF H!StopSignals, H!LooksDead, H!NoLock, H!Runs, H!WriteLock, H!attempts, H!bounds, H!supervisors,
         Own, Strangers, H!TypeOK, H!Servers
<1>3. Strangers'
  BY DEF H!StopSignals, H!LooksDead, H!NoLock, H!Runs, H!WriteLock, H!attempts, H!bounds, H!supervisors,
         Strangers, H!TypeOK
<1>4. Children'
  BY DEF H!StopSignals, H!Awaited, H!LooksDead, H!NoLock, H!Of, H!Runs, H!WriteLock, H!attempts,
         H!bounds, H!supervisors, Children, Own, Strangers, H!TypeOK
<1>5. Attempts'
  BY DEF H!StopSignals, H!Awaited, H!LooksDead, H!NoLock, H!Of, H!Runs, H!WriteLock, H!attempts,
         H!bounds, H!supervisors, Attempts, Own, Children, H!TypeOK
<1>6. LockRow'
  BY DEF H!StopSignals, H!LooksDead, H!NoLock, H!Runs, H!WriteLock, H!attempts, H!bounds, H!supervisors,
         LockRow, Own, Strangers, H!TypeOK
<1>7. Snapshots'
  BY DEF H!StopSignals, H!LooksDead, H!NoLock, H!Runs, H!WriteLock, H!attempts, H!bounds, H!supervisors,
         Snapshots, Strangers, Children, H!TypeOK
<1>8. H!DiscoveryLives'
  BY DEF H!StopSignals, H!LooksDead, H!NoLock, H!Runs, H!WriteLock, H!attempts, H!bounds, H!supervisors,
         H!DiscoveryLives, Own, H!TypeOK, H!Servers
<1> QED BY <1>1, <1>2, <1>3, <1>4, <1>5, <1>6, <1>7, <1>8

\* A server that binds.
LEMMA BindKeeps ==
    ASSUME H!HarnessAssumption, HarnessInv, NEW s \in H!Servers, H!Bind(s)
    PROVE  HarnessInv'
<1> USE DEF H!HarnessAssumption, HarnessInv
<1>1. H!TypeOK'
  BY DEF H!Bind, H!ServerLooksDead, H!attempts, H!bounds, H!daemons, H!rows, H!TypeOK, H!Servers
<1>2. Own'
  BY DEF H!Bind, H!ServerLooksDead, H!attempts, H!bounds, H!daemons, H!rows, Own, Strangers, H!TypeOK,
         H!Servers
<1>3. Strangers'
  BY DEF H!Bind, H!ServerLooksDead, H!attempts, H!bounds, H!daemons, H!rows, Strangers, H!TypeOK
<1>4. Children'
  BY DEF H!Bind, H!Awaited, H!Of, H!Runs, H!ServerLooksDead, H!attempts, H!bounds, H!daemons, H!rows,
         Children, Own, Strangers, H!TypeOK
<1>5. Attempts'
  BY DEF H!Bind, H!Awaited, H!Of, H!Runs, H!ServerLooksDead, H!attempts, H!bounds, H!daemons, H!rows,
         Attempts, Own, Children, H!TypeOK
<1>6. LockRow'
  BY DEF H!Bind, H!ServerLooksDead, H!attempts, H!bounds, H!daemons, H!rows, LockRow, Own, Strangers,
         H!TypeOK
<1>7. Snapshots'
  BY DEF H!Bind, H!Runs, H!ServerLooksDead, H!attempts, H!bounds, H!daemons, H!rows, Snapshots,
         Strangers, Children, H!TypeOK
<1>8. H!DiscoveryLives'
  BY DEF H!Bind, H!ServerLooksDead, H!attempts, H!bounds, H!daemons, H!rows, H!DiscoveryLives, Own,
         H!TypeOK, H!Servers
<1> QED BY <1>1, <1>2, <1>3, <1>4, <1>5, <1>6, <1>7, <1>8

\* A server that publishes its row.
LEMMA PublishKeeps ==
    ASSUME H!HarnessAssumption, HarnessInv, NEW s \in H!Servers, H!Publish(s)
    PROVE  HarnessInv'
<1> USE DEF H!HarnessAssumption, HarnessInv
<1>1. H!TypeOK'
  BY DEF H!Publish, H!attempts, H!bounds, H!daemons, H!TypeOK, H!Servers
<1>2. Own'
  BY DEF H!Publish, H!attempts, H!bounds, H!daemons, Own, Strangers, H!TypeOK, H!Servers
<1>3. Strangers'
  BY DEF H!Publish, H!attempts, H!bounds, H!daemons, Strangers, H!TypeOK
<1>4. Children'
  BY DEF H!Publish, H!Awaited, H!Of, H!Runs, H!attempts, H!bounds, H!daemons, Children, Own, Strangers,
         H!TypeOK
<1>5. Attempts'
  BY DEF H!Publish, H!Awaited, H!Of, H!Runs, H!attempts, H!bounds, H!daemons, Attempts, Own, Children,
         H!TypeOK
<1>6. LockRow'
  BY DEF H!Publish, H!attempts, H!bounds, H!daemons, LockRow, Own, Strangers, H!TypeOK
<1>7. Snapshots'
  BY DEF H!Publish, H!Runs, H!attempts, H!bounds, H!daemons, Snapshots, Strangers, Children, H!TypeOK
<1>8. H!DiscoveryLives'
  BY DEF H!Publish, H!attempts, H!bounds, H!daemons, H!DiscoveryLives, Own, H!TypeOK, H!Servers
<1> QED BY <1>1, <1>2, <1>3, <1>4, <1>5, <1>6, <1>7, <1>8

\* A server that cannot bind.
LEMMA BindFailsKeeps ==
    ASSUME H!HarnessAssumption, HarnessInv, NEW s \in H!Servers, H!BindFails(s)
    PROVE  HarnessInv'
<1> USE DEF H!HarnessAssumption, HarnessInv
<1>1. H!TypeOK'
  BY DEF H!BindFails, H!Outside, H!attempts, H!daemons, H!rows, H!TypeOK, H!Servers
<1>2. Own'
  BY DEF H!BindFails, H!Outside, H!attempts, H!daemons, H!rows, Own, Strangers, H!TypeOK, H!Servers
<1>3. Strangers'
  BY DEF H!BindFails, H!Outside, H!attempts, H!daemons, H!rows, Strangers, H!TypeOK
<1>4. Children'
  BY DEF H!BindFails, H!Awaited, H!Of, H!Outside, H!Runs, H!attempts, H!daemons, H!rows, Children, Own,
         Strangers, H!TypeOK
<1>5. Attempts'
  BY DEF H!BindFails, H!Awaited, H!Of, H!Outside, H!Runs, H!attempts, H!daemons, H!rows, Attempts, Own,
         Children, H!TypeOK
<1>6. LockRow'
  BY DEF H!BindFails, H!Outside, H!attempts, H!daemons, H!rows, LockRow, Own, Strangers, H!TypeOK
<1>7. Snapshots'
  BY DEF H!BindFails, H!Outside, H!Runs, H!attempts, H!daemons, H!rows, Snapshots, Strangers, Children,
         H!TypeOK
<1>8. H!DiscoveryLives'
  BY DEF H!BindFails, H!Outside, H!attempts, H!daemons, H!rows, H!DiscoveryLives, Own, H!TypeOK, H!Servers
<1> QED BY <1>1, <1>2, <1>3, <1>4, <1>5, <1>6, <1>7, <1>8

\* A server that closes.
LEMMA StopServeKeeps ==
    ASSUME H!HarnessAssumption, HarnessInv, NEW s \in H!Servers, H!StopServe(s)
    PROVE  HarnessInv'
<1> USE DEF H!HarnessAssumption, HarnessInv
<1>1. H!TypeOK'
  BY DEF H!StopServe, H!CloseServer, H!Outside, H!attempts, H!daemons, H!supervisors, H!TypeOK, H!Servers
<1>2. Own'
  BY DEF H!StopServe, H!CloseServer, H!Outside, H!attempts, H!daemons, H!supervisors, Own, Strangers,
         H!TypeOK, H!Servers
<1>3. Strangers'
  BY DEF H!StopServe, H!CloseServer, H!Outside, H!attempts, H!daemons, H!supervisors, Strangers, H!TypeOK
<1>4. Children'
  BY DEF H!StopServe, H!Awaited, H!CloseServer, H!Of, H!Outside, H!Runs, H!attempts, H!daemons,
         H!supervisors, Children, Own, Strangers, H!TypeOK
<1>5. Attempts'
  BY DEF H!StopServe, H!Awaited, H!CloseServer, H!Of, H!Outside, H!Runs, H!attempts, H!daemons,
         H!supervisors, Attempts, Own, Children, H!TypeOK
<1>6. LockRow'
  BY DEF H!StopServe, H!CloseServer, H!Outside, H!attempts, H!daemons, H!supervisors, LockRow, Own,
         Strangers, H!TypeOK
<1>7. Snapshots'
  BY DEF H!StopServe, H!CloseServer, H!Outside, H!Runs, H!attempts, H!daemons, H!supervisors, Snapshots,
         Strangers, Children, H!TypeOK
<1>8. H!DiscoveryLives'
  BY DEF H!StopServe, H!CloseServer, H!Outside, H!attempts, H!daemons, H!supervisors, H!DiscoveryLives,
         Own, H!TypeOK, H!Servers
<1> QED BY <1>1, <1>2, <1>3, <1>4, <1>5, <1>6, <1>7, <1>8

\* The crash of a server.
LEMMA CrashServeKeeps ==
    ASSUME H!HarnessAssumption, HarnessInv, NEW s \in H!Servers, H!CrashServe(s)
    PROVE  HarnessInv'
<1> USE DEF H!HarnessAssumption, HarnessInv
<1>1. H!TypeOK'
  BY DEF H!CrashServe, H!Outside, H!attempts, H!daemons, H!rows, H!supervisors, H!TypeOK, H!Servers
<1>2. Own'
  BY DEF H!CrashServe, H!Outside, H!attempts, H!daemons, H!rows, H!supervisors, Own, Strangers, H!TypeOK,
         H!Servers
<1>3. Strangers'
  BY DEF H!CrashServe, H!Outside, H!attempts, H!daemons, H!rows, H!supervisors, Strangers, H!TypeOK
<1>4. Children'
  BY DEF H!CrashServe, H!Awaited, H!Of, H!Outside, H!Runs, H!attempts, H!daemons, H!rows, H!supervisors,
         Children, Own, Strangers, H!TypeOK
<1>5. Attempts'
  BY DEF H!CrashServe, H!Awaited, H!Of, H!Outside, H!Runs, H!attempts, H!daemons, H!rows, H!supervisors,
         Attempts, Own, Children, H!TypeOK
<1>6. LockRow'
  BY DEF H!CrashServe, H!Outside, H!attempts, H!daemons, H!rows, H!supervisors, LockRow, Own, Strangers,
         H!TypeOK
<1>7. Snapshots'
  BY DEF H!CrashServe, H!Outside, H!Runs, H!attempts, H!daemons, H!rows, H!supervisors, Snapshots,
         Strangers, Children, H!TypeOK
<1>8. H!DiscoveryLives'
  BY DEF H!CrashServe, H!Outside, H!attempts, H!daemons, H!rows, H!supervisors, H!DiscoveryLives, Own,
         H!TypeOK, H!Servers
<1> QED BY <1>1, <1>2, <1>3, <1>4, <1>5, <1>6, <1>7, <1>8

\* The look for a live holder.
LEMMA CheckKeeps ==
    ASSUME H!HarnessAssumption, HarnessInv, NEW h \in Harnesses, H!Check(h)
    PROVE  HarnessInv'
<1> USE DEF H!HarnessAssumption, HarnessInv
<1>1. H!TypeOK'
  BY DEF H!Check, H!LiveHolder, H!LooksDead, H!Runs, H!attempts, H!bounds, H!daemons, H!rows, H!TypeOK,
         H!Servers
<1>2. Own'
  BY DEF H!Check, H!LiveHolder, H!LooksDead, H!Runs, H!attempts, H!bounds, H!daemons, H!rows, Own,
         Strangers, H!TypeOK, H!Servers
<1>3. Strangers'
  BY DEF H!Check, H!LiveHolder, H!LooksDead, H!Runs, H!attempts, H!bounds, H!daemons, H!rows, Strangers,
         H!TypeOK
<1>4. Children'
  BY DEF H!Check, H!Awaited, H!LiveHolder, H!LooksDead, H!Of, H!Runs, H!attempts, H!bounds, H!daemons,
         H!rows, Children, Own, Strangers, H!TypeOK
<1>5. Attempts'
  BY DEF H!Check, H!Awaited, H!LiveHolder, H!LooksDead, H!Of, H!Runs, H!attempts, H!bounds, H!daemons,
         H!rows, Attempts, Own, Children, H!TypeOK
<1>6. LockRow'
  BY DEF H!Check, H!LiveHolder, H!LooksDead, H!Runs, H!attempts, H!bounds, H!daemons, H!rows, LockRow,
         Own, Strangers, H!TypeOK
<1>7. Snapshots'
  BY DEF H!Check, H!LiveHolder, H!LooksDead, H!Runs, H!attempts, H!bounds, H!daemons, H!rows, Snapshots,
         Strangers, Children, H!TypeOK
<1>8. H!DiscoveryLives'
  BY DEF H!Check, H!LiveHolder, H!LooksDead, H!Runs, H!attempts, H!bounds, H!daemons, H!rows,
         H!DiscoveryLives, Own, H!TypeOK, H!Servers
<1> QED BY <1>1, <1>2, <1>3, <1>4, <1>5, <1>6, <1>7, <1>8

\* A restart timer.
LEMMA RestartDueKeeps ==
    ASSUME H!HarnessAssumption, HarnessInv, NEW h \in Harnesses, H!RestartDue(h)
    PROVE  HarnessInv'
<1> USE DEF H!HarnessAssumption, HarnessInv
<1>1. H!TypeOK'
  BY DEF H!RestartDue, H!Idle, H!attempts, H!bounds, H!daemons, H!rows, H!TypeOK, H!Servers
<1>2. Own'
  BY DEF H!RestartDue, H!Idle, H!attempts, H!bounds, H!daemons, H!rows, Own, Strangers, H!TypeOK, H!Servers
<1>3. Strangers'
  BY DEF H!RestartDue, H!Idle, H!attempts, H!bounds, H!daemons, H!rows, Strangers, H!TypeOK
<1>4. Children'
  BY DEF H!RestartDue, H!Awaited, H!Idle, H!Of, H!Runs, H!attempts, H!bounds, H!daemons, H!rows,
         Children, Own, Strangers, H!TypeOK
<1>5. Attempts'
  BY DEF H!RestartDue, H!Awaited, H!Idle, H!Of, H!Runs, H!attempts, H!bounds, H!daemons, H!rows,
         Attempts, Own, Children, H!TypeOK
<1>6. LockRow'
  BY DEF H!RestartDue, H!Idle, H!attempts, H!bounds, H!daemons, H!rows, LockRow, Own, Strangers, H!TypeOK
<1>7. Snapshots'
  BY DEF H!RestartDue, H!Idle, H!Runs, H!attempts, H!bounds, H!daemons, H!rows, Snapshots, Strangers,
         Children, H!TypeOK
<1>8. H!DiscoveryLives'
  BY DEF H!RestartDue, H!Idle, H!attempts, H!bounds, H!daemons, H!rows, H!DiscoveryLives, Own, H!TypeOK,
         H!Servers
<1> QED BY <1>1, <1>2, <1>3, <1>4, <1>5, <1>6, <1>7, <1>8

\* The look at the row before a spawn.
LEMMA BootReadsKeeps ==
    ASSUME H!HarnessAssumption, HarnessInv, NEW h \in Harnesses, H!BootReads(h)
    PROVE  HarnessInv'
<1> USE DEF H!HarnessAssumption, HarnessInv
<1>1. H!TypeOK'
  BY DEF H!BootReads, H!Evictable, H!LooksDead, H!Runs, H!attempts, H!bounds, H!daemons, H!rows,
         H!TypeOK, H!Servers
<1>2. Own'
  BY DEF H!BootReads, H!Evictable, H!LooksDead, H!Runs, H!attempts, H!bounds, H!daemons, H!rows, Own,
         Strangers, H!TypeOK, H!Servers
<1>3. Strangers'
  BY DEF H!BootReads, H!Evictable, H!LooksDead, H!Runs, H!attempts, H!bounds, H!daemons, H!rows,
         Strangers, H!TypeOK
<1>4. Children'
  BY DEF H!BootReads, H!Awaited, H!Evictable, H!LooksDead, H!Of, H!Runs, H!attempts, H!bounds, H!daemons,
         H!rows, Children, Own, Strangers, H!TypeOK
<1>5. Attempts'
  BY DEF H!BootReads, H!Awaited, H!Evictable, H!LooksDead, H!Of, H!Runs, H!attempts, H!bounds, H!daemons,
         H!rows, Attempts, Own, Children, H!TypeOK
<1>6. LockRow'
  BY DEF H!BootReads, H!Evictable, H!LooksDead, H!Runs, H!attempts, H!bounds, H!daemons, H!rows, LockRow,
         Own, Strangers, H!TypeOK
<1>7. Snapshots'
  BY DEF H!BootReads, H!Awaited, H!Evictable, H!LooksDead, H!Of, H!Runs, H!attempts, H!bounds, H!daemons,
         H!rows, Snapshots, Strangers, Children, H!TypeOK
<1>8. H!DiscoveryLives'
  BY DEF H!BootReads, H!Evictable, H!LooksDead, H!Runs, H!attempts, H!bounds, H!daemons, H!rows,
         H!DiscoveryLives, Own, H!TypeOK, H!Servers
<1> QED BY <1>1, <1>2, <1>3, <1>4, <1>5, <1>6, <1>7, <1>8

\* The eviction before a spawn.
LEMMA BootEvictsKeeps ==
    ASSUME H!HarnessAssumption, HarnessInv, NEW h \in Harnesses, H!BootEvicts(h)
    PROVE  HarnessInv'
<1> USE DEF H!HarnessAssumption, HarnessInv
<1>1. H!TypeOK'
  BY DEF H!BootEvicts, H!Deletes, H!NoLock, H!attempts, H!bounds, H!daemons, H!TypeOK, H!Servers
<1>2. Own'
  BY DEF H!BootEvicts, H!Deletes, H!NoLock, H!attempts, H!bounds, H!daemons, Own, Strangers, H!TypeOK,
         H!Servers
<1>3. Strangers'
  BY DEF H!BootEvicts, H!Deletes, H!NoLock, H!attempts, H!bounds, H!daemons, Strangers, H!TypeOK
<1>4. Children'
  BY DEF H!BootEvicts, H!Awaited, H!Deletes, H!NoLock, H!Of, H!Runs, H!attempts, H!bounds, H!daemons,
         Children, Own, Strangers, H!TypeOK
<1>5. Attempts'
  BY DEF H!BootEvicts, H!Awaited, H!Deletes, H!NoLock, H!Of, H!Runs, H!attempts, H!bounds, H!daemons,
         Attempts, Own, Children, H!TypeOK
<1>6. LockRow'
  BY DEF H!BootEvicts, H!Deletes, H!NoLock, H!attempts, H!bounds, H!daemons, LockRow, Own, Strangers,
         H!TypeOK
<1>7. Snapshots'
  BY DEF H!BootEvicts, H!Deletes, H!NoLock, H!Runs, H!attempts, H!bounds, H!daemons, Snapshots,
         Strangers, Children, H!TypeOK
<1>8. H!DiscoveryLives'
  BY DEF H!BootEvicts, H!Deletes, H!NoLock, H!attempts, H!bounds, H!daemons, H!DiscoveryLives, Own,
         H!TypeOK, H!Servers
<1> QED BY <1>1, <1>2, <1>3, <1>4, <1>5, <1>6, <1>7, <1>8

\* The look of the reaper.
LEMMA TickReadsKeeps ==
    ASSUME H!HarnessAssumption, HarnessInv, NEW h \in Harnesses, H!TickReads(h)
    PROVE  HarnessInv'
<1> USE DEF H!HarnessAssumption, HarnessInv
<1>1. H!TypeOK'
  BY DEF H!TickReads, H!Evictable, H!Idle, H!LooksDead, H!LooksExited, H!Runs, H!attempts, H!bounds,
         H!daemons, H!rows, H!supervisors, H!TypeOK, H!Servers
<1>2. Own'
  BY DEF H!TickReads, H!Evictable, H!Idle, H!LooksDead, H!LooksExited, H!Runs, H!attempts, H!bounds,
         H!daemons, H!rows, H!supervisors, Own, Strangers, H!TypeOK, H!Servers
<1>3. Strangers'
  BY DEF H!TickReads, H!Evictable, H!Idle, H!LooksDead, H!LooksExited, H!Runs, H!attempts, H!bounds,
         H!daemons, H!rows, H!supervisors, Strangers, H!TypeOK
<1>4. Children'
  BY DEF H!TickReads, H!Awaited, H!Evictable, H!Idle, H!LooksDead, H!LooksExited, H!Of, H!Runs,
         H!attempts, H!bounds, H!daemons, H!rows, H!supervisors, Children, Own, Strangers, H!TypeOK
<1>5. Attempts'
  BY DEF H!TickReads, H!Awaited, H!Evictable, H!Idle, H!LooksDead, H!LooksExited, H!Of, H!Runs,
         H!attempts, H!bounds, H!daemons, H!rows, H!supervisors, Attempts, Own, Children, H!TypeOK
<1>6. LockRow'
  BY DEF H!TickReads, H!Evictable, H!Idle, H!LooksDead, H!LooksExited, H!Runs, H!attempts, H!bounds,
         H!daemons, H!rows, H!supervisors, LockRow, Own, Strangers, H!TypeOK
<1>7. Snapshots'
  BY DEF H!TickReads, H!Awaited, H!Evictable, H!Idle, H!LooksDead, H!LooksExited, H!Of, H!Runs,
         H!attempts, H!bounds, H!daemons, H!rows, H!supervisors, Snapshots, Strangers, Children,
         H!TypeOK
<1>8. H!DiscoveryLives'
  BY DEF H!TickReads, H!Evictable, H!Idle, H!LooksDead, H!LooksExited, H!Runs, H!attempts, H!bounds,
         H!daemons, H!rows, H!supervisors, H!DiscoveryLives, Own, H!TypeOK, H!Servers
<1> QED BY <1>1, <1>2, <1>3, <1>4, <1>5, <1>6, <1>7, <1>8

\* The eviction of the reaper.
LEMMA TickEvictsKeeps ==
    ASSUME H!HarnessAssumption, HarnessInv, NEW h \in Harnesses, H!TickEvicts(h)
    PROVE  HarnessInv'
<1> USE DEF H!HarnessAssumption, HarnessInv
<1>1. H!TypeOK'
  BY DEF H!TickEvicts, H!Deletes, H!NoLock, H!attempts, H!bounds, H!daemons, H!supervisors, H!TypeOK,
         H!Servers
<1>2. Own'
  BY DEF H!TickEvicts, H!Deletes, H!NoLock, H!attempts, H!bounds, H!daemons, H!supervisors, Own,
         Strangers, H!TypeOK, H!Servers
<1>3. Strangers'
  BY DEF H!TickEvicts, H!Deletes, H!NoLock, H!attempts, H!bounds, H!daemons, H!supervisors, Strangers,
         H!TypeOK
<1>4. Children'
  BY DEF H!TickEvicts, H!Awaited, H!Deletes, H!NoLock, H!Of, H!Runs, H!attempts, H!bounds, H!daemons,
         H!supervisors, Children, Own, Strangers, H!TypeOK
<1>5. Attempts'
  BY DEF H!TickEvicts, H!Awaited, H!Deletes, H!NoLock, H!Of, H!Runs, H!attempts, H!bounds, H!daemons,
         H!supervisors, Attempts, Own, Children, H!TypeOK
<1>6. LockRow'
  BY DEF H!TickEvicts, H!Deletes, H!NoLock, H!attempts, H!bounds, H!daemons, H!supervisors, LockRow, Own,
         Strangers, H!TypeOK
<1>7. Snapshots'
  BY DEF H!TickEvicts, H!Deletes, H!NoLock, H!Runs, H!attempts, H!bounds, H!daemons, H!supervisors,
         Snapshots, Strangers, Children, H!TypeOK
<1>8. H!DiscoveryLives'
  BY DEF H!TickEvicts, H!Deletes, H!NoLock, H!attempts, H!bounds, H!daemons, H!supervisors,
         H!DiscoveryLives, Own, H!TypeOK, H!Servers
<1> QED BY <1>1, <1>2, <1>3, <1>4, <1>5, <1>6, <1>7, <1>8

\* The end of the child of a harness that stops.
LEMMA ChildEndsKeeps ==
    ASSUME H!HarnessAssumption, HarnessInv, NEW h \in Harnesses, H!ChildEnds(h)
    PROVE  HarnessInv'
<1> USE DEF H!HarnessAssumption, HarnessInv
<1>1. H!TypeOK'
  BY DEF H!ChildEnds, H!Runs, H!attempts, H!bounds, H!rows, H!TypeOK, H!Servers
<1>2. Own'
  BY DEF H!ChildEnds, H!Runs, H!attempts, H!bounds, H!rows, Own, Strangers, H!TypeOK, H!Servers
<1>3. Strangers'
  BY DEF H!ChildEnds, H!Runs, H!attempts, H!bounds, H!rows, Strangers, H!TypeOK
<1>4. Children'
  BY DEF H!ChildEnds, H!Awaited, H!Of, H!Runs, H!attempts, H!bounds, H!rows, Children, Own, Strangers,
         H!TypeOK
<1>5. Attempts'
  BY DEF H!ChildEnds, H!Awaited, H!Of, H!Runs, H!attempts, H!bounds, H!rows, Attempts, Own, Children,
         H!TypeOK
<1>6. LockRow'
  BY DEF H!ChildEnds, H!Runs, H!attempts, H!bounds, H!rows, LockRow, Own, Strangers, H!TypeOK
<1>7. Snapshots'
  BY DEF H!ChildEnds, H!Runs, H!attempts, H!bounds, H!rows, Snapshots, Strangers, Children, H!TypeOK
<1>8. H!DiscoveryLives'
  BY DEF H!ChildEnds, H!Runs, H!attempts, H!bounds, H!rows, H!DiscoveryLives, Own, H!TypeOK, H!Servers
<1> QED BY <1>1, <1>2, <1>3, <1>4, <1>5, <1>6, <1>7, <1>8

\* The close of its server.
LEMMA HarnessClosesKeeps ==
    ASSUME H!HarnessAssumption, HarnessInv, NEW h \in Harnesses, H!HarnessCloses(h)
    PROVE  HarnessInv'
<1> USE DEF H!HarnessAssumption, HarnessInv
<1>1. H!TypeOK'
  BY DEF H!HarnessCloses, H!CloseServer, H!Outside, H!attempts, H!daemons, H!TypeOK, H!Servers
<1>2. Own'
  BY DEF H!HarnessCloses, H!CloseServer, H!Outside, H!attempts, H!daemons, Own, Strangers, H!TypeOK,
         H!Servers
<1>3. Strangers'
  BY DEF H!HarnessCloses, H!CloseServer, H!Outside, H!attempts, H!daemons, Strangers, H!TypeOK
<1>4. Children'
  BY DEF H!HarnessCloses, H!Awaited, H!CloseServer, H!Of, H!Outside, H!Runs, H!attempts, H!daemons,
         Children, Own, Strangers, H!TypeOK
<1>5. Attempts'
  BY DEF H!HarnessCloses, H!Awaited, H!CloseServer, H!Of, H!Outside, H!Runs, H!attempts, H!daemons,
         Attempts, Own, Children, H!TypeOK
<1>6. LockRow'
  BY DEF H!HarnessCloses, H!CloseServer, H!Outside, H!attempts, H!daemons, LockRow, Own, Strangers, H!TypeOK
<1>7. Snapshots'
  BY DEF H!HarnessCloses, H!CloseServer, H!Outside, H!Runs, H!attempts, H!daemons, Snapshots, Strangers,
         Children, H!TypeOK
<1>8. H!DiscoveryLives'
  BY DEF H!HarnessCloses, H!CloseServer, H!Outside, H!attempts, H!daemons, H!DiscoveryLives, Own,
         H!TypeOK, H!Servers
<1> QED BY <1>1, <1>2, <1>3, <1>4, <1>5, <1>6, <1>7, <1>8

\* The beat of the reaper for its child.
LEMMA TickBeatsKeeps ==
    ASSUME H!HarnessAssumption, HarnessInv, NEW h \in Harnesses, H!TickBeats(h)
    PROVE  HarnessInv'
<1> USE DEF H!HarnessAssumption, HarnessInv
<1>1. H!TypeOK'
  BY DEF H!TickBeats, H!Idle, H!LooksLive, H!Runs, H!WriteLock, H!attempts, H!bounds, H!daemons,
         H!supervisors, H!TypeOK, H!Servers
<1>2. Own'
  BY DEF H!TickBeats, H!Idle, H!LooksLive, H!Runs, H!WriteLock, H!attempts, H!bounds, H!daemons,
         H!supervisors, Own, Strangers, H!TypeOK, H!Servers
<1>3. Strangers'
  BY DEF H!TickBeats, H!Idle, H!LooksLive, H!Runs, H!WriteLock, H!attempts, H!bounds, H!daemons,
         H!supervisors, Strangers, H!TypeOK
<1>4. Children'
  BY DEF H!TickBeats, H!Awaited, H!Idle, H!LooksLive, H!Of, H!Runs, H!WriteLock, H!attempts, H!bounds,
         H!daemons, H!supervisors, Children, Own, Strangers, H!TypeOK
<1>5. Attempts'
  BY DEF H!TickBeats, H!Awaited, H!Idle, H!LooksLive, H!Of, H!Runs, H!WriteLock, H!attempts, H!bounds,
         H!daemons, H!supervisors, Attempts, Own, Children, H!TypeOK
<1>6. LockRow'
  BY DEF H!TickBeats, H!Idle, H!LooksLive, H!Runs, H!WriteLock, H!attempts, H!bounds, H!daemons,
         H!supervisors, LockRow, Own, Strangers, H!TypeOK
<1>7. Snapshots'
  BY DEF H!TickBeats, H!Idle, H!LooksLive, H!Runs, H!WriteLock, H!attempts, H!bounds, H!daemons,
         H!supervisors, Snapshots, Strangers, Children, H!TypeOK
<1>8. H!DiscoveryLives'
  BY DEF H!TickBeats, H!Idle, H!LooksLive, H!Runs, H!WriteLock, H!attempts, H!bounds, H!daemons,
         H!supervisors, H!DiscoveryLives, Own, H!TypeOK, H!Servers
<1> QED BY <1>1, <1>2, <1>3, <1>4, <1>5, <1>6, <1>7, <1>8

\* The TTL that passes after a failure.
LEMMA WindowPassesKeeps ==
    ASSUME H!HarnessAssumption, HarnessInv, NEW h \in Harnesses, H!WindowPasses(h)
    PROVE  HarnessInv'
<1> USE DEF H!HarnessAssumption, HarnessInv
<1>1. H!TypeOK'
  BY DEF H!WindowPasses, H!attempts, H!bounds, H!daemons, H!rows, H!TypeOK, H!Servers
<1>2. Own'
  BY DEF H!WindowPasses, H!attempts, H!bounds, H!daemons, H!rows, Own, Strangers, H!TypeOK, H!Servers
<1>3. Strangers'
  BY DEF H!WindowPasses, H!attempts, H!bounds, H!daemons, H!rows, Strangers, H!TypeOK
<1>4. Children'
  BY DEF H!WindowPasses, H!Awaited, H!Of, H!Runs, H!attempts, H!bounds, H!daemons, H!rows, Children, Own,
         Strangers, H!TypeOK
<1>5. Attempts'
  BY DEF H!WindowPasses, H!Awaited, H!Of, H!Runs, H!attempts, H!bounds, H!daemons, H!rows, Attempts, Own,
         Children, H!TypeOK
<1>6. LockRow'
  BY DEF H!WindowPasses, H!attempts, H!bounds, H!daemons, H!rows, LockRow, Own, Strangers, H!TypeOK
<1>7. Snapshots'
  BY DEF H!WindowPasses, H!Runs, H!attempts, H!bounds, H!daemons, H!rows, Snapshots, Strangers, Children,
         H!TypeOK
<1>8. H!DiscoveryLives'
  BY DEF H!WindowPasses, H!attempts, H!bounds, H!daemons, H!rows, H!DiscoveryLives, Own, H!TypeOK, H!Servers
<1> QED BY <1>1, <1>2, <1>3, <1>4, <1>5, <1>6, <1>7, <1>8

\* A boot that fails.
LEMMA BootFailsKeeps ==
    ASSUME H!HarnessAssumption, HarnessInv, NEW h \in Harnesses, H!BootFails(h)
    PROVE  HarnessInv'
<1> USE DEF H!HarnessAssumption, HarnessInv
<1>1. H!TypeOK'
  BY DEF H!BootFails, H!Finish, H!Idle, H!Of, H!Outside, H!Runs, H!rows, H!TypeOK, H!Servers
<1>2. Own'
  BY DEF H!BootFails, H!Finish, H!Idle, H!Of, H!Outside, H!Runs, H!rows, Own, Strangers, H!TypeOK, H!Servers
<1>3. Strangers'
  BY DEF H!BootFails, H!Finish, H!Idle, H!Of, H!Outside, H!Runs, H!rows, Strangers, H!TypeOK
<1>4. Children'
  BY DEF H!BootFails, H!Awaited, H!Finish, H!Idle, H!Of, H!Outside, H!Runs, H!rows, Children, Own,
         Strangers, H!TypeOK
<1>5. Attempts'
  BY DEF H!BootFails, H!Awaited, H!Finish, H!Idle, H!Of, H!Outside, H!Runs, H!rows, Attempts, Own,
         Children, H!TypeOK
<1>6. LockRow'
  BY DEF H!BootFails, H!Finish, H!Idle, H!Of, H!Outside, H!Runs, H!rows, LockRow, Own, Strangers, H!TypeOK
<1>7. Snapshots'
  BY DEF H!BootFails, H!Finish, H!Idle, H!Of, H!Outside, H!Runs, H!rows, Snapshots, Strangers, Children,
         H!TypeOK
<1>8. H!DiscoveryLives'
  BY DEF H!BootFails, H!Finish, H!Idle, H!Of, H!Outside, H!Runs, H!rows, H!DiscoveryLives, Own, H!TypeOK,
         H!Servers
<1> QED BY <1>1, <1>2, <1>3, <1>4, <1>5, <1>6, <1>7, <1>8

\* A signal to a harness.
LEMMA SignalKeeps ==
    ASSUME H!HarnessAssumption, HarnessInv, NEW h \in Harnesses, H!Signal(h)
    PROVE  HarnessInv'
<1> USE DEF H!HarnessAssumption, HarnessInv
<1>1. H!TypeOK'
  BY DEF H!Signal, H!Finish, H!Idle, H!Outside, H!Runs, H!rows, H!TypeOK, H!Servers
<1>2. Own'
  BY DEF H!Signal, H!Finish, H!Idle, H!Outside, H!Runs, H!rows, Own, Strangers, H!TypeOK, H!Servers
<1>3. Strangers'
  BY DEF H!Signal, H!Finish, H!Idle, H!Outside, H!Runs, H!rows, Strangers, H!TypeOK
<1>4. Children'
  BY DEF H!Signal, H!Awaited, H!Finish, H!Idle, H!Of, H!Outside, H!Runs, H!rows, Children, Own,
         Strangers, H!TypeOK
<1>5. Attempts'
  BY DEF H!Signal, H!Awaited, H!Finish, H!Idle, H!Of, H!Outside, H!Runs, H!rows, Attempts, Own, Children,
         H!TypeOK
<1>6. LockRow'
  BY DEF H!Signal, H!Finish, H!Idle, H!Outside, H!Runs, H!rows, LockRow, Own, Strangers, H!TypeOK
<1>7. Snapshots'
  BY DEF H!Signal, H!Finish, H!Idle, H!Outside, H!Runs, H!rows, Snapshots, Strangers, Children, H!TypeOK
<1>8. H!DiscoveryLives'
  BY DEF H!Signal, H!Finish, H!Idle, H!Outside, H!Runs, H!rows, H!DiscoveryLives, Own, H!TypeOK, H!Servers
<1> QED BY <1>1, <1>2, <1>3, <1>4, <1>5, <1>6, <1>7, <1>8

\* The crash of a harness.
LEMMA HarnessCrashKeeps ==
    ASSUME H!HarnessAssumption, HarnessInv, NEW h \in Harnesses, H!HarnessCrash(h)
    PROVE  HarnessInv'
<1> USE DEF H!HarnessAssumption, HarnessInv
<1>1. H!TypeOK'
  BY DEF H!HarnessCrash, H!Outside, H!attempts, H!daemons, H!rows, H!TypeOK, H!Servers
<1>2. Own'
  BY DEF H!HarnessCrash, H!Outside, H!attempts, H!daemons, H!rows, Own, Strangers, H!TypeOK, H!Servers
<1>3. Strangers'
  BY DEF H!HarnessCrash, H!Outside, H!attempts, H!daemons, H!rows, Strangers, H!TypeOK
<1>4. Children'
  BY DEF H!HarnessCrash, H!Awaited, H!Of, H!Outside, H!Runs, H!attempts, H!daemons, H!rows, Children,
         Own, Strangers, H!TypeOK
<1>5. Attempts'
  BY DEF H!HarnessCrash, H!Awaited, H!Of, H!Outside, H!Runs, H!attempts, H!daemons, H!rows, Attempts,
         Own, Children, H!TypeOK
<1>6. LockRow'
  BY DEF H!HarnessCrash, H!Outside, H!attempts, H!daemons, H!rows, LockRow, Own, Strangers, H!TypeOK
<1>7. Snapshots'
  BY DEF H!HarnessCrash, H!Outside, H!Runs, H!attempts, H!daemons, H!rows, Snapshots, Strangers,
         Children, H!TypeOK
<1>8. H!DiscoveryLives'
  BY DEF H!HarnessCrash, H!Outside, H!attempts, H!daemons, H!rows, H!DiscoveryLives, Own, H!TypeOK,
         H!Servers
<1> QED BY <1>1, <1>2, <1>3, <1>4, <1>5, <1>6, <1>7, <1>8

\* A new child.
LEMMA SpawnKeeps ==
    ASSUME H!HarnessAssumption, HarnessInv, NEW h \in Harnesses, NEW d \in Daemons, H!Spawn(h, d)
    PROVE  HarnessInv'
<1> USE DEF H!HarnessAssumption, HarnessInv
<1>1. H!TypeOK'
  BY DEF H!Spawn, H!Awaited, H!Of, H!Unused, H!bounds, H!rows, H!TypeOK, H!Servers
<1>2. Own'
  BY DEF H!Spawn, H!Awaited, H!Of, H!Unused, H!bounds, H!rows, Own, Strangers, H!TypeOK, H!Servers
<1>3. Strangers'
  BY DEF H!Spawn, H!Awaited, H!Of, H!Servers, H!Unused, H!bounds, H!rows, Strangers, H!TypeOK
<1>4. Children'
  <2> SUFFICES ASSUME NEW e \in Daemons, NEW g \in Harnesses, parent'[e] = g
               PROVE  /\ attempt'[e] # "none"
                      /\ stage'[g] \notin {"new", "checked"}
                      /\ H!Runs(e)' \/ attempt'[e] = "pending" => watched'[e]
                      /\ H!Runs(e)' /\ attempt'[e] \in {"reaping", "failed"} => told'[e]
                      /\ H!Runs(e)' /\ ~told'[e] => stage'[g] \in {"idle", "crashed"}
                      /\ e \in H!Awaited(g)' => stage'[g] \notin {"booting", "spawning"}
                      /\ e \in H!Awaited(g)' /\ stage'[g] = "idle" => child'[g] = e /\ timers'[g] = 0
    BY DEF Children
  <2>1. CASE e = d
    <3>1. g = h
      BY <2>1 DEF H!Spawn, H!TypeOK
    <3>2. /\ stage'[h] = "idle" /\ child'[h] = d /\ timers'[h] = timers[h]
          /\ attempt'[d] = "pending" /\ watched'[d]
      BY DEF H!Spawn, H!TypeOK
    <3>3. timers[h] = 0
      BY DEF H!Spawn, Attempts
    <3> QED BY <2>1, <3>1, <3>2, <3>3
  <2>2. CASE e # d
    <3>1. /\ parent[e] = g /\ attempt'[e] = attempt[e] /\ watched'[e] = watched[e]
          /\ told'[e] = told[e] /\ proc'[e] = proc[e]
      BY <2>2 DEF H!Spawn, H!TypeOK
    <3>2. /\ H!Runs(e)' <=> H!Runs(e)
          /\ e \in H!Awaited(g)' <=> e \in H!Awaited(g)
      BY <3>1 DEF H!Runs, H!Awaited, H!Of
    <3>3. CASE g = h
      <4>1. e \notin H!Awaited(h) /\ (H!Runs(e) => told[e])
        BY <3>1, <3>3 DEF H!Spawn, Children
      <4>2. stage'[h] = "idle"
        BY DEF H!Spawn, H!TypeOK
      <4> QED BY <3>1, <3>2, <3>3, <4>1, <4>2 DEF Children
    <3>4. CASE g # h
      <4>1. stage'[g] = stage[g] /\ child'[g] = child[g] /\ timers'[g] = timers[g]
        BY <3>4 DEF H!Spawn, H!TypeOK
      <4> QED BY <3>1, <3>2, <4>1 DEF Children
    <3> QED BY <3>3, <3>4
  <2> QED BY <2>1, <2>2
<1>5. Attempts'
  <2> SUFFICES ASSUME NEW g \in Harnesses
               PROVE  /\ stage'[g] = "idle" => timers'[g] = 1 \/ (timers'[g] = 0 /\ child'[g] \in H!Awaited(g)')
                      /\ stage'[g] # "idle" => timers'[g] = 0
    BY DEF Attempts
  <2>1. CASE g = h
    <3>1. timers'[h] = 0
      BY DEF H!Spawn, Attempts
    <3>2. child'[h] = d /\ parent'[d] = h /\ attempt'[d] = "pending" /\ watched'[d]
      BY DEF H!Spawn, H!TypeOK
    <3> QED BY <2>1, <3>1, <3>2 DEF H!Awaited, H!Of
  <2>2. CASE g # h
    <3>1. stage'[g] = stage[g] /\ child'[g] = child[g] /\ timers'[g] = timers[g]
      BY <2>2 DEF H!Spawn, H!TypeOK
    <3>2. ASSUME stage[g] = "idle", child[g] \in H!Awaited(g)
          PROVE  child[g] \in H!Awaited(g)'
      <4>1. child[g] # d
        BY <2>2, <3>2 DEF H!Spawn, H!Unused, H!Awaited, H!Of, Strangers
      <4> QED BY <3>2, <4>1 DEF H!Spawn, H!Awaited, H!Of, H!TypeOK
    <3> QED BY <3>1, <3>2 DEF Attempts
  <2> QED BY <2>1, <2>2
<1>6. LockRow'
  BY DEF H!Spawn, H!Awaited, H!Of, H!Servers, H!Unused, H!bounds, H!rows, LockRow, Own, Strangers, H!TypeOK
<1>7. Snapshots'
  BY DEF H!Spawn, H!Awaited, H!Of, H!Runs, H!Servers, H!Unused, H!bounds, H!rows, Snapshots, Strangers,
         Children, H!TypeOK
<1>8. H!DiscoveryLives'
  BY DEF H!Spawn, H!Awaited, H!Of, H!Unused, H!bounds, H!rows, H!DiscoveryLives, Own, H!TypeOK, H!Servers
<1> QED BY <1>1, <1>2, <1>3, <1>4, <1>5, <1>6, <1>7, <1>8

\* A gate that sees the child hold the lock.
LEMMA GateOpensKeeps ==
    ASSUME H!HarnessAssumption, HarnessInv, NEW h \in Harnesses, NEW d \in Daemons, H!GateOpens(h, d)
    PROVE  HarnessInv'
<1> USE DEF H!HarnessAssumption, HarnessInv
<1>1. H!TypeOK'
  <2>1. [pid |-> d, harness |-> h] \in [pid : Daemons \cup {None}, harness : Harnesses \cup {None}]
    OBVIOUS
  <2>2. held' \in [pid : Daemons \cup {None}, harness : Harnesses \cup {None}]
    BY <2>1 DEF H!GateOpens, H!WriteLock, H!TypeOK
  <2> QED BY <2>2 DEF H!GateOpens, H!Idle, H!WriteLock, H!bounds, H!daemons, H!supervisors, H!TypeOK,
         H!Servers
<1>2. Own'
  BY DEF H!GateOpens, H!Idle, H!WriteLock, H!bounds, H!daemons, H!supervisors, Own, Strangers, H!TypeOK,
         H!Servers
<1>3. Strangers'
  BY DEF H!GateOpens, H!Idle, H!WriteLock, H!bounds, H!daemons, H!supervisors, Strangers, H!TypeOK
<1>4. Children'
  BY DEF H!GateOpens, H!Awaited, H!Idle, H!Of, H!Runs, H!WriteLock, H!bounds, H!daemons, H!supervisors,
         Children, Own, Strangers, H!TypeOK
<1>5. Attempts'
  BY DEF H!GateOpens, H!Awaited, H!Idle, H!Of, H!Runs, H!WriteLock, H!bounds, H!daemons, H!supervisors,
         Attempts, Own, Children, H!TypeOK
<1>6. LockRow'
  BY DEF H!GateOpens, H!Idle, H!WriteLock, H!bounds, H!daemons, H!supervisors, LockRow, Own, Strangers,
         H!TypeOK
<1>7. Snapshots'
  BY DEF H!GateOpens, H!Idle, H!Runs, H!WriteLock, H!bounds, H!daemons, H!supervisors, Snapshots,
         Strangers, Children, H!TypeOK
<1>8. H!DiscoveryLives'
  BY DEF H!GateOpens, H!Idle, H!WriteLock, H!bounds, H!daemons, H!supervisors, H!DiscoveryLives, Own,
         H!TypeOK, H!Servers
<1> QED BY <1>1, <1>2, <1>3, <1>4, <1>5, <1>6, <1>7, <1>8

\* A gate that times out.
LEMMA GateShutsKeeps ==
    ASSUME H!HarnessAssumption, HarnessInv, NEW h \in Harnesses, NEW d \in Daemons, H!GateShuts(h, d)
    PROVE  HarnessInv'
<1> USE DEF H!HarnessAssumption, HarnessInv
<1>1. H!TypeOK'
  BY DEF H!GateShuts, H!Idle, H!bounds, H!rows, H!supervisors, H!TypeOK, H!Servers
<1>2. Own'
  BY DEF H!GateShuts, H!Idle, H!bounds, H!rows, H!supervisors, Own, Strangers, H!TypeOK, H!Servers
<1>3. Strangers'
  BY DEF H!GateShuts, H!Idle, H!bounds, H!rows, H!supervisors, Strangers, H!TypeOK
<1>4. Children'
  BY DEF H!GateShuts, H!Awaited, H!Idle, H!Of, H!Runs, H!bounds, H!rows, H!supervisors, Children, Own,
         Strangers, H!TypeOK
<1>5. Attempts'
  BY DEF H!GateShuts, H!Awaited, H!Idle, H!Of, H!Runs, H!bounds, H!rows, H!supervisors, Attempts, Own,
         Children, H!TypeOK
<1>6. LockRow'
  BY DEF H!GateShuts, H!Idle, H!bounds, H!rows, H!supervisors, LockRow, Own, Strangers, H!TypeOK
<1>7. Snapshots'
  BY DEF H!GateShuts, H!Idle, H!Runs, H!bounds, H!rows, H!supervisors, Snapshots, Strangers, Children,
         H!TypeOK
<1>8. H!DiscoveryLives'
  BY DEF H!GateShuts, H!Idle, H!bounds, H!rows, H!supervisors, H!DiscoveryLives, Own, H!TypeOK, H!Servers
<1> QED BY <1>1, <1>2, <1>3, <1>4, <1>5, <1>6, <1>7, <1>8

\* The end of a failed attempt.
LEMMA GateReapsKeeps ==
    ASSUME H!HarnessAssumption, HarnessInv, NEW h \in Harnesses, NEW d \in Daemons, H!GateReaps(h, d)
    PROVE  HarnessInv'
<1> USE DEF H!HarnessAssumption, HarnessInv
<1>1. H!TypeOK'
  <2>1. /\ fails' \in [Harnesses -> 0 .. MaxFastFailures]
        /\ window' \in [Harnesses -> {"closed", "open", "elapsed"}]
    BY DEF H!GateReaps, H!RegisterFailure, H!TypeOK
  <2>2. stage' \in [Harnesses -> {"new", "checked", "booting", "spawning", "idle", "stopping", "closing",
                              "gone", "crashed"}]
    BY DEF H!GateReaps, H!RegisterFailure, H!Finish, H!TypeOK
  <2>3. timers' \in [Harnesses -> Nat]
    BY DEF H!GateReaps, H!RegisterFailure, H!Finish, H!TypeOK
  <2>4. told' \in [Daemons -> BOOLEAN]
    <3>1. told' = told \/ told' = [e \in Daemons |-> told[e] \/ (e = child[h] /\ H!Runs(e))]
      BY DEF H!GateReaps, H!RegisterFailure, H!Finish
    <3>2. told \in [Daemons -> BOOLEAN]
      BY DEF H!TypeOK
    <3>3. \A e \in Daemons : (told[e] \/ (e = child[h] /\ H!Runs(e))) \in BOOLEAN
      BY Zenon
    <3> QED BY Zenon, <3>1, <3>2, <3>3
  <2> QED BY <2>1, <2>2, <2>3, <2>4 DEF H!GateReaps, H!bounds, H!rows, H!TypeOK, H!Servers
<1>2. Own'
  BY DEF H!GateReaps, H!Finish, H!Idle, H!RegisterFailure, H!Runs, H!bounds, H!rows, Own, Strangers,
         H!TypeOK, H!Servers
<1>3. Strangers'
  BY DEF H!GateReaps, H!Finish, H!Idle, H!RegisterFailure, H!Runs, H!bounds, H!rows, Strangers, H!TypeOK
<1>4. Children'
  BY DEF H!GateReaps, H!Awaited, H!Finish, H!Idle, H!Of, H!RegisterFailure, H!Runs, H!bounds, H!rows,
         Children, Own, Strangers, H!TypeOK
<1>5. Attempts'
  BY DEF H!GateReaps, H!Awaited, H!Finish, H!Idle, H!Of, H!RegisterFailure, H!Runs, H!bounds, H!rows,
         Attempts, Own, Children, H!TypeOK
<1>6. LockRow'
  BY DEF H!GateReaps, H!Finish, H!Idle, H!RegisterFailure, H!Runs, H!bounds, H!rows, LockRow, Own,
         Strangers, H!TypeOK
<1>7. Snapshots'
  BY DEF H!GateReaps, H!Finish, H!Idle, H!RegisterFailure, H!Runs, H!bounds, H!rows, Snapshots,
         Strangers, Children, H!TypeOK
<1>8. H!DiscoveryLives'
  BY DEF H!GateReaps, H!Finish, H!Idle, H!RegisterFailure, H!Runs, H!bounds, H!rows, H!DiscoveryLives,
         Own, H!TypeOK, H!Servers
<1> QED BY <1>1, <1>2, <1>3, <1>4, <1>5, <1>6, <1>7, <1>8

\* The exit of a child.
LEMMA ExitSeenKeeps ==
    ASSUME H!HarnessAssumption, HarnessInv, NEW h \in Harnesses, NEW d \in Daemons, H!ExitSeen(h, d)
    PROVE  HarnessInv'
<1> USE DEF H!HarnessAssumption, HarnessInv
<1>1. H!TypeOK'
  BY DEF H!ExitSeen, H!Accounted, H!Finish, H!Idle, H!RegisterFailure, H!Runs, H!bounds, H!rows,
         H!TypeOK, H!Servers
<1>2. Own'
  BY DEF H!ExitSeen, H!Accounted, H!Finish, H!Idle, H!RegisterFailure, H!Runs, H!bounds, H!rows, Own,
         Strangers, H!TypeOK, H!Servers
<1>3. Strangers'
  BY DEF H!ExitSeen, H!Accounted, H!Finish, H!Idle, H!RegisterFailure, H!Runs, H!bounds, H!rows,
         Strangers, H!TypeOK
<1>4. Children'
  BY DEF H!ExitSeen, H!Accounted, H!Awaited, H!Finish, H!Idle, H!Of, H!RegisterFailure, H!Runs, H!bounds,
         H!rows, Children, Own, Strangers, H!TypeOK
<1>5. Attempts'
  BY DEF H!ExitSeen, H!Accounted, H!Awaited, H!Finish, H!Idle, H!Of, H!RegisterFailure, H!Runs, H!bounds,
         H!rows, Attempts, Own, Children, H!TypeOK
<1>6. LockRow'
  BY DEF H!ExitSeen, H!Accounted, H!Finish, H!Idle, H!RegisterFailure, H!Runs, H!bounds, H!rows, LockRow,
         Own, Strangers, H!TypeOK
<1>7. Snapshots'
  BY DEF H!ExitSeen, H!Accounted, H!Finish, H!Idle, H!RegisterFailure, H!Runs, H!bounds, H!rows,
         Snapshots, Strangers, Children, H!TypeOK
<1>8. H!DiscoveryLives'
  BY DEF H!ExitSeen, H!Accounted, H!Finish, H!Idle, H!RegisterFailure, H!Runs, H!bounds, H!rows,
         H!DiscoveryLives, Own, H!TypeOK, H!Servers
<1> QED BY <1>1, <1>2, <1>3, <1>4, <1>5, <1>6, <1>7, <1>8

\* The initial state satisfies the inductive invariant.
LEMMA HarnessInit == H!HarnessAssumption /\ H!Init => HarnessInv
<1> SUFFICES ASSUME H!HarnessAssumption, H!Init PROVE HarnessInv
  OBVIOUS
<1>1. H!TypeOK
  <2>1. /\ held \in [pid : Daemons \cup {None}, harness : Harnesses \cup {None}]
        /\ expired \in BOOLEAN /\ endpoint \in H!Servers \cup {None}
    BY DEF H!Init, H!NoLock
  <2>2. /\ fails \in [Harnesses -> 0 .. MaxFastFailures] /\ timers \in [Harnesses -> Nat]
        /\ outside \in 0 .. MaxOutside /\ late \in 0 .. MaxLate
    BY DEF H!HarnessAssumption, H!Init
  <2> QED BY <2>1, <2>2 DEF H!Init, H!TypeOK
<1>2. Own /\ Strangers /\ Children /\ Attempts
  BY DEF H!HarnessAssumption, H!Init, H!NoLock, H!Servers, Own, Strangers, Children, Attempts, H!Awaited,
         H!Of, H!Runs
<1>3. LockRow /\ Snapshots /\ H!DiscoveryLives
  BY DEF H!Init, H!NoLock, LockRow, Snapshots, H!DiscoveryLives
<1> QED BY <1>1, <1>2, <1>3 DEF HarnessInv

\* Every step of a process, of the operator or of time keeps it.
LEMMA HarnessKeeps == H!HarnessAssumption /\ HarnessInv /\ [H!Next]_H!vars => HarnessInv'
<1> SUFFICES ASSUME H!HarnessAssumption, HarnessInv, [H!Next]_H!vars PROVE HarnessInv'
  OBVIOUS
<1>1. ASSUME NEW d \in Daemons, H!DaemonStep(d) \/ H!StartByHand(d) \/ H!GivesUp(d) \/ H!Crash(d)
      PROVE  HarnessInv'
  BY <1>1, AcquireKeeps, FindHeldKeeps, ForceAcquireKeeps, BeatKeeps, TripsKeeps, DiesYoungKeeps,
     ExitKeeps, StartByHandKeeps, GivesUpKeeps, CrashKeeps DEF H!DaemonStep
<1>2. ASSUME NEW s \in H!Servers, H!ServerStep(s) \/ H!BindFails(s) \/ H!StopServe(s) \/ H!CrashServe(s)
      PROVE  HarnessInv'
  BY <1>2, BindKeeps, PublishKeeps, BindFailsKeeps, StopServeKeeps, CrashServeKeeps DEF H!ServerStep
<1>3. ASSUME NEW h \in Harnesses, H!SupervisorStep(h)
      PROVE  HarnessInv'
  <2>1. ASSUME NEW d \in Daemons,
               H!Spawn(h, d) \/ H!GateOpens(h, d) \/ H!GateShuts(h, d) \/ H!GateReaps(h, d) \/ H!ExitSeen(h, d)
        PROVE  HarnessInv'
    BY <2>1, SpawnKeeps, GateOpensKeeps, GateShutsKeeps, GateReapsKeeps, ExitSeenKeeps
  <2> QED BY <1>3, <2>1, CheckKeeps, RestartDueKeeps, BootReadsKeeps, BootEvictsKeeps, TickReadsKeeps,
             TickEvictsKeeps, ChildEndsKeeps, HarnessClosesKeeps DEF H!SupervisorStep
<1>4. ASSUME NEW h \in Harnesses,
             H!TickBeats(h) \/ H!WindowPasses(h) \/ H!BootFails(h) \/ H!Signal(h) \/ H!HarnessCrash(h)
      PROVE  HarnessInv'
  BY <1>4, TickBeatsKeeps, WindowPassesKeeps, BootFailsKeeps, SignalKeeps, HarnessCrashKeeps
<1>5. ASSUME H!LockAges \/ H!StopReads \/ H!StopSignals
      PROVE  HarnessInv'
  BY <1>5, LockAgesKeeps, StopReadsKeeps, StopSignalsKeeps
<1>6. CASE UNCHANGED H!vars
  BY <1>6 DEF HarnessInv, H!TypeOK, Own, Strangers, Children, Attempts, LockRow, Snapshots,
         H!DiscoveryLives,
              H!Awaited, H!Of, H!Runs, H!vars, H!rows, H!daemons, H!attempts, H!supervisors, H!bounds
<1> QED BY <1>1, <1>2, <1>3, <1>4, <1>5, <1>6 DEF H!Next

\* The inductive invariant holds in every reachable state.
LEMMA HarnessInvariance == ASSUME H!HarnessAssumption PROVE H!Spec => []HarnessInv
<1>1. H!Init => HarnessInv
  BY HarnessInit
<1>2. HarnessInv /\ [H!Next]_H!vars => HarnessInv'
  BY HarnessKeeps
<1> QED BY <1>1, <1>2, PTL DEF H!Spec

\* Type correctness: rows, processes, attempts and timers are well typed, for any
\* numbers of harnesses, servers and daemons (harness.ts, serve.ts, entrypoint.ts).
THEOREM HarnessTypeCorrect == ASSUME H!HarnessAssumption PROVE H!Spec => []H!TypeOK
<1>1. HarnessInv => H!TypeOK
  BY DEF HarnessInv
<1> QED BY <1>1, HarnessInvariance, PTL

\* The rows tell the truth about the processes, a child that runs is looked after,
\* and a failure is counted once, for any numbers of processes, pids that other
\* processes get, crashes and restarts (superviseDaemon, evictStaleLock, startServer).
THEOREM HarnessSoundHolds == ASSUME H!HarnessAssumption PROVE H!Spec => []H!HarnessSound
<1>1. ASSUME HarnessInv PROVE H!HarnessSound
  <2> USE <1>1 DEF HarnessInv
  <2>1. H!AttributionIsTrue
    BY DEF H!AttributionIsTrue, LockRow
  <2>2. H!ChildrenAreMinded
    <3> SUFFICES ASSUME NEW d \in Daemons, H!Runs(d), parent[d] # None, ~told[d]
                 PROVE  \/ stage[parent[d]] = "crashed"
                        \/ stage[parent[d]] = "idle" /\ child[parent[d]] = d /\ timers[parent[d]] = 0
      BY DEF H!ChildrenAreMinded
    <3>1. parent[d] \in Harnesses
      BY DEF H!TypeOK
    <3>2. watched[d] /\ attempt[d] \notin {"none", "reaping", "failed"}
      BY <3>1 DEF Children
    <3>3. d \in H!Awaited(parent[d])
      BY <3>1, <3>2 DEF H!Awaited, H!Of
    <3> QED BY <3>1, <3>3 DEF Children
  <2>3. H!OneAttempt
    <3> SUFFICES ASSUME NEW h \in Harnesses
                 PROVE  /\ stage[h] = "idle" =>
                             \/ timers[h] = 1 /\ H!Awaited(h) = {}
                             \/ timers[h] = 0 /\ H!Awaited(h) = {child[h]}
                        /\ stage[h] # "idle" => timers[h] = 0
                        /\ stage[h] \in {"booting", "spawning"} => H!Awaited(h) = {}
      BY DEF H!OneAttempt
    <3>1. \A d \in H!Awaited(h) : d \in Daemons /\ parent[d] = h
      BY DEF H!Awaited, H!Of
    <3>2. ASSUME stage[h] = "idle", timers[h] = 1 PROVE H!Awaited(h) = {}
      BY <3>1, <3>2 DEF Children
    <3>3. ASSUME stage[h] = "idle", timers[h] = 0, child[h] \in H!Awaited(h) PROVE H!Awaited(h) = {child[h]}
      BY <3>1, <3>3 DEF Children
    <3>4. ASSUME stage[h] \in {"booting", "spawning"} PROVE H!Awaited(h) = {}
      BY <3>1, <3>4 DEF Children
    <3> QED BY <3>2, <3>3, <3>4 DEF Attempts
  <2> QED BY <2>1, <2>2, <2>3 DEF H!HarnessSound
<1> QED BY <1>1, HarnessInvariance, PTL

\* A row that is deleted is that of a daemon which is dead, foreign or silent for a
\* TTL, and never that of the harness's own child (evictDaemonLockIfStale, protectPid).
THEOREM SparesTheLivingHolds == ASSUME H!HarnessAssumption PROVE H!Spec => H!SparesTheLiving
<1> DEFINE Spares(h) ==
        seen[h] # "none" /\ seen'[h] = "none" /\ held' # held /\ stage'[h] # "crashed" =>
            /\ expired \/ held.pid \in Foreign \/ ~H!Runs(held.pid)
            /\ parent[held.pid] = h => told[held.pid] \/ ~H!Runs(held.pid)
<1>1. ASSUME HarnessInv, [H!Next]_H!vars, NEW h \in Harnesses,
             seen[h] # "none", seen'[h] = "none", held' # held, stage'[h] # "crashed"
      PROVE  seen[h] = "same"
  <2> USE <1>1
  <2>1. ASSUME NEW row, H!WriteLock(row) PROVE FALSE
    BY <2>1 DEF H!WriteLock
  <2>2. ASSUME NEW g \in Harnesses, H!Deletes(g) PROVE g = h /\ seen[h] = "same"
    BY <2>2 DEF H!Deletes
  <2>3. ASSUME NEW d \in Daemons, H!DaemonStep(d) \/ H!StartByHand(d) \/ H!GivesUp(d) \/ H!Crash(d)
        PROVE  FALSE
    BY <2>1, <2>3 DEF H!DaemonStep, H!Acquire, H!FindHeld, H!ForceAcquire, H!Beat, H!Trips, H!DiesYoung,
           H!Exit,
                      H!StartByHand, H!GivesUp, H!Crash, H!TakeLock, H!rows
  <2>4. ASSUME NEW s \in H!Servers, H!ServerStep(s) \/ H!BindFails(s) \/ H!StopServe(s) \/ H!CrashServe(s)
        PROVE  FALSE
    BY <2>4 DEF H!ServerStep, H!Bind, H!Publish, H!BindFails, H!StopServe, H!CrashServe, H!rows
  <2>5. ASSUME NEW g \in Harnesses, H!SupervisorStep(g)
        PROVE  seen[h] = "same"
    <3>1. ASSUME NEW d \in Daemons,
                 H!Spawn(g, d) \/ H!GateOpens(g, d) \/ H!GateShuts(g, d) \/ H!GateReaps(g, d) \/ H!ExitSeen(g, d)
          PROVE  FALSE
      BY <2>1, <3>1 DEF H!Spawn, H!GateOpens, H!GateShuts, H!GateReaps, H!ExitSeen, H!rows
    <3>2. ASSUME \/ H!Check(g) \/ H!RestartDue(g) \/ H!BootReads(g)
                 \/ H!TickReads(g) \/ H!ChildEnds(g) \/ H!HarnessCloses(g)
          PROVE  FALSE
      BY <3>2 DEF H!Check, H!RestartDue, H!BootReads, H!TickReads, H!ChildEnds, H!HarnessCloses, H!rows
    <3>3. ASSUME H!BootEvicts(g) \/ H!TickEvicts(g)
          PROVE  seen[h] = "same"
      BY <2>2, <3>3 DEF H!BootEvicts, H!TickEvicts
    <3> QED BY <2>5, <3>1, <3>2, <3>3 DEF H!SupervisorStep
  <2>6. ASSUME NEW g \in Harnesses,
               H!TickBeats(g) \/ H!WindowPasses(g) \/ H!BootFails(g) \/ H!Signal(g) \/ H!HarnessCrash(g)
        PROVE  FALSE
    BY <2>1, <2>6 DEF H!TickBeats, H!WindowPasses, H!BootFails, H!Signal, H!HarnessCrash, H!rows
  <2>7. ASSUME H!LockAges \/ H!StopReads \/ H!StopSignals
        PROVE  FALSE
    BY <2>1, <2>7 DEF H!LockAges, H!StopReads, H!StopSignals, H!rows
  <2>8. ~UNCHANGED H!vars
    BY DEF H!vars
  <2> QED BY <2>3, <2>4, <2>5, <2>6, <2>7, <2>8 DEF H!Next
<1>2. HarnessInv /\ [H!Next]_H!vars => [\A h \in Harnesses : Spares(h)]_H!vars
  BY <1>1 DEF HarnessInv, Snapshots
<1>3. H!SparesTheLiving <=> [][\A h \in Harnesses : Spares(h)]_H!vars
  BY DEF H!SparesTheLiving
<1> HIDE DEF Spares
<1> QED BY <1>2, <1>3, HarnessInvariance, PTL DEF H!Spec
=============================================================================
