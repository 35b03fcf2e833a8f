---------------------------- MODULE RunOwnership ----------------------------
(***************************************************************************)
(* Who may write a run.  Daemon processes compete for the single           *)
(* daemon_lock row, sweep the store when they boot, claim queued runs and  *)
(* drive each one with a fiber.  A process may be paused, lose its lock,   *)
(* crash or be replaced while its fibers are still running.  The store's   *)
(* two fences are the row's version (optimistic concurrency) and its       *)
(* claim_epoch (dispatch ownership).                                       *)
(*                                                                         *)
(* Every action is one SQLite write transaction, or one read outside any   *)
(* transaction whose result a later action uses.  appendFact's pre-read    *)
(* makes the same checks as its transaction and folds a row that its       *)
(* version identifies, so the pair is the read that yields expectedVersion *)
(* followed by the guarded write.                                          *)
(***************************************************************************)
EXTENDS Integers, FiniteSets

CONSTANTS Runs,        \* run ids
          Pids,        \* daemon processes; a restart is another pid
          Reaper,      \* the harness process that evicts stale locks
          NoPid,       \* no daemon_lock row
          MaxInFlight, \* maxConcurrentRuns
          MaxVersion,  \* bound, per run: no turn, effect or wake starts at this version
          MaxBeats,    \* bound: how often a live holder's lock goes stale
          FlakyHeals   \* the runs whose heal may spend its SQLITE_BUSY budget

ASSUME ConstantsAssumption ==
    /\ IsFiniteSet(Runs)
    /\ Reaper \notin Pids
    /\ NoPid \notin Pids
    /\ MaxInFlight \in Nat \ {0}
    /\ MaxVersion \in [Runs -> Nat]
    /\ MaxBeats \in Nat
    /\ FlakyHeals \subseteq Runs

VARIABLES rows,    \* run_state: status, version, claim_epoch
          orphans, \* runs with a side_effect_intent and no done or failed fact
          lock,    \* daemon_lock: pid and heartbeat stamp
          stale,   \* the lock's heartbeat is older than the TTL
          daemon,  \* program counter of each daemon process
          wakes,   \* rows an executor's wakePending has read and not yet written
          sweep,   \* program counter and work list of each sweeper
          snap,    \* the lock row the reaper saw
          fibers   \* the run fibers of every process, zombies included

vars == <<rows, orphans, lock, stale, daemon, wakes, sweep, snap, fibers>>

Sweepers == Pids \cup {Reaper}

(* completed, cancelled and halted are "done"; paused, paused_human and    *)
(* paused_auto are "paused".                                               *)
Status == {"queued", "running", "paused", "done", "quarantined"}

Row == [status: Status, version: Nat, epoch: Nat]

Fiber == [run: Runs, epoch: Nat, pid: Pids, pc: {"turn", "work"}, ver: Nat]

Wake  == [pid: Pids, run: Runs, ver: Nat]
Idle     == [pc |-> "idle", toQuarantine |-> {}, toRequeue |-> {}]
Scanning == [pc |-> "scan", toQuarantine |-> {}, toRequeue |-> {}]

Sweep == [pc: {"idle", "scan", "heal"}, toQuarantine: SUBSET Runs, toRequeue: SUBSET Runs]
Lock  == [pid: Pids \cup {NoPid}, beat: Nat]

TypeOK ==
    /\ rows \in [Runs -> Row]
    /\ orphans \subseteq Runs
    /\ lock \in Lock
    /\ stale \in BOOLEAN
    /\ daemon \in [Pids -> {"new", "takeover", "boot", "up", "stopping", "exiting", "dead"}]
    /\ wakes \subseteq Wake
    /\ sweep \in [Sweepers -> Sweep]
    /\ snap \in Lock
    /\ fibers \subseteq Fiber

Init ==
    /\ rows = [r \in Runs |-> [status |-> "queued", version |-> 0, epoch |-> 0]]
    /\ orphans = {}
    /\ lock = [pid |-> NoPid, beat |-> 0]
    /\ stale = FALSE
    /\ daemon = [p \in Pids |-> "new"]
    /\ wakes = {}
    /\ sweep = [a \in Sweepers |-> Idle]
    /\ snap = [pid |-> NoPid, beat |-> 0]
    /\ fibers = {}

-----------------------------------------------------------------------------
(* daemon_lock *)

Held == lock.pid # NoPid

\* A process that is still scheduled: a dead one executes nothing.
Alive(p) == daemon[p] \notin {"new", "dead"}

\* wakePending is one synchronous call of the executor loop.
Waking(p) == \E w \in wakes : w.pid = p

\* Bound: a daemon is lost only while another process is left to start.
Spare == \E q \in Pids : daemon[q] = "new"

InstallLock(p) ==
    /\ lock' = [pid |-> p, beat |-> lock.beat + 1]
    /\ stale' = FALSE

\* Fault: a clean acquire trusts the previous daemon's shutdown and skips the sweep.
FaultAcquireUnswept(p) ==
    /\ daemon[p] = "new"
    /\ ~Held
    /\ InstallLock(p)
    /\ daemon' = [daemon EXCEPT ![p] = "up"]
    /\ UNCHANGED <<rows, orphans, wakes, sweep, snap, fibers>>

AcquireDaemonLock(p) ==
    /\ daemon[p] = "new"
    /\ ~Held
    /\ InstallLock(p)
    /\ daemon' = [daemon EXCEPT ![p] = "boot"]
    /\ sweep' = [sweep EXCEPT ![p] = Scanning]
    /\ UNCHANGED <<rows, orphans, wakes, snap, fibers>>

\* startDaemon found a row past the TTL: it will take the lock over whatever
\* the row holds by then.
SeeStaleLock(p) ==
    /\ daemon[p] = "new"
    /\ Held
    /\ stale
    /\ daemon' = [daemon EXCEPT ![p] = "takeover"]
    /\ UNCHANGED <<rows, orphans, lock, stale, wakes, sweep, snap, fibers>>

ForceAcquireDaemonLock(p) ==
    /\ daemon[p] = "takeover"
    /\ InstallLock(p)
    /\ daemon' = [daemon EXCEPT ![p] = "boot"]
    /\ sweep' = [sweep EXCEPT ![p] = Scanning]
    /\ UNCHANGED <<rows, orphans, wakes, snap, fibers>>

\* The TTL passes without a beat: the holder is dead, or paused by its host.
LockExpires ==
    /\ Held
    /\ ~stale
    /\ ~Alive(lock.pid) \/ (lock.beat < MaxBeats /\ Spare)
    /\ stale' = TRUE
    /\ UNCHANGED <<rows, orphans, lock, daemon, wakes, sweep, snap, fibers>>

\* A beat that finds its lock; one on a fresh row changes only the stamp.
HeartbeatOwned(p) ==
    /\ daemon[p] = "up"
    /\ lock.pid = p
    /\ stale
    /\ InstallLock(p)
    /\ UNCHANGED <<rows, orphans, daemon, wakes, sweep, snap, fibers>>

\* onLockLost trips the daemon's shutdown controller.
HeartbeatLost(p) ==
    /\ daemon[p] = "up"
    /\ lock.pid # p
    /\ ~Waking(p)
    /\ daemon' = [daemon EXCEPT ![p] = "stopping"]
    /\ UNCHANGED <<rows, orphans, lock, stale, wakes, sweep, snap, fibers>>

-----------------------------------------------------------------------------
(* startupSweep, run by a booting daemon and by the reaper after eviction *)

\* Fault: the scan looks for orphans only.
FaultSweepScan(a) ==
    /\ sweep[a].pc = "scan"
    /\ sweep' = [sweep EXCEPT ![a] =
          [pc |-> "heal", toQuarantine |-> orphans, toRequeue |-> {}]]
    /\ UNCHANGED <<rows, orphans, lock, stale, daemon, wakes, snap, fibers>>

\* The read-only scans: orphans of runs that are not settled, and running runs.
SweepScan(a) ==
    /\ sweep[a].pc = "scan"
    /\ sweep' = [sweep EXCEPT ![a] =
          [pc |-> "heal",
           toQuarantine |-> {r \in orphans : rows[r].status \notin {"done", "quarantined"}},
           toRequeue |-> {r \in Runs : rows[r].status = "running"}]]
    /\ UNCHANGED <<rows, orphans, lock, stale, daemon, wakes, snap, fibers>>

\* Fault: claim_epoch is not bumped.
FaultFencedVersionOnly(row, status) ==
    [status |-> status, version |-> row.version + 1, epoch |-> row.epoch]

\* A row moved in SQL by the sweep or by a claim release: both tokens move.
Fenced(row, status) ==
    [status |-> status, version |-> row.version + 1, epoch |-> row.epoch + 1]

\* Fault: the heal trusts the scan and does not re-read the status.
FaultHealQuarantine(a, r) ==
    /\ sweep[a].pc = "heal"
    /\ r \in sweep[a].toQuarantine
    /\ rows' = [rows EXCEPT ![r] = Fenced(@, "quarantined")]
    /\ sweep' = [sweep EXCEPT ![a].toQuarantine = @ \ {r}]
    /\ UNCHANGED <<orphans, lock, stale, daemon, wakes, snap, fibers>>

HealQuarantine(a, r) ==
    /\ sweep[a].pc = "heal"
    /\ r \in sweep[a].toQuarantine
    /\ rows' = [rows EXCEPT ![r] =
                   IF @.status \in {"done", "quarantined"} THEN @ ELSE Fenced(@, "quarantined")]
    /\ sweep' = [sweep EXCEPT ![a].toQuarantine = @ \ {r}]
    /\ UNCHANGED <<orphans, lock, stale, daemon, wakes, snap, fibers>>

\* The quarantine loop ends before the requeue loop starts.
HealRequeue(a, r) ==
    /\ sweep[a].pc = "heal"
    /\ sweep[a].toQuarantine = {}
    /\ r \in sweep[a].toRequeue
    /\ rows' = [rows EXCEPT ![r] = IF @.status = "running" THEN Fenced(@, "queued") ELSE @]
    /\ sweep' = [sweep EXCEPT ![a].toRequeue = @ \ {r}]
    /\ UNCHANGED <<orphans, lock, stale, daemon, wakes, snap, fibers>>

\* daemon.sweep_run_failed: three attempts met SQLITE_BUSY, the run is skipped.
HealFails(a, r) ==
    /\ r \in FlakyHeals
    /\ sweep[a].pc = "heal"
    /\ \/ /\ r \in sweep[a].toQuarantine
          /\ sweep' = [sweep EXCEPT ![a].toQuarantine = @ \ {r}]
       \/ /\ sweep[a].toQuarantine = {}
          /\ r \in sweep[a].toRequeue
          /\ sweep' = [sweep EXCEPT ![a].toRequeue = @ \ {r}]
    /\ UNCHANGED <<rows, orphans, lock, stale, daemon, wakes, snap, fibers>>

SweepEnds(a) ==
    /\ sweep[a].pc = "heal"
    /\ sweep[a].toQuarantine = {}
    /\ sweep[a].toRequeue = {}
    /\ sweep' = [sweep EXCEPT ![a] = Idle]
    /\ daemon' = IF a = Reaper THEN daemon ELSE [daemon EXCEPT ![a] = "up"]
    /\ UNCHANGED <<rows, orphans, lock, stale, wakes, snap, fibers>>

-----------------------------------------------------------------------------
(* evictDaemonLockIfStale, run by the harness *)

EvictSnapshot ==
    /\ sweep[Reaper].pc = "idle"
    /\ snap.pid = NoPid
    /\ Held
    /\ stale \/ ~Alive(lock.pid)
    /\ snap' = lock
    /\ UNCHANGED <<rows, orphans, lock, stale, daemon, wakes, sweep, fibers>>

\* deleteDaemonLockIfMatches, then the sweep; a row that changed is spared.
EvictDelete ==
    /\ snap.pid # NoPid
    /\ IF lock = snap
       THEN /\ lock' = [lock EXCEPT !.pid = NoPid]
            /\ sweep' = [sweep EXCEPT ![Reaper] = Scanning]
       ELSE UNCHANGED <<lock, sweep>>
    /\ snap' = [snap EXCEPT !.pid = NoPid]
    /\ UNCHANGED <<rows, orphans, stale, daemon, wakes, fibers>>

\* The harness is killed anywhere in the call.
ReaperDies ==
    /\ sweep[Reaper].pc # "idle" \/ snap.pid # NoPid
    /\ sweep' = [sweep EXCEPT ![Reaper] = Idle]
    /\ snap' = [snap EXCEPT !.pid = NoPid]
    /\ UNCHANGED <<rows, orphans, lock, stale, daemon, wakes, fibers>>

-----------------------------------------------------------------------------
(* The executor loop: wakePending, then claimNextRun *)

\* getWakeCandidates: the version read here is the wake's only fence.
WakeRead(p, r) ==
    /\ daemon[p] = "up"
    /\ ~Waking(p)
    /\ rows[r].status \in {"paused", "quarantined"}
    /\ rows[r].version < MaxVersion[r]
    /\ wakes' = wakes \cup {[pid |-> p, run |-> r, ver |-> rows[r].version]}
    /\ UNCHANGED <<rows, orphans, lock, stale, daemon, sweep, snap, fibers>>

\* A woken run is queued again, or ended by a pending cancel.
Woken(row, status) == [status |-> status, version |-> row.version + 1, epoch |-> row.epoch]

\* Leaving quarantine settles the orphans (treat_as_done) or keeps them (retry).
WakeCommit(w, status, settled) ==
    /\ settled => rows[w.run].status = "quarantined" /\ status = "queued"
    /\ IF rows[w.run].version = w.ver
       THEN /\ rows' = [rows EXCEPT ![w.run] = Woken(@, status)]
            /\ orphans' = IF settled THEN orphans \ {w.run} ELSE orphans
       ELSE UNCHANGED <<rows, orphans>>
    /\ wakes' = wakes \ {w}
    /\ UNCHANGED <<lock, stale, daemon, sweep, snap, fibers>>

RunningRuns == {r \in Runs : rows[r].status = "running"}

\* Which queued run goes first (priority, ready_at) is left open.
ClaimNextRun(p, r) ==
    /\ daemon[p] = "up"
    /\ ~Waking(p)
    /\ Cardinality(RunningRuns) < MaxInFlight
    /\ rows[r].status = "queued"
    /\ lock.pid = p
    /\ rows' = [rows EXCEPT ![r] = Fenced(@, "running")]
    /\ fibers' = fibers \cup
          {[run |-> r, epoch |-> Fenced(rows[r], "running").epoch, pid |-> p,
            pc |-> "turn", ver |-> 0]}
    /\ UNCHANGED <<orphans, lock, stale, daemon, wakes, sweep, snap>>

-----------------------------------------------------------------------------
(* The fiber: runOneInner, dispatchTurn and the recorder *)

Ends(f)    == fibers' = fibers \ {f}
Becomes(f, g) == fibers' = (fibers \ {f}) \cup {g}

\* The fiber's claim still stands: the epoch its store is bound to is the row's.
HoldsClaim(f) == rows[f.run].epoch = f.epoch

\* appendFact's check of claimEpoch and expectedVersion for this fiber.
CanAppend(f) == HoldsClaim(f) /\ rows[f.run].version = f.ver

\* Top of the loop: a shutting-down executor leaves the run as it is.
FiberStops(f) ==
    /\ f.pc = "turn"
    /\ daemon[f.pid] # "up"
    /\ Ends(f)
    /\ UNCHANGED <<rows, orphans, lock, stale, daemon, wakes, sweep, snap>>

\* dispatchTurn reads the run and returns unless it can be driven.
FiberTurn(f) ==
    /\ f.pc = "turn"
    /\ daemon[f.pid] = "up"
    /\ IF rows[f.run].status \in {"paused", "done", "quarantined"}
       THEN Ends(f)
       ELSE Becomes(f, [run |-> f.run, epoch |-> f.epoch, pid |-> f.pid,
                       pc |-> "work", ver |-> rows[f.run].version])
    /\ UNCHANGED <<rows, orphans, lock, stale, daemon, wakes, sweep, snap>>

\* A turn's commit: the run goes on, parks or ends.
FiberCommit(f, status) ==
    /\ f.pc = "work"
    /\ CanAppend(f)
    /\ status = "running" => f.ver < MaxVersion[f.run]
    /\ rows' = [rows EXCEPT ![f.run].status = status, ![f.run].version = @ + 1]
    /\ IF status = "running" THEN Becomes(f, [f EXCEPT !.pc = "turn"]) ELSE Ends(f)
    /\ UNCHANGED <<orphans, lock, stale, daemon, wakes, sweep, snap>>

\* ClaimLostError ends the fiber.  A lost version race is planned again on the
\* row as it is now or, where the plan cannot be, left to the next turn.
FiberRejected(f) ==
    /\ f.pc = "work"
    /\ ~CanAppend(f)
    /\ IF HoldsClaim(f) /\ rows[f.run].status = "running"
       THEN \E pc \in {"work", "turn"} :
               Becomes(f, [f EXCEPT !.pc = pc, !.ver = rows[f.run].version])
       ELSE Ends(f)
    /\ UNCHANGED <<rows, orphans, lock, stale, daemon, wakes, sweep, snap>>

\* The recorder commits the intent before, the done or failed fact after, an
\* external call, on the live version if its own is stale, and carries the
\* version into the turn's commit.
RecordEffect(f, open) ==
    /\ f.pc = "work"
    /\ HoldsClaim(f)
    /\ rows[f.run].status = "running"
    /\ open # (f.run \in orphans)
    /\ open => rows[f.run].version < MaxVersion[f.run]
    /\ rows' = [rows EXCEPT ![f.run].version = @ + 1]
    /\ orphans' = IF open THEN orphans \cup {f.run} ELSE orphans \ {f.run}
    /\ Becomes(f, [f EXCEPT !.ver = rows[f.run].version + 1])
    /\ UNCHANGED <<lock, stale, daemon, wakes, sweep, snap>>

\* The supervisor's receipt for steering handed to fiber f, fact.steering_applied.
\* It is not bound to f's claim: any running row of that run takes it.
SteeringApplied(f) ==
    /\ f.pc = "work"
    /\ daemon[f.pid] = "up"
    /\ rows[f.run].status = "running"
    /\ rows[f.run].version < MaxVersion[f.run]
    /\ rows' = [rows EXCEPT ![f.run].version = @ + 1]
    /\ UNCHANGED <<orphans, lock, stale, daemon, wakes, sweep, snap, fibers>>

\* releaseIfAbandoned, releaseIfStillRunning: the fiber gives its run back.
ReleaseClaim(f) ==
    /\ f.pc = "work"
    /\ f.ver < MaxVersion[f.run]
    /\ rows' = [rows EXCEPT ![f.run] =
          IF @.status = "running" /\ HoldsClaim(f) THEN Fenced(@, "queued") ELSE @]
    /\ Ends(f)
    /\ UNCHANGED <<orphans, lock, stale, daemon, wakes, sweep, snap>>

\* The facts of an ended run (terminal snapshot, accept, discard, checkout
\* release) move only its version.
ProjectEnded(r) ==
    /\ rows[r].status = "done"
    /\ rows[r].version < MaxVersion[r]
    /\ rows' = [rows EXCEPT ![r] = Woken(@, "done")]
    /\ UNCHANGED <<orphans, lock, stale, daemon, wakes, sweep, snap, fibers>>

-----------------------------------------------------------------------------
(* Shutdown and crash *)

\* SIGTERM, or the leak limit.
Shutdown(p) ==
    /\ daemon[p] = "up"
    /\ ~Waking(p)
    /\ Spare
    /\ daemon' = [daemon EXCEPT ![p] = "stopping"]
    /\ UNCHANGED <<rows, orphans, lock, stale, wakes, sweep, snap, fibers>>

\* After the drain, however many fibers outlived it.
ReleaseDaemonLock(p) ==
    /\ daemon[p] = "stopping"
    /\ daemon' = [daemon EXCEPT ![p] = "exiting"]
    /\ lock' = IF lock.pid = p THEN [lock EXCEPT !.pid = NoPid] ELSE lock
    /\ UNCHANGED <<rows, orphans, stale, wakes, sweep, snap, fibers>>

Dies(p) ==
    /\ daemon' = [daemon EXCEPT ![p] = "dead"]
    /\ wakes' = {w \in wakes : w.pid # p}
    /\ sweep' = [sweep EXCEPT ![p] = Idle]
    /\ fibers' = {f \in fibers : f.pid # p}
    /\ UNCHANGED <<rows, orphans, lock, stale, snap>>

Exit(p) == daemon[p] = "exiting" /\ Dies(p)

\* Another process is there to take over after a crash.
Crash(p) == Alive(p) /\ Spare /\ Dies(p)

-----------------------------------------------------------------------------
DaemonStep(p) ==
    \/ AcquireDaemonLock(p) \/ SeeStaleLock(p) \/ ForceAcquireDaemonLock(p)
    \/ HeartbeatOwned(p) \/ HeartbeatLost(p)
    \/ ReleaseDaemonLock(p) \/ Exit(p)

SweepStep(a) ==
    \/ SweepScan(a) \/ SweepEnds(a)
    \/ \E r \in Runs : HealQuarantine(a, r) \/ HealRequeue(a, r) \/ HealFails(a, r)

ReaperStep == EvictSnapshot \/ EvictDelete \/ ReaperDies

ExecutorStep(p) ==
    \/ \E r \in Runs : WakeRead(p, r) \/ ClaimNextRun(p, r)

WakeStep(w) ==
    \E status \in {"queued", "done"}, settled \in BOOLEAN : WakeCommit(w, status, settled)

FiberStep(f) ==
    \/ FiberStops(f) \/ FiberTurn(f) \/ FiberRejected(f) \/ ReleaseClaim(f) \/ SteeringApplied(f)
    \/ \E status \in {"running", "paused", "done"} : FiberCommit(f, status)
    \/ \E open \in BOOLEAN : RecordEffect(f, open)

Next ==
    \/ \E p \in Pids : DaemonStep(p) \/ ExecutorStep(p) \/ Shutdown(p) \/ Crash(p)
    \/ \E a \in Sweepers : SweepStep(a)
    \/ ReaperStep
    \/ LockExpires
    \/ \E r \in Runs : ProjectEnded(r)
    \/ \E w \in wakes : WakeStep(w)
    \/ \E f \in fibers : FiberStep(f)

Spec == Init /\ [][Next]_vars

(* Schedulers run: a started process boots, sweeps, polls and drains; a    *)
(* fiber's handler is bounded by its deadline; a dead holder's heartbeat   *)
(* ages past the TTL.  Operators, crashes and the reaper owe nothing.      *)
Fairness ==
    /\ \A p \in Pids : WF_vars(DaemonStep(p))
    /\ \A p \in Pids : WF_vars(SweepStep(p))
    /\ WF_vars(LockExpires)

FairSpec == Spec /\ Fairness

-----------------------------------------------------------------------------
(* Properties *)

\* Two fibers never hold the same claim of a run, in whatever processes they
\* live: a run is driven by one fiber at a time (claim_epoch, claimNextRun).
OneOwner ==
    \A f, g \in fibers : f.run = g.run /\ HoldsClaim(f) /\ HoldsClaim(g) => f = g

\* While a fiber's claim stands, its run is running: no sweep, wake, release or
\* other fiber parks, ends or requeues it.  Its row's version may move (a steering
\* receipt of any process), but only forward, so a conflict can be planned again.
ClaimUndisturbed ==
    \A f \in fibers : HoldsClaim(f) =>
        /\ rows[f.run].status = "running"
        /\ f.pc = "work" => f.ver <= rows[f.run].version

\* No more runs are running than maxConcurrentRuns.  claimNextRun counts, but
\* a commit writes a status too: a zombie's late commit must not resurrect one.
Capacity == Cardinality(RunningRuns) <= MaxInFlight

\* The live lock holder drives every running run itself.  A run a dead or
\* replaced process left running is taken back by startupSweep before the new
\* holder claims anything (so no slot is lost to a run nobody drives), also when
\* the heal of another run gives up on its SQLITE_BUSY budget.
HolderDrivesAll ==
    \A p \in Pids : lock.pid = p /\ daemon[p] = "up" =>
        \A r \in RunningRuns \ FlakyHeals :
            \E f \in fibers : f.run = r /\ HoldsClaim(f) /\ f.pid = p

\* A running row changes status only by the commit of the fiber that holds its
\* claim, or under a new epoch that fences that fiber out (sweep, release).
OnlyOwnerMovesRunning ==
    [][\A r \in Runs : rows[r].status = "running" /\ rows'[r].status # "running" =>
          \/ rows'[r].epoch = rows[r].epoch + 1
          \/ \E f \in fibers : f.run = r /\ HoldsClaim(f) /\ f.pc = "work" /\ f \notin fibers']_vars

\* A run that ended stays ended, under the same claim: no late fiber, sweep or
\* wake revives it.
EndedIsFinal ==
    [][\A r \in Runs : rows[r].status = "done" =>
          rows'[r].status = "done" /\ rows'[r].epoch = rows[r].epoch]_vars

\* A run is running but no fiber holds its claim.
Stranded(r) == r \in RunningRuns /\ ~\E f \in fibers : f.run = r /\ HoldsClaim(f)

\* A run left running by a crashed, drained or evicted process is eventually
\* requeued, quarantined or driven again (startupSweep runs at every boot).
StrandedIsRecovered == \A r \in Runs : Stranded(r) ~> ~Stranded(r)

\* A sweep never takes a running run from the daemon that holds the lock.
HolderUndisturbed ==
    [][\A f \in fibers :
          HoldsClaim(f) /\ f.pid = lock.pid /\ daemon[f.pid] = "up" /\ f \in fibers'
          => rows'[f.run].epoch = f.epoch]_vars

-----------------------------------------------------------------------------
(* The claims that stand are the owners of the abstract specification.     *)
Claims == {<<f.run, f.pid>> : f \in {g \in fibers : HoldsClaim(g)}}

Abstract == INSTANCE Lifecycle WITH
                status <- [r \in Runs |-> rows[r].status], owners <- Claims

\* Locks, epochs, versions, wakes, sweeps and zombies implement the abstract
\* lifecycle: one owner at a time decides, whatever interleaving of processes
\* and crashes brought it about (claimNextRun, appendFact, startupSweep, wakePending).
ImplementsLifecycle == Abstract!Spec
=============================================================================
