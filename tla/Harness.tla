------------------------------ MODULE Harness ------------------------------
(* Who keeps a daemon running. A harness binds the HTTP server, spawns the  *)
(* daemon as a child, waits until that child holds daemon_lock, restarts it *)
(* when it fails and gives up when it goes on failing. On the same store    *)
(* there may be other harnesses, servers of `fragua serve`, daemons started *)
(* by hand, daemons of other hosts, and the operator's `daemon stop`. They  *)
(* share two rows and nothing else.                                         *)
(*                                                                          *)
(* A step of a harness is one turn of its event loop, cut where it lets     *)
(* another process write between a read and a write of its own. What a      *)
(* daemon does with the runs is in RunOwnership.                            *)
EXTENDS Naturals

CONSTANTS Harnesses,       \* processes of `fragua harness`
          Serves,          \* processes of `fragua serve`
          Daemons,         \* pids of daemons; one is used again when nobody remembers it
          Foreign,         \* the daemons on other hosts
          Recycled,        \* the pids that an unrelated process has after the first is dead
          MaxFastFailures, \* the failures in a row that make a harness give up
          MaxOutside,      \* bound: what comes from outside: crashes, errors and the operator
          MaxLate,         \* bound: how often the lock of a live daemon goes stale
          None

Servers == Harnesses \cup Serves

ASSUME HarnessAssumption ==
    /\ Foreign \subseteq Daemons
    /\ None \notin Servers \cup Daemons
    /\ Harnesses \cap Serves = {}
    /\ MaxFastFailures \in Nat \ {0}
    /\ MaxOutside \in Nat
    /\ MaxLate \in Nat

VARIABLES
    lock,     \* daemon_lock: the holder's pid and its harness_pid
    stale,    \* the heartbeat in the row is older than the TTL
    endpoint, \* server_endpoint: the pid in the row
    proc,     \* each daemon process
    parent,   \* the harness that spawned it, None for one started by hand
    told,     \* it was sent SIGTERM
    attempt,  \* the attempt it was spawned for; reaping: failed, and its exit is waited for
    watched,  \* its exit handler has not run
    pc,       \* what each harness is doing
    child,    \* daemonProc
    timers,   \* the restart timers that are set
    fails,    \* fastFailures, up to the limit
    window,   \* whether the TTL has passed since the first failure
    snap,     \* the row evictDaemonLockIfStale has read: still the same, or moved
    server,   \* the HTTP server of each process
    unclear,  \* history: the servers that could not clear their row
    target,   \* the pid `daemon stop` has read
    outside, late

rows == <<lock, stale, endpoint>>
daemons == <<proc, parent, told>>
attempts == <<attempt, watched>>
supervisors == <<pc, child, timers, fails, window>>
bounds == <<outside, late>>
vars == <<rows, daemons, attempts, supervisors, snap, server, unclear, target, bounds>>

TypeOK ==
    /\ lock \in [pid : Daemons \cup {None}, harness : Harnesses \cup {None}]
    /\ stale \in BOOLEAN
    /\ endpoint \in Servers \cup {None}
    /\ proc \in [Daemons -> {"none", "boot", "takeover", "up", "stopping", "dead"}]
    /\ parent \in [Daemons -> Harnesses \cup {None}]
    /\ told \in [Daemons -> BOOLEAN]
    /\ attempt \in [Daemons -> {"none", "pending", "ready", "reaping", "failed"}]
    /\ watched \in [Daemons -> BOOLEAN]
    /\ pc \in [Harnesses -> {"new", "checked", "booting", "spawning", "idle", "stopping", "closing",
                             "gone", "crashed"}]
    /\ child \in [Harnesses -> Daemons \cup {None}]
    /\ timers \in [Harnesses -> Nat]
    /\ fails \in [Harnesses -> 0 .. MaxFastFailures]
    /\ window \in [Harnesses -> {"closed", "open", "elapsed"}]
    /\ snap \in [Harnesses -> {"none", "same", "moved"}]
    /\ server \in [Servers -> {"down", "deciding", "quiet", "published", "closed", "crashed"}]
    /\ unclear \subseteq Servers
    /\ target \in Daemons \cup {None}
    /\ outside \in 0 .. MaxOutside
    /\ late \in 0 .. MaxLate

NoLock == [pid |-> None, harness |-> None]

Init ==
    /\ lock = NoLock /\ stale = FALSE /\ endpoint = None
    /\ proc = [d \in Daemons |-> "none"]
    /\ parent = [d \in Daemons |-> None]
    /\ told = [d \in Daemons |-> FALSE]
    /\ attempt = [d \in Daemons |-> "none"]
    /\ watched = [d \in Daemons |-> FALSE]
    /\ pc = [h \in Harnesses |-> "new"]
    /\ child = [h \in Harnesses |-> None]
    /\ timers = [h \in Harnesses |-> 0]
    /\ fails = [h \in Harnesses |-> 0]
    /\ window = [h \in Harnesses |-> "closed"]
    /\ snap = [h \in Harnesses |-> "none"]
    /\ server = [s \in Servers |-> "down"]
    /\ unclear = {} /\ target = None /\ outside = 0 /\ late = 0

-----------------------------------------------------------------------------
(* The rows and the processes they name.                                   *)

Runs(d) == proc[d] \notin {"none", "dead"}

\* probePidState: a pid of another host is not found here, and a pid that was
\* given to another process is.
LooksDead(d) == d \in Foreign \/ (~Runs(d) /\ d \notin Recycled)
ServerLooksDead(s) == server[s] \in {"closed", "crashed"} /\ s \notin Recycled
HarnessLooksAlive(h) == pc[h] \notin {"gone", "crashed"} \/ h \in Recycled

\* Any write of daemon_lock: who has read the row sees another one.
WriteLock(row) ==
    /\ lock' = row
    /\ snap' = [h \in Harnesses |-> IF snap[h] = "none" THEN "none" ELSE "moved"]

FaultTakeLock(d) == WriteLock([pid |-> d, harness |-> lock.harness]) /\ stale' = FALSE

\* acquire and force: the new holder does not inherit the harness.
TakeLock(d) == WriteLock([pid |-> d, harness |-> None]) /\ stale' = FALSE

\* evictDaemonLockIfStale deletes a row like this one.
Evictable == lock.pid # None /\ (stale \/ (lock.pid \notin Foreign /\ LooksDead(lock.pid)))

Outside == outside < MaxOutside /\ outside' = outside + 1

-----------------------------------------------------------------------------
(* Daemons.                                                                *)

\* `fragua daemon start` of an operator, here or on another host.
StartByHand(d) ==
    /\ proc[d] = "none"
    /\ proc' = [proc EXCEPT ![d] = "boot"]
    /\ Outside
    /\ UNCHANGED <<rows, parent, told, attempts, supervisors, snap, server, unclear, target, late>>

Acquire(d) ==
    /\ proc[d] = "boot" /\ lock.pid = None
    /\ TakeLock(d)
    /\ proc' = [proc EXCEPT ![d] = "up"]
    /\ UNCHANGED <<endpoint, parent, told, attempts, supervisors, server, unclear, target, bounds>>

\* DaemonAlreadyRunningError, or a row past its TTL, which is taken whatever it is by then.
FindHeld(d) ==
    /\ proc[d] = "boot" /\ lock.pid # None
    /\ proc' = [proc EXCEPT ![d] = IF stale THEN "takeover" ELSE "dead"]
    /\ UNCHANGED <<rows, parent, told, attempts, supervisors, snap, server, unclear, target, bounds>>

ForceAcquire(d) ==
    /\ proc[d] = "takeover"
    /\ TakeLock(d)
    /\ proc' = [proc EXCEPT ![d] = "up"]
    /\ UNCHANGED <<endpoint, parent, told, attempts, supervisors, server, unclear, target, bounds>>

\* A beat that finds its row; one on a fresh row changes only the stamp.
Beat(d) ==
    /\ proc[d] = "up" /\ lock.pid = d
    /\ stale \/ \E h \in Harnesses : snap[h] = "same"
    /\ WriteLock(lock) /\ stale' = FALSE
    /\ UNCHANGED <<endpoint, daemons, attempts, supervisors, server, unclear, target, bounds>>

\* The shutdown controller trips: a beat found no row, or SIGTERM came.
Trips(d) ==
    /\ proc[d] = "up" /\ (lock.pid # d \/ told[d])
    /\ proc' = [proc EXCEPT ![d] = "stopping"]
    /\ UNCHANGED <<rows, parent, told, attempts, supervisors, snap, server, unclear, target, bounds>>

\* SIGTERM before there is a handler for it.
DiesYoung(d) ==
    /\ proc[d] \in {"boot", "takeover"} /\ told[d]
    /\ proc' = [proc EXCEPT ![d] = "dead"]
    /\ UNCHANGED <<rows, parent, told, attempts, supervisors, snap, server, unclear, target, bounds>>

\* The handler leaks are too many, or the executor throws.
GivesUp(d) ==
    /\ proc[d] = "up"
    /\ proc' = [proc EXCEPT ![d] = "stopping"]
    /\ Outside
    /\ UNCHANGED <<rows, parent, told, attempts, supervisors, snap, server, unclear, target, late>>

\* The end of startDaemon; the release may fail, and is for its own row only.
Exit(d) ==
    /\ proc[d] = "stopping"
    /\ proc' = [proc EXCEPT ![d] = "dead"]
    /\ \/ /\ IF lock.pid = d THEN WriteLock(NoLock) ELSE UNCHANGED <<lock, snap>>
          /\ UNCHANGED outside
       \/ Outside /\ UNCHANGED <<lock, snap>>
    /\ UNCHANGED <<stale, endpoint, parent, told, attempts, supervisors, server, unclear, target, late>>

Crash(d) ==
    /\ Runs(d)
    /\ proc' = [proc EXCEPT ![d] = "dead"]
    /\ Outside
    /\ UNCHANGED <<rows, parent, told, attempts, supervisors, snap, server, unclear, target, late>>

\* The TTL passes without a beat.
LockAges ==
    /\ lock.pid # None /\ ~stale
    /\ \/ proc[lock.pid] # "up" /\ UNCHANGED late
       \/ proc[lock.pid] = "up" /\ late < MaxLate /\ late' = late + 1
    /\ stale' = TRUE
    /\ UNCHANGED <<lock, endpoint, daemons, attempts, supervisors, snap, server, unclear, target, outside>>

-----------------------------------------------------------------------------
(* A server: the harness's own, or one of `fragua serve`.                  *)

\* startServer binds and looks at the row; harnessCommand has looked at the lock before.
Bind(s) ==
    /\ server[s] = "down" /\ (s \in Harnesses => pc[s] = "checked")
    /\ LET free == endpoint \in {None, s} \/ ServerLooksDead(endpoint)
       IN /\ server' = [server EXCEPT ![s] = IF free THEN "deciding" ELSE "quiet"]
          /\ pc' = [h \in Harnesses |-> IF h = s /\ ~free THEN "booting" ELSE pc[h]]
    /\ UNCHANGED <<rows, daemons, attempts, child, timers, fails, window, snap, unclear, target, bounds>>

Publish(s) ==
    /\ server[s] = "deciding"
    /\ endpoint' = s
    /\ server' = [server EXCEPT ![s] = "published"]
    /\ pc' = [h \in Harnesses |-> IF h = s THEN "booting" ELSE pc[h]]
    /\ UNCHANGED <<lock, stale, daemons, attempts, child, timers, fails, window, snap, unclear, target, bounds>>

\* A forced port is taken.
BindFails(s) ==
    /\ server[s] = "down" /\ (s \in Harnesses => pc[s] = "checked")
    /\ server' = [server EXCEPT ![s] = "closed"]
    /\ pc' = [h \in Harnesses |-> IF h = s THEN "gone" ELSE pc[h]]
    /\ Outside
    /\ UNCHANGED <<rows, daemons, attempts, child, timers, fails, window, snap, unclear, target, late>>

\* close: the row is cleared by the process that published it and is named in it.
CloseServer(s) ==
    /\ server' = [server EXCEPT ![s] = "closed"]
    /\ \/ /\ endpoint' = IF server[s] = "published" /\ endpoint = s THEN None ELSE endpoint
          /\ UNCHANGED <<unclear, outside>>
       \/ server[s] = "published" /\ unclear' = unclear \cup {s} /\ Outside /\ UNCHANGED endpoint

StopServe(s) ==
    /\ s \in Serves /\ server[s] \in {"quiet", "published"}
    /\ CloseServer(s)
    /\ UNCHANGED <<lock, stale, daemons, attempts, supervisors, snap, target, late>>

CrashServe(s) ==
    /\ s \in Serves /\ server[s] \in {"deciding", "quiet", "published"}
    /\ server' = [server EXCEPT ![s] = "crashed"]
    /\ Outside
    /\ UNCHANGED <<rows, daemons, attempts, supervisors, snap, unclear, target, late>>

-----------------------------------------------------------------------------
(* The harness.                                                            *)

Idle(h) == pc[h] = "idle" /\ snap[h] = "none"
Of(h) == {d \in Daemons : parent[d] = h}

\* liveDaemonHolder: a live process of this host with a fresh heartbeat.
LiveHolder == lock.pid # None /\ lock.pid \notin Foreign /\ ~stale /\ ~LooksDead(lock.pid)

\* harnessCommand refuses to start beside one.
Check(h) ==
    /\ pc[h] = "new"
    /\ pc' = [pc EXCEPT ![h] = IF LiveHolder THEN "gone" ELSE "checked"]
    /\ UNCHANGED <<rows, daemons, attempts, child, timers, fails, window, snap, server, unclear, target, bounds>>

\* finish: the first one cuts timers and gates and begins the shutdown of the child.
Finish(h) ==
    /\ pc' = [pc EXCEPT ![h] = "stopping"]
    /\ timers' = [timers EXCEPT ![h] = 0]
    /\ told' = [d \in Daemons |-> told[d] \/ (d = child[h] /\ Runs(d))]

\* registerFailure: one more failure, then a timer or the end.
RegisterFailure(h, healthy) ==
    LET n == IF healthy THEN 1 ELSE IF fails[h] < MaxFastFailures THEN fails[h] + 1 ELSE fails[h]
        w == IF healthy \/ window[h] = "closed" THEN "open" ELSE window[h]
    IN /\ fails' = [fails EXCEPT ![h] = n]
       /\ window' = [window EXCEPT ![h] = w]
       /\ IF n >= MaxFastFailures /\ w = "elapsed"
          THEN Finish(h)
          ELSE timers' = [timers EXCEPT ![h] = @ + 1] /\ UNCHANGED <<pc, told>>

WindowPasses(h) ==
    /\ window[h] = "open"
    /\ window' = [window EXCEPT ![h] = "elapsed"]
    /\ UNCHANGED <<rows, daemons, attempts, pc, child, timers, fails, snap, server, unclear, target, bounds>>

RestartDue(h) ==
    /\ Idle(h) /\ timers[h] > 0
    /\ timers' = [timers EXCEPT ![h] = @ - 1]
    /\ pc' = [pc EXCEPT ![h] = "booting"]
    /\ UNCHANGED <<rows, daemons, attempts, child, fails, window, snap, server, unclear, target, bounds>>

\* bootOrRestart: evictStaleLock, without a pid to protect, then spawn.
BootReads(h) ==
    /\ pc[h] = "booting" /\ snap[h] = "none"
    /\ IF Evictable THEN snap' = [snap EXCEPT ![h] = "same"] /\ UNCHANGED pc
                    ELSE pc' = [pc EXCEPT ![h] = "spawning"] /\ UNCHANGED snap
    /\ UNCHANGED <<rows, daemons, attempts, child, timers, fails, window, server, unclear, target, bounds>>

FaultDeletes(h) ==
    /\ lock' = NoLock
    /\ snap' = [g \in Harnesses |-> IF g = h \/ snap[g] = "none" THEN "none" ELSE "moved"]

\* The delete names the pid and the heartbeat that were read.
Deletes(h) ==
    /\ lock' = IF snap[h] = "same" THEN NoLock ELSE lock
    /\ snap' = [g \in Harnesses |-> IF g = h \/ snap[g] = "none" THEN "none"
                                    ELSE IF snap[h] = "same" THEN "moved" ELSE snap[g]]

BootEvicts(h) ==
    /\ pc[h] = "booting" /\ snap[h] # "none"
    /\ Deletes(h)
    /\ pc' = [pc EXCEPT ![h] = "spawning"]
    /\ UNCHANGED <<stale, endpoint, daemons, attempts, child, timers, fails, window, server, unclear, target, bounds>>

\* What a harness in its event loop waits for: a child whose exit or whose gate will be reported.
Awaited(h) == {d \in Of(h) : attempt[d] = "reaping" \/ (watched[d] /\ attempt[d] # "failed")}

\* The system gives out a pid again when no row names it and nobody waits for it.
Unused(h, d) ==
    \/ proc[d] = "none"
    \/ /\ proc[d] = "dead" /\ lock.pid # d /\ target # d
       /\ \A g \in Harnesses : pc[g] \notin {"gone", "crashed"} =>
              d \notin Awaited(g) /\ (g # h => child[g] # d)

Spawn(h, d) ==
    /\ pc[h] = "spawning" /\ d \notin Foreign /\ Unused(h, d)
    /\ proc' = [proc EXCEPT ![d] = "boot"]
    /\ parent' = [parent EXCEPT ![d] = h]
    /\ told' = [told EXCEPT ![d] = FALSE]
    /\ attempt' = [attempt EXCEPT ![d] = "pending"]
    /\ watched' = [watched EXCEPT ![d] = TRUE]
    /\ child' = [child EXCEPT ![h] = d]
    /\ pc' = [pc EXCEPT ![h] = "idle"]
    /\ UNCHANGED <<rows, timers, fails, window, snap, server, unclear, target, bounds>>

\* The store cannot be opened, or the process cannot be spawned.
BootFails(h) ==
    /\ \/ pc[h] \in {"booting", "spawning"} /\ snap[h] = "none"
       \/ Idle(h) /\ \E d \in Of(h) : attempt[d] = "pending"
    /\ Finish(h)
    /\ Outside
    /\ UNCHANGED <<rows, proc, parent, attempt, watched, child, fails, window, snap, server, unclear, target, late>>

\* gateReady finds this child in the row: reassertChildLiveness stamps the row, or throws.
GateOpens(h, d) ==
    /\ Idle(h) /\ parent[d] = h /\ attempt[d] = "pending" /\ lock.pid = d
    /\ attempt' = [attempt EXCEPT ![d] = "ready"]
    /\ \/ WriteLock([pid |-> d, harness |-> h]) /\ stale' = FALSE
       \/ UNCHANGED <<lock, stale, snap>>
    /\ UNCHANGED <<endpoint, daemons, watched, supervisors, server, unclear, target, bounds>>

\* Its deadline passes: the child is sent SIGTERM and its exit is waited for.
GateShuts(h, d) ==
    /\ Idle(h) /\ parent[d] = h /\ attempt[d] = "pending"
    /\ attempt' = [attempt EXCEPT ![d] = "reaping"]
    /\ told' = [told EXCEPT ![d] = TRUE]
    /\ UNCHANGED <<rows, proc, parent, watched, supervisors, snap, server, unclear, target, bounds>>

\* raceExit ends, by the exit or by the grace period.
GateReaps(h, d) ==
    /\ Idle(h) /\ parent[d] = h /\ attempt[d] = "reaping"
    /\ attempt' = [attempt EXCEPT ![d] = "failed"]
    /\ RegisterFailure(h, FALSE)
    /\ UNCHANGED <<rows, proc, parent, watched, child, snap, server, unclear, target, bounds>>

FaultExitCountsTwice(d) == FALSE
FaultExitIsIgnored(d) == attempt[d] # "pending"
\* A failed gate has counted this attempt; one that still polls finds it failed.
Accounted(d) == attempt[d] \in {"reaping", "failed"}

\* watch: the exit of a child, in its boot or after it was ready.
ExitSeen(h, d) ==
    /\ Idle(h) /\ parent[d] = h /\ watched[d] /\ proc[d] = "dead"
    /\ watched' = [watched EXCEPT ![d] = FALSE]
    /\ attempt' = [attempt EXCEPT ![d] = IF @ = "pending" THEN "failed" ELSE @]
    /\ IF Accounted(d)
       THEN UNCHANGED <<pc, timers, fails, window, told>>
       ELSE \E healthy \in BOOLEAN : (attempt[d] = "pending" => ~healthy) /\ RegisterFailure(h, healthy)
    /\ UNCHANGED <<rows, proc, parent, child, snap, server, unclear, target, bounds>>

\* The tick of the reaper. exitCode is null until the runtime has seen the exit.
FaultLooksExited(h) == TRUE
LooksLive(h) == child[h] # None /\ (Runs(child[h]) \/ watched[child[h]])
LooksExited(h) == child[h] # None => ~Runs(child[h])

TickBeats(h) ==
    /\ Idle(h) /\ LooksLive(h) /\ lock.pid = child[h]
    /\ WriteLock([pid |-> child[h], harness |-> h]) /\ stale' = FALSE
    /\ UNCHANGED <<endpoint, daemons, attempts, supervisors, server, unclear, target, bounds>>

TickReads(h) ==
    /\ Idle(h) /\ Evictable
    /\ lock.pid = child[h] => LooksExited(h)
    /\ snap' = [snap EXCEPT ![h] = "same"]
    /\ UNCHANGED <<rows, daemons, attempts, supervisors, server, unclear, target, bounds>>

TickEvicts(h) ==
    /\ pc[h] = "idle" /\ snap[h] # "none"
    /\ Deletes(h)
    /\ UNCHANGED <<stale, endpoint, daemons, attempts, supervisors, server, unclear, target, bounds>>

\* SIGINT or SIGTERM to the harness.
Signal(h) ==
    /\ Idle(h)
    /\ Finish(h)
    /\ Outside
    /\ UNCHANGED <<rows, proc, parent, attempt, watched, child, fails, window, snap, server, unclear, target, late>>

\* shutdown: the child ends in time, or the grace period does and it is killed.
ChildEnds(h) ==
    /\ pc[h] = "stopping"
    /\ proc' = [d \in Daemons |-> IF d = child[h] /\ Runs(d) THEN "dead" ELSE proc[d]]
    /\ pc' = [pc EXCEPT ![h] = "closing"]
    /\ UNCHANGED <<rows, parent, told, attempts, child, timers, fails, window, snap, server, unclear, target, bounds>>

HarnessCloses(h) ==
    /\ pc[h] = "closing"
    /\ CloseServer(h)
    /\ pc' = [pc EXCEPT ![h] = "gone"]
    /\ UNCHANGED <<lock, stale, daemons, attempts, child, timers, fails, window, snap, target, late>>

\* Its children and its rows outlive it.
HarnessCrash(h) ==
    /\ pc[h] \notin {"new", "gone", "crashed"}
    /\ pc' = [pc EXCEPT ![h] = "crashed"]
    /\ timers' = [timers EXCEPT ![h] = 0]
    /\ snap' = [snap EXCEPT ![h] = "none"]
    /\ server' = [server EXCEPT ![h] = IF @ = "down" THEN "down" ELSE "crashed"]
    /\ Outside
    /\ UNCHANGED <<rows, daemons, attempts, child, fails, window, unclear, target, late>>

-----------------------------------------------------------------------------
(* `fragua daemon stop`: two looks at the row with a signal between them.  *)

StopReads ==
    /\ target = None /\ lock.pid \notin Foreign \cup {None}
    /\ lock.harness # None => ~HarnessLooksAlive(lock.harness)
    /\ target' = lock.pid
    /\ Outside
    /\ UNCHANGED <<rows, daemons, attempts, supervisors, snap, server, unclear, late>>

StopSignals ==
    /\ target # None /\ target' = None
    /\ told' = [told EXCEPT ![target] = @ \/ Runs(target)]
    /\ IF LooksDead(target) /\ lock.pid = target THEN WriteLock(NoLock) ELSE UNCHANGED <<lock, snap>>
    /\ UNCHANGED <<stale, endpoint, proc, parent, attempts, supervisors, server, unclear, bounds>>

-----------------------------------------------------------------------------
DaemonStep(d) ==
    \/ Acquire(d) \/ FindHeld(d) \/ ForceAcquire(d) \/ Beat(d)
    \/ Trips(d) \/ DiesYoung(d) \/ Exit(d)

ServerStep(s) == Bind(s) \/ Publish(s)

SupervisorStep(h) ==
    \/ Check(h) \/ RestartDue(h) \/ BootReads(h) \/ BootEvicts(h)
    \/ TickReads(h) \/ TickEvicts(h) \/ ChildEnds(h) \/ HarnessCloses(h)
    \/ \E d \in Daemons : \/ Spawn(h, d) \/ GateOpens(h, d) \/ GateShuts(h, d) \/ GateReaps(h, d)
                         \/ ExitSeen(h, d)

Next ==
    \/ \E d \in Daemons : DaemonStep(d) \/ StartByHand(d) \/ GivesUp(d) \/ Crash(d)
    \/ \E s \in Servers : ServerStep(s) \/ BindFails(s) \/ StopServe(s) \/ CrashServe(s)
    \/ \E h \in Harnesses : \/ SupervisorStep(h) \/ TickBeats(h) \/ WindowPasses(h)
                           \/ BootFails(h) \/ Signal(h) \/ HarnessCrash(h)
    \/ LockAges \/ StopReads \/ StopSignals

\* Processes run, timers fire, time passes; nobody has to start, stop or break anything.
Fairness ==
    /\ \A d \in Daemons : WF_vars(DaemonStep(d))
    /\ \A s \in Servers : WF_vars(ServerStep(s))
    /\ \A h \in Harnesses : WF_vars(SupervisorStep(h)) /\ WF_vars(WindowPasses(h))
    /\ WF_vars(LockAges) /\ WF_vars(StopSignals)

Spec == Init /\ [][Next]_vars /\ Fairness

-----------------------------------------------------------------------------
(* Properties.                                                             *)

\* The row says which harness looks after its holder: `daemon stop` leaves the
\* daemon to that one, and no daemon is credited to a harness that is not its own.
AttributionIsTrue == lock.harness # None => parent[lock.pid] = lock.harness

\* A child that runs and was not told to stop is the one its harness looks
\* after, and no restart is pending beside it; only a crash leaves an orphan.
ChildrenAreMinded ==
    \A d \in Daemons : Runs(d) /\ parent[d] # None /\ ~told[d] =>
        LET h == parent[d]
        IN pc[h] = "crashed" \/ (pc[h] = "idle" /\ child[h] = d /\ timers[h] = 0)

\* One attempt at a time: an exit, a gate that times out and a restart never
\* count one failure twice, and never lose it.
OneAttempt ==
    \A h \in Harnesses :
        /\ pc[h] = "idle" => \/ timers[h] = 1 /\ Awaited(h) = {}
                             \/ timers[h] = 0 /\ Awaited(h) = {child[h]}
        /\ pc[h] # "idle" => timers[h] = 0
        /\ pc[h] \in {"booting", "spawning"} => Awaited(h) = {}

\* Discovery names no server that closed, unless the row could not be cleared.
DiscoveryLives == endpoint # None => server[endpoint] \in {"published", "crashed"} \/ endpoint \in unclear

\* The four together.
HarnessSound == AttributionIsTrue /\ ChildrenAreMinded /\ OneAttempt /\ DiscoveryLives

\* evictStaleLock takes the row of a live daemon of this host only after a TTL
\* without a beat, and a harness never takes that of a child it has not told to stop.
SparesTheLiving ==
    [][\A h \in Harnesses :
         snap[h] # "none" /\ snap'[h] = "none" /\ lock' # lock /\ pc'[h] # "crashed" =>
            /\ stale \/ lock.pid \in Foreign \/ ~Runs(lock.pid)
            /\ parent[lock.pid] = h => told[lock.pid] \/ ~Runs(lock.pid)]_vars

\* Whatever happens to the child, it is up again with the lock, or the harness ends.
Recovers ==
    \A h \in Harnesses :
        []<>(pc[h] \in {"gone", "crashed"} \/ (child[h] # None /\ attempt[child[h]] = "ready"
                                               /\ proc[child[h]] = "up" /\ lock.pid = child[h]))

\* harness.ts: refuse to start beside a live harness.
NotBesideALiveHarness ==
    [][\A h \in Harnesses : pc[h] = "new" /\ pc'[h] = "checked" =>
         \A g \in Harnesses \ {h} : pc[g] # "idle"]_vars

\* serve.ts: a row held by a live sibling is not ours to overwrite.
LiveRowIsNotOverwritten ==
    [][endpoint' # endpoint /\ endpoint' # None =>
         endpoint = None \/ server[endpoint] \in {"closed", "crashed"}]_vars
=============================================================================
