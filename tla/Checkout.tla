------------------------------ MODULE Checkout ------------------------------
(***************************************************************************)
(* Where runs execute and how their work comes back.                       *)
(*                                                                         *)
(*   a fresh run    in a worktree of its own, created at a commit;         *)
(*   a dirty run    the same, at a synthetic commit of the operator's tree *)
(*                  (`fragua run --dirty`);                                *)
(*   a checkout run in the operator's own checkout (`--checkout`), which   *)
(*                  it holds until it is released.                         *)
(*                                                                         *)
(* Three parties meet here without a common lock: the daemon's fibers,     *)
(* CLI or server clients (enqueue, accept, discard, release, gc), each     *)
(* reading the store and then calling git, and the operator in the same    *)
(* directory.  File content is a set of marks: <<r, n>> is the n-th change *)
(* of run r, <<0, 1>> an edit of the operator.                          *)
(***************************************************************************)
EXTENDS Naturals, FiniteSets

CONSTANTS
    Runs,          \* positive naturals
    RunPlans,      \* the combinations of runs operators ask for
    Clients,       \* slots for CLI and server calls in progress (naturals)
    MaxWork,       \* changes one run makes
    MaxFaults,     \* daemon crashes, client deaths and failed git commands
    MaxVerbs,      \* pauses, cancels, releases, commits and gc passes in one behaviour
    None

VARIABLES
    run,       \* run_state, one row per run
    wt,        \* .fragua/worktrees/<run>, or None
    snap,      \* refs/fragua/snapshots/<run>: the content of its tip, or None
    fiber,     \* where the daemon's fiber of the run stands
    env,       \* the provisioner's map: the base its environment was given
    client,    \* CLI and server clients
    tree,      \* content of the operator's checkout
    committed, \* the part of it that HEAD holds
    work,      \* history: changes each run has made
    late,      \* history: marks landed by an accept whose busy check was stale
    failed,    \* history: runs whose terminal snapshot failed
    faults, verbs

vars == <<run, wt, snap, fiber, env, client, tree, committed, work, late, failed, faults, verbs>>

Marks == (Runs \X (1 .. MaxWork)) \cup {<<0, 1>>}
Own(r) == {<<r, n>> : n \in 1 .. work[r]}
Content == SUBSET Marks

Terminal(r) == run[r].status \in {"completed", "halted", "cancelled"}
InCheckout(r) == run[r].kind = "checkout"

\* CHECKOUT_HELD_SQL
Holders == {r \in Runs : run[r].status # "unborn" /\ InCheckout(r) /\ ~run[r].released}

\* What enqueueRun writes and the intents and settlements of a run change.
RunRow == [kind : {"fresh", "dirty", "checkout"},
           status : {"unborn", "queued", "running", "paused",
                     "completed", "halted", "cancelled"},
           base : Content \cup {None}, head : Content, started : BOOLEAN,
           released : BOOLEAN, early : BOOLEAN,
           inbox : {None, "pending", "acted", "discarded"},
           recorded : Content \cup {None}, against : Content,
           dropped : BOOLEAN, gced : BOOLEAN]

\* A worktree: its files, and whether the bootstrap command went through.
Worktree == [has : Content, boot : BOOLEAN]

\* Runs are numbered from one, 0 being the operator; every run is asked for in
\* one of three ways, and None is no row, no content and no worktree.
CheckoutAssumption ==
    /\ Runs \subseteq Nat \ {0} /\ MaxWork \in Nat
    /\ RunPlans \subseteq [Runs -> {"fresh", "dirty", "checkout"}]
    /\ None \notin Runs /\ None \notin {"pending", "acted", "discarded"}
    /\ (\A X \in Content : X # None) /\ \A w \in Worktree : w # None

ASSUME CheckoutAssumed == CheckoutAssumption

\* The tip of a run's snapshot ref, the parent of its next snapshot.
SnapshotTip == Content \cup {None}

\* The base a run's cached environment was provisioned on.
ProvisionedBase == Content \cup {None}

\* A command: how far it is, for which run, on which capture.
ClientState == [pc : {"idle", "checked", "captured", "landing", "landed", "dropped"},
                of : Runs \cup {None}, cap : Content, stale : BOOLEAN]

\* Type invariant.
TypeOK ==
    /\ run \in [Runs -> RunRow]
    /\ wt \in [Runs -> Worktree \cup {None}]
    /\ snap \in [Runs -> SnapshotTip] /\ env \in [Runs -> ProvisionedBase]
    /\ fiber \in [Runs -> {"none", "boot", "on", "stepped",
                           "settle", "record", "dispose"}]
    /\ client \in [Clients -> ClientState]
    /\ committed \subseteq tree /\ tree \in Content /\ late \in Content
    /\ work \in [Runs -> 0 .. MaxWork]

Idle == [pc |-> "idle", of |-> None, cap |-> {}, stale |-> FALSE]

\* a new call takes the lowest free slot
Free(c) == client[c].pc = "idle" /\ \A d \in Clients : d < c => client[d].pc # "idle"

Init ==
    /\ \E plan \in RunPlans :
         /\ run = [r \in Runs |-> [kind |-> plan[r], status |-> "unborn", base |-> None, head |-> {},
                                   started |-> FALSE, released |-> FALSE, early |-> FALSE,
                                   inbox |-> None, recorded |-> None, against |-> {}, dropped |-> FALSE, gced |-> FALSE]]
         /\ tree = IF \E r \in Runs : plan[r] = "dirty" THEN {<<0, 1>>} ELSE {}
    /\ wt = [r \in Runs |-> None] /\ snap = [r \in Runs |-> None]
    /\ fiber = [r \in Runs |-> "none"] /\ env = [r \in Runs |-> None]
    /\ client = [c \in Clients |-> Idle]
    /\ committed = {}
    /\ work = [r \in Runs |-> 0] /\ late = {} /\ failed = {} /\ faults = 0 /\ verbs = 0

Fault == faults < MaxFaults /\ faults' = faults + 1
Verb == verbs < MaxVerbs /\ verbs' = verbs + 1

----------------------------------------------------------------------------
(* `fragua run`: check, capture, enqueue.                                  *)

\* inspectCheckout passed; the held pre-check of --checkout and --dirty
RunChecks(c, r) ==
    /\ Free(c) /\ run[r].status = "unborn" /\ \A d \in Clients : client[d].of # r
    /\ run[r].kind = "fresh" \/ Holders = {}
    /\ client' = [client EXCEPT ![c] = [Idle EXCEPT !.pc = "checked", !.of = r]]
    /\ UNCHANGED <<run, wt, snap, fiber, env, tree, committed, work, late, failed, faults, verbs>>

\* prepareDirtyBase, resolveHeadBase
RunCaptures(c) ==
    /\ client[c].pc = "checked"
    /\ client' = [client EXCEPT ![c].pc = "captured",
                    ![c].cap = IF run[client[c].of].kind = "dirty" THEN tree ELSE committed]
    /\ UNCHANGED <<run, wt, snap, fiber, env, tree, committed, work, late, failed, faults, verbs>>

\* the second held read is left out
FaultMayEnqueue(kind) == TRUE

\* enqueueRun reads the holder again under the write lock
MayEnqueue(kind) == kind # "checkout" \/ Holders = {}

\* a clean tree pins HEAD; an accept that read "not busy" before a checkout
\* run appears is stale from then on
RunEnqueues(c) ==
    LET r == client[c].of  k == run[r].kind  IN
    /\ client[c].pc = "captured"
    /\ run' = IF ~MayEnqueue(k) THEN run
              ELSE [run EXCEPT ![r].status = "queued", ![r].head = committed,
                               ![r].base = IF k = "checkout" THEN None ELSE client[c].cap,
                               ![r].kind = IF k = "dirty" /\ client[c].cap = committed THEN "fresh" ELSE k]
    /\ client' = [d \in Clients |-> IF d = c THEN Idle
                                    ELSE [client[d] EXCEPT !.stale = @ \/ k = "checkout"]]
    /\ UNCHANGED <<wt, snap, fiber, env, tree, committed, work, late, failed, faults, verbs>>

----------------------------------------------------------------------------
(* The daemon: ensureRunEnv, the turn loop, disposeTerminalWorktree.       *)

Move(r, from, to) == fiber[r] = from /\ fiber' = [fiber EXCEPT ![r] = to]

\* claimed and not folded away: ensureRunEnv
Claims(r) ==
    run[r].status = "queued" /\ run' = [run EXCEPT ![r].status = "running"]

\* every attach captures a base of its own
FaultAdopted(r) == tree

\* attachCheckout: adopt the recorded base, or capture one at first start
Adopted(r) == IF run[r].base # None THEN run[r].base ELSE tree

Attach(r) ==
    /\ InCheckout(r) /\ Claims(r) /\ Move(r, "none", "on")
    /\ env' = [env EXCEPT ![r] = IF @ # None THEN @ ELSE Adopted(r)]
    /\ UNCHANGED <<wt, snap, client, tree, committed, work, late, failed, faults, verbs>>

\* `git worktree add --detach <base>`; the bootstrap command follows
AddWorktree(r) ==
    /\ ~InCheckout(r) /\ env[r] = None /\ wt[r] = None /\ Claims(r) /\ Move(r, "none", "boot")
    /\ wt' = [wt EXCEPT ![r] = [has |-> run[r].base, boot |-> FALSE]]
    /\ UNCHANGED <<snap, env, client, tree, committed, work, late, failed, faults, verbs>>

\* the cached environment, or isExistingWorktree: reused without a bootstrap
ReuseWorktree(r) ==
    /\ ~InCheckout(r) /\ (env[r] # None \/ wt[r] # None) /\ Claims(r) /\ Move(r, "none", "on")
    /\ env' = [env EXCEPT ![r] = run[r].base]
    /\ UNCHANGED <<wt, snap, client, tree, committed, work, late, failed, faults, verbs>>

Bootstrap(r) ==
    /\ Move(r, "boot", "on")
    /\ wt' = [wt EXCEPT ![r].boot = TRUE] /\ env' = [env EXCEPT ![r] = run[r].base]
    /\ UNCHANGED <<run, snap, client, tree, committed, work, late, failed, faults, verbs>>

\* worktree_error: attach refused, add failed, bootstrap exited non-zero.  A
\* checkout run that never started frees its checkout.
ProvisionFails(r) ==
    /\ fiber[r] = "boot" \/ run[r].status = "queued"
    /\ Fault
    /\ fiber' = [fiber EXCEPT ![r] = "settle"]
    /\ run' = [run EXCEPT ![r].status = "halted", ![r].released = @ \/ run[r].base = None]
    /\ UNCHANGED <<wt, snap, env, client, tree, committed, work, late, failed, verbs>>

\* startRun: the recorded base, else the one the environment captured
StartBase(r) == IF run[r].base # None THEN run[r].base ELSE env[r]

Start(r) ==
    /\ fiber[r] = "on" /\ ~run[r].started
    /\ run' = [run EXCEPT ![r].started = TRUE, ![r].base = StartBase(r)]
    /\ UNCHANGED <<wt, snap, fiber, env, client, tree, committed, work, late, failed, faults, verbs>>

\* a handler changes the directory
Step(r) ==
    /\ run[r].started /\ work[r] < MaxWork /\ Move(r, "on", "stepped")
    /\ work' = [work EXCEPT ![r] = @ + 1]
    /\ IF InCheckout(r)
       THEN tree' = tree \cup {<<r, work'[r]>>} /\ wt' = wt
       ELSE wt' = [wt EXCEPT ![r].has = @ \cup {<<r, work'[r]>>}] /\ tree' = tree
    /\ UNCHANGED <<run, snap, env, client, committed, late, failed, faults, verbs>>

Dir(r) == IF InCheckout(r) THEN tree ELSE wt[r].has

\* captureBoundarySnapshot: best effort
Boundary(r) ==
    /\ Move(r, "stepped", "on")
    /\ \/ snap' = [snap EXCEPT ![r] = Dir(r)] /\ faults' = faults
       \/ snap' = snap /\ Fault
    /\ UNCHANGED <<run, wt, env, client, tree, committed, work, late, failed, verbs>>

\* a human gate or an operator pause; the environment survives
Park(r) ==
    /\ run[r].started /\ Verb /\ Move(r, "on", "none")
    /\ run' = [run EXCEPT ![r].status = "paused"]
    /\ UNCHANGED <<wt, snap, env, client, tree, committed, work, late, failed, faults>>

Resume(r) ==
    /\ run[r].status = "paused"
    /\ run' = [run EXCEPT ![r].status = "queued"]
    /\ UNCHANGED <<wt, snap, fiber, env, client, tree, committed, work, late, failed, faults, verbs>>

\* how a run ends matters to a checkout only
Finish(r, status) ==
    /\ run[r].started /\ (status = "halted" => InCheckout(r)) /\ Move(r, "on", "settle")
    /\ run' = [run EXCEPT ![r].status = status]
    /\ UNCHANGED <<wt, snap, env, client, tree, committed, work, late, failed, faults, verbs>>

\* a cancel folds before the environment is provisioned
Cancel(r) ==
    /\ run[r].status \in {"queued", "paused"} /\ Move(r, "none", "settle") /\ Verb
    /\ run' = [run EXCEPT ![r].status = "cancelled",
                          ![r].released = @ \/ (InCheckout(r) /\ run[r].base = None)]
    /\ UNCHANGED <<wt, snap, env, client, tree, committed, work, late, failed, faults>>

\* snapshot() finds no environment in the map and returns null
SettleSkips(r) ==
    /\ env[r] = None /\ Move(r, "settle", "none")
    /\ UNCHANGED <<run, wt, snap, env, client, tree, committed, work, late, failed, faults, verbs>>

SettleCapture(r) ==
    /\ env[r] # None /\ Move(r, "settle", "record")
    /\ snap' = [snap EXCEPT ![r] = Dir(r)]
    /\ UNCHANGED <<run, wt, env, client, tree, committed, work, late, failed, faults, verbs>>

\* a failed capture goes on to dispose
FaultAfterFailure == "dispose"

\* a failed capture or a lost race for the fact gates the dispose
AfterFailure == "none"

SettleFails(r) ==
    /\ fiber[r] \in {"settle", "record"} /\ env[r] # None /\ Fault
    /\ fiber' = [fiber EXCEPT ![r] = AfterFailure] /\ failed' = failed \cup {r}
    /\ UNCHANGED <<run, wt, snap, env, client, tree, committed, work, late, verbs>>

\* fact.snapshot_recorded and its fold: recoverable work enters the inbox, a
\* checkout run never does, and its recorded completion frees the checkout
Recorded(r) ==
    [run[r] EXCEPT !.recorded = snap[r], !.against = env[r],
        !.inbox = IF InCheckout(r) \/ snap[r] = run[r].base THEN None ELSE "pending",
        !.released = @ \/ (InCheckout(r) /\ run[r].status = "completed")]

SettleRecord(r) ==
    /\ Move(r, "record", "dispose")
    /\ run' = [run EXCEPT ![r] = Recorded(r)]
    /\ UNCHANGED <<wt, snap, env, client, tree, committed, work, late, failed, faults, verbs>>

\* the operator's checkout is never removed
Dispose(r) ==
    /\ Move(r, "dispose", "none")
    /\ env' = [env EXCEPT ![r] = None] /\ wt' = [wt EXCEPT ![r] = None]
    /\ UNCHANGED <<run, snap, client, tree, committed, work, late, failed, faults, verbs>>

\* the daemon dies; its successor's sweep requeues what was running
Crash ==
    /\ Fault
    /\ fiber' = [r \in Runs |-> "none"] /\ env' = [r \in Runs |-> None]
    /\ run' = [r \in Runs |-> IF run[r].status = "running" THEN [run[r] EXCEPT !.status = "queued"] ELSE run[r]]
    /\ UNCHANGED <<wt, snap, client, tree, committed, work, late, failed, verbs>>

----------------------------------------------------------------------------
(* Accept, discard, release, gc.                                           *)

\* commitCheckoutRelease: terminal, not yet released
Release(r) ==
    /\ InCheckout(r) /\ Terminal(r) /\ ~run[r].released /\ Verb
    /\ run' = [run EXCEPT ![r].released = TRUE, ![r].early = fiber[r] # "none"]
    /\ UNCHANGED <<wt, snap, fiber, env, client, tree, committed, work, late, failed, faults>>

\* checkGate
InInbox(r) == Terminal(r) /\ ~InCheckout(r) /\ run[r].inbox \in {"pending", "acted"}

\* readGate, buildRunActionGate: the state and the held read, once
AcceptGate(c, r) ==
    /\ Free(c) /\ InInbox(r) /\ Holders = {}
    /\ client' = [client EXCEPT ![c] = [Idle EXCEPT !.pc = "landing", !.of = r]]
    /\ UNCHANGED <<run, wt, snap, fiber, env, tree, committed, work, late, failed, faults, verbs>>

\* acceptDirtyBase: HEAD has not moved, every changed path still holds its
\* base content
DirtyLands(r) == committed = run[r].head /\ tree \cap (snap[r] \ run[r].base) = {}

\* acceptInner: a clean tree (or one that autostash parks) and no conflict
CleanLands(r) == tree \cap snap[r] \subseteq run[r].base

Lands(r) == snap[r] # None /\ IF run[r].kind = "dirty" THEN DirtyLands(r) ELSE CleanLands(r)

Effect(r) == snap[r] \ run[r].base

\* the whole effect lands, a dirty-base land may stop part-way, or it is refused
Land(c) ==
    LET r == client[c].of IN
    /\ client[c].pc = "landing"
    /\ \/ /\ Lands(r) /\ tree' = tree \cup Effect(r)
          /\ client' = [client EXCEPT ![c].pc = "landed"] /\ faults' = faults
       \/ /\ Lands(r) /\ run[r].kind = "dirty" /\ Fault
          /\ \E part \in SUBSET Effect(r) : part # Effect(r) /\ tree' = tree \cup part
          /\ client' = [client EXCEPT ![c] = Idle]
       \/ ~Lands(r) /\ tree' = tree /\ client' = [client EXCEPT ![c] = Idle] /\ faults' = faults
    /\ late' = IF client[c].stale THEN late \cup (tree' \ tree) ELSE late
    /\ UNCHANGED <<run, wt, snap, fiber, env, committed, work, failed, verbs>>

\* applyDiscard deletes the run's snapshot refs, then commits the intent
DiscardRefs(c, r) ==
    /\ Free(c) /\ InInbox(r)
    /\ client' = [client EXCEPT ![c] = [Idle EXCEPT !.pc = "dropped", !.of = r]]
    /\ snap' = [snap EXCEPT ![r] = None] /\ run' = [run EXCEPT ![r].dropped = TRUE]
    /\ UNCHANGED <<wt, fiber, env, tree, committed, work, late, failed, faults, verbs>>

\* the intent; processOperatorActions projects it, and discarded is final
RecordAction(c) ==
    /\ client[c].pc \in {"landed", "dropped"}
    /\ run' = [run EXCEPT ![client[c].of].inbox =
                 IF @ = "discarded" \/ client[c].pc = "dropped" THEN "discarded" ELSE "acted"]
    /\ client' = [client EXCEPT ![c] = Idle]
    /\ UNCHANGED <<wt, snap, fiber, env, tree, committed, work, late, failed, faults, verbs>>

\* a client that dies before it wrote anything is a refusal
ClientDies(c) ==
    /\ client[c].pc \in {"landed", "dropped"} /\ Fault
    /\ client' = [client EXCEPT ![c] = Idle]
    /\ UNCHANGED <<run, wt, snap, fiber, env, tree, committed, work, late, failed, verbs>>

\* getGcEligibleSnapshotRuns, past the retention window
GcEligible(r) ==
    Terminal(r) /\ run[r].inbox # "pending" /\ (InCheckout(r) => run[r].released)

Gc(r) ==
    /\ GcEligible(r) /\ fiber[r] = "none" /\ ~run[r].gced /\ Verb
    /\ snap' = [snap EXCEPT ![r] = None] /\ wt' = [wt EXCEPT ![r] = None]
    /\ run' = [run EXCEPT ![r].gced = TRUE]
    /\ UNCHANGED <<fiber, env, client, tree, committed, work, late, failed, faults>>

\* the operator commits what is in the checkout
OperatorCommits ==
    /\ tree # committed /\ committed' = tree /\ Verb
    /\ UNCHANGED <<run, wt, snap, fiber, env, client, tree, work, late, failed, faults>>

Fiber(r) ==
    \/ Attach(r) \/ AddWorktree(r) \/ ReuseWorktree(r) \/ Bootstrap(r) \/ Start(r)
    \/ Step(r) \/ Boundary(r) \/ SettleSkips(r) \/ SettleCapture(r) \/ SettleRecord(r) \/ Dispose(r)

Next ==
    \/ \E c \in Clients :
         \/ RunCaptures(c) \/ RunEnqueues(c) \/ Land(c) \/ RecordAction(c) \/ ClientDies(c)
         \/ \E r \in Runs : RunChecks(c, r) \/ AcceptGate(c, r) \/ DiscardRefs(c, r)
    \/ \E r \in Runs :
         \/ Fiber(r) \/ ProvisionFails(r) \/ Park(r) \/ Resume(r) \/ Cancel(r)
         \/ \E s \in {"completed", "halted"} : Finish(r, s)
         \/ SettleFails(r) \/ Release(r) \/ Gc(r)
    \/ Crash \/ OperatorCommits

Settling(r) == SettleSkips(r) \/ SettleCapture(r) \/ SettleRecord(r) \/ Dispose(r)

\* The daemon keeps running the fibers it has: a node process with pending
\* promises makes progress.  Clients and the operator owe nothing.
Fairness == \A r \in Runs : WF_vars(Settling(r))

Spec == Init /\ [][Next]_vars /\ Fairness

----------------------------------------------------------------------------
(* Properties.                                                             *)

\* A checkout has at most one holder, though every client checks before it
\* captures and enqueues (store-writer.ts, the held read under the lock).
OneHolder == Cardinality(Holders) <= 1

\* The base of a run never contains the run's own work, whatever crashes and
\* re-attaches happen: its diff would hide that work (attachCheckout adopts).
BaseFreeOfOwnWork ==
    \A r \in Runs : \A base \in {run[r].base, env[r]} : base # None => base \cap Own(r) = {}

\* A worktree with work in it is gone only when the projection records all of
\* that work, or gc took it from a run nobody waits for (disposeTerminalWorktree
\* is gated on the snapshot fact).
DisposedIsRecorded ==
    \A r \in Runs : (~InCheckout(r) /\ work[r] > 0 /\ wt[r] = None) =>
        \/ run[r].recorded # None /\ Own(r) \subseteq run[r].recorded
        \/ run[r].gced

\* Work that waits in the inbox can still be landed: its snapshot is there,
\* unless an operator's discard removed it (applyDiscard, gcCommand).
PendingIsThere ==
    \A r \in Runs : run[r].inbox = "pending" =>
        \/ snap[r] # None /\ Own(r) \subseteq snap[r]
        \/ run[r].dropped

\* Work is kept until somebody decides about it: a removed worktree's work is
\* recorded, and recorded work that waits in the inbox is still there.
WorkIsKept == DisposedIsRecorded /\ PendingIsThere

\* What a checkout run records as its own effect is its own: anything else was
\* landed by an accept that asked before the run was enqueued, or recorded
\* after the operator had freed the checkout early.
EffectIsOwn ==
    \A r \in Runs : (InCheckout(r) /\ run[r].recorded # None /\ ~run[r].early) =>
        run[r].recorded \ run[r].against \subseteq Own(r) \cup late

\* What a run starts from and what it ends with are kept apart from each other
\* and from other runs, across crashes, re-attaches, accepts and releases.
OwnWorkOnly == BaseFreeOfOwnWork /\ EffectIsOwn

\* One run at a time works in a checkout, what it records is its own, and no work
\* is lost before somebody decides about it.
CheckoutSafe == OneHolder /\ OwnWorkOnly /\ WorkIsKept

\* A completed checkout run frees its checkout by itself, unless the daemon
\* dies or the capture fails on the way (the fold of fact.snapshot_recorded).
CompletedReleases ==
    \A r \in Runs : (InCheckout(r) /\ run[r].status = "completed")
                        ~> (run[r].released \/ faults > 0)

\* docs/execution-model.md: "When the run reaches a terminal status, fragua
\* captures the worktree's full state before removing the worktree", and the
\* terminal snapshot is null "only for bare-cwd runs".
TerminalWorkCaptured ==
    \A r \in Runs : (~InCheckout(r) /\ Terminal(r) /\ fiber[r] = "none" /\ work[r] > 0
                     /\ r \notin failed /\ ~run[r].gced)
                        => run[r].recorded # None

\* docs/execution-model.md: the agent is told "if the project configures
\* bootstrap, that the command already ran".
BootstrapRan ==
    \A r \in Runs : (~InCheckout(r) /\ work[r] > 0 /\ wt[r] # None) => wt[r].boot
=============================================================================
