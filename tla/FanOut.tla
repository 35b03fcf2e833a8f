------------------------------- MODULE FanOut -------------------------------
(***************************************************************************)
(* One `type: parallel` region: the reactive frontier on the log, the pool *)
(* of branch handlers, the serialized commit lane and its conflict         *)
(* controller (daemon/src/fanout*.ts, occ-append.ts), and where the spend  *)
(* of every handler invocation ends up.                                    *)
(*                                                                         *)
(* A branch is a chain of nodes that ends at the join.  A handler          *)
(* invocation has an identity, so that spend can be followed: `counted`    *)
(* says how often it is on the log, `lost` which invocations the code has  *)
(* dropped.  Every disturbance (a conflict, a breach, a failing handler, a *)
(* crash, an operator pause) takes one unit of `faults`.                   *)
(***************************************************************************)
EXTENDS Integers, FiniteSets, Sequences, Functions

CONSTANTS
    Paths,        \* the branches: each a sequence of nodes, from its entry to the join
    Limit,        \* `concurrency`, the semaphore's limit
    OccCeiling,   \* OCC_CEILING
    AbortCeiling, \* abortLoopCeiling
    MaxLoops,     \* dispatches one fiber may make
    MaxFaults,    \* bound: disturbances in a behaviour
    None

Node     == UNION {Range(p) : p \in Paths}
Entries  == {Head(p) : p \in Paths}

VARIABLES
    status, cur, frontier, last, done,     \* the log's projection
    counted, lost, raised,
    pc, pool, bailed, tripped, disp, noted, \* the superstep
    fold, batch,
    parked, conflicts, streak, loops,       \* the fiber (RunTurnState, OCC)
    ninv, faults

log   == <<status, cur, frontier, last, done, counted, raised>>
step  == <<pc, pool, bailed, tripped, disp, noted, fold, batch>>
fiber == <<parked, conflicts, streak, loops>>
vars  == <<log, lost, step, fiber, ninv, faults>>

\* the invocations that have started
Inv == 1 .. ninv

-----------------------------------------------------------------------------
(* Outcomes of one branch handler, and the run-level fact each carries.     *)

Finished == {"ok", "again", "held", "stray"}         \* node_completed
Exits    == {"abort", "timeout", "budget", "throw", "leak"} \* node_aborted
Outcomes == Finished \cup Exits

\* What the constants are: a branch is a chain of distinct nodes, the branches are disjoint
\* (the validator's E044), the limits are numbers, and None is nothing it could be mistaken for.
RegionAssumption ==
    /\ IsFiniteSet(Paths)
    /\ \A p \in Paths : p \in Seq(Node) /\ p # << >>
    /\ \A p, q \in Paths : \A i \in DOMAIN p, j \in DOMAIN q : p[i] = q[j] => p = q /\ i = j
    /\ {Limit, OccCeiling, AbortCeiling, MaxLoops, MaxFaults} \subseteq Nat
    /\ None \notin Node /\ \A S \in SUBSET Node : S # None
    /\ None \notin [inv : Nat, st : Outcomes \cup {"wait", "run"}]
    /\ None \notin [spend : SUBSET Nat, rank : -1 .. 3]

ASSUME RegionAssumed == RegionAssumption

\* dispositionRank of the fact an outcome contributes; -1 when it has none
Rank(o) == CASE o \in {"throw", "leak", "stray"} -> 3
             [] o = "budget" -> 2
             [] o = "held" -> 1
             [] o \in {"again", "timeout"} -> 0
             [] OTHER -> -1

NoteDisposition(current, incoming) ==
    IF incoming > current THEN incoming ELSE current

\* the status a disposition of each rank parks or ends the run in
StatusOf(rank) == CASE rank = 3 -> "halted" [] rank = 0 -> "auto" [] OTHER -> "paused"

\* the successor to dispatch: the node itself, the next one, or the join (None)
SuccessorOf(n, o) ==
    LET p == CHOOSE q \in Paths : n \in Range(q)
        i == CHOOSE j \in DOMAIN p : p[j] = n
    IN CASE o \in {"again", "held"} -> n
         [] o = "ok" /\ i < Len(p) -> p[i + 1]
         [] OTHER -> None

-----------------------------------------------------------------------------
(* The reducer's arms for the facts a region commits.                       *)

\* node_completed with its bundled dispatch_started
FrontierAfter(n, s) ==
    (frontier \ {n}) \cup (IF s = None THEN {} ELSE {s})

LastAfter(n, o, s) ==
    [m \in Node |-> IF m = s THEN "started"
                    ELSE IF m # n THEN last[m]
                    ELSE IF o \in Finished THEN "completed" ELSE "aborted"]

Count(invs) == [i \in Inv |-> IF i \in invs THEN counted[i] + 1 ELSE counted[i]]

\* Fault: a commit drops the fold it should carry.
FaultTakeFold == fold' = FALSE /\ UNCHANGED raised

\* a commit of the superstep carries the operator fold if it is still pending
TakeFold == /\ raised' = IF fold THEN "applied" ELSE raised
            /\ fold' = FALSE
ConsumeFold == fold' = FALSE /\ UNCHANGED raised

-----------------------------------------------------------------------------
(* The pool.  pool[n] is None, or the invocation of n and where it stands.  *)

Members    == {n \in Node : pool[n] # None}
InState(S) == {n \in Members : pool[n].st \in S}
Waiting    == InState({"wait"})
Running    == InState({"run"})
Settled    == InState(Outcomes)
InvsOf(S)  == {pool[n].inv : n \in S}
Spending   == InvsOf(Running \cup Settled)
EmptyPool  == [n \in Node |-> None]

\* a member of the pool; it has no invocation until it gets its slot
Handler == [inv : {0}, st : {"wait"}] \cup [inv : Inv, st : Outcomes \cup {"run"}]
\* what one commit of the serialized lane carries
Batch   == [spend : SUBSET Inv, rank : -1 .. 3]

\* poolDispatch: nothing after a budget trip; the loop ceiling is a pause
Dispatch(p, S, count) ==
    IF tripped THEN [p |-> p, loops |-> count, rank |-> -1]
    ELSE LET room == MaxLoops - count
             take == CHOOSE T \in SUBSET S : Cardinality(T) =
                        IF Cardinality(S) <= room THEN Cardinality(S) ELSE room
         IN [p |-> [n \in Node |-> IF n \in take THEN [inv |-> 0, st |-> "wait"] ELSE p[n]],
             loops |-> count + Cardinality(take),
             rank |-> IF take = S THEN -1 ELSE 1]

Init ==
    /\ ninv = 0 /\ status = "queued" /\ cur = "fan" /\ frontier = None
    /\ last = [n \in Node |-> "none"] /\ done = {}
    /\ counted = [i \in Inv |-> 0] /\ lost = {} /\ raised = "none"
    /\ pc = "off" /\ pool = EmptyPool /\ bailed = FALSE /\ tripped = FALSE
    /\ disp = -1 /\ noted = {} /\ fold = FALSE /\ batch = None
    /\ parked = None /\ conflicts = 0 /\ streak = [n \in Node |-> 0] /\ loops = 0
    /\ faults = MaxFaults

\* what a discarded batch or pool takes with it
Lose(invs, why) == lost' = lost \cup {[inv |-> i, why |-> why] : i \in invs}
SpendOf(b) == IF b = None THEN {} ELSE b.spend

Fault == faults > 0 /\ faults' = faults - 1

\* the claim: a fresh fiber with a fresh RunTurnState and conflict controller
Claim ==
    /\ pc = "off" /\ status = "queued"
    /\ status' = "running" /\ pc' = "idle"
    /\ parked' = None /\ conflicts' = 0 /\ streak' = [n \in Node |-> 0] /\ loops' = 0
    /\ UNCHANGED <<cur, frontier, last, done, counted, raised, lost, pool, bailed,
                   tripped, disp, noted, fold, batch, ninv, faults>>

\* the fiber is gone; whatever its memory held goes with it
FiberEnds == /\ pc' = "off" /\ pool' = EmptyPool /\ batch' = None /\ parked' = None
             /\ disp' = -1 /\ fold' = FALSE /\ bailed' = FALSE /\ tripped' = FALSE
             /\ UNCHANGED <<conflicts, streak, loops>>

\* an operator raises a cap while the region is open
Raise ==
    /\ raised = "none" /\ Fault /\ raised' = "queued"
    /\ UNCHANGED <<status, cur, frontier, last, done, counted, lost, step, fiber, ninv>>

\* the turn's head folds a queued pause before the region is entered
OperatorPause ==
    /\ pc = "idle" /\ Fault
    /\ status' = "paused" /\ FiberEnds
    /\ raised' = IF raised = "queued" THEN "applied" ELSE raised
    /\ Lose(SpendOf(parked), "dropped")
    /\ UNCHANGED <<cur, frontier, last, done, counted, noted, ninv>>

\* the timer of an auto-wake pause, or the operator's resume
Wake ==
    /\ status \in {"auto", "paused"}
    /\ status' = "queued"
    /\ UNCHANGED <<cur, frontier, last, done, counted, raised, lost, step, fiber, ninv, faults>>

\* the process dies; the sweep requeues the run
Crash ==
    /\ pc # "off" /\ status = "running" /\ Fault
    /\ status' = "queued" /\ FiberEnds
    /\ Lose(Spending \cup SpendOf(batch) \cup SpendOf(parked), "crash")
    /\ UNCHANGED <<cur, frontier, last, done, counted, raised, noted, ninv>>

-----------------------------------------------------------------------------
(* runFanout: one superstep, planFanoutStep's order.                        *)

Enter == pc = "idle" /\ status = "running" /\ cur = "fan"
Fresh == parked = None
Live  == IF frontier = None THEN {} ELSE frontier
Aborted == {n \in Live : last[n] = "aborted"}     \* abortedActiveBranches

\* a conflict of a commit that carries no spend: back off, or halt at the ceiling
Conflicted ==
    /\ Fault /\ conflicts' = conflicts + 1 /\ ConsumeFold
    /\ IF conflicts + 1 < OccCeiling
       THEN pc' = "idle" /\ UNCHANGED status
       ELSE pc' = "off" /\ status' \in {"halted", "queued"}
    /\ UNCHANGED <<cur, frontier, last, done, counted, lost, pool, bailed, tripped,
                   disp, noted, batch, parked, streak, loops, ninv>>

SeedFrontier ==
    /\ Enter /\ Fresh /\ frontier = None
    /\ frontier' = Entries
    /\ raised' = IF raised = "queued" THEN "applied" ELSE raised
    /\ UNCHANGED <<status, cur, last, done, counted, lost, step, fiber, ninv, faults>>

\* Fault: the first branch to reach the join opens it.
FaultAdvanceJoin ==
    /\ Enter /\ Fresh /\ frontier \notin {None, Entries} /\ UNCHANGED raised
    /\ cur' = "join" /\ frontier' = None /\ conflicts' = 0 /\ pc' = "off"
    /\ UNCHANGED <<status, last, done, counted, lost, pool, bailed, tripped, disp,
                   noted, fold, batch, parked, streak, loops, ninv, faults>>

\* the drained frontier: the budget first, then a deferred pause or the join
AdvanceJoin ==
    /\ Enter /\ Fresh /\ frontier = {}
    /\ raised' = IF raised = "queued" THEN "applied" ELSE raised
    /\ cur' = "join" /\ frontier' = None /\ conflicts' = 0 /\ pc' = "off"
    /\ UNCHANGED <<status, last, done, counted, lost, pool, bailed, tripped, disp,
                   noted, fold, batch, parked, streak, loops, ninv, faults>>

JoinBreach ==
    /\ Enter /\ Fresh /\ frontier = {} /\ Fault
    /\ fold' = (raised = "queued")
    /\ pc' = "commit" /\ batch' \in [spend : {{}}, rank : {2, 3}] /\ noted' = {batch'.rank}
    /\ UNCHANGED <<log, lost, pool, bailed, tripped, disp, fiber, ninv>>

\* a pause deferred behind steering parks the run instead of joining
JoinPause ==
    /\ Enter /\ Fresh /\ frontier = {} /\ Fault
    /\ status' = "paused" /\ pc' = "off" /\ conflicts' = 0
    /\ raised' = IF raised = "queued" THEN "applied" ELSE raised
    /\ UNCHANGED <<cur, frontier, last, done, counted, lost, pool, bailed, tripped, disp,
                   noted, fold, batch, parked, streak, loops, ninv>>

EnterConflict ==
    /\ Enter /\ Fresh
    /\ Live = {} \/ Aborted # {}
    /\ Conflicted

\* abortedActiveBranches are re-marked, and the live frontier enters the pool
EnterPool ==
    /\ Enter /\ Fresh /\ Live # {}
    /\ LET d == Dispatch(EmptyPool, frontier, loops)
       IN /\ last' = [n \in Node |-> IF n \in Aborted THEN "started" ELSE last[n]]
          /\ pool' = d.p /\ loops' = d.loops /\ disp' = d.rank
          /\ noted' = {d.rank} \ {-1}
          /\ IF Aborted # {} /\ raised = "queued"
             THEN raised' = "applied" /\ fold' = FALSE
             ELSE fold' = (raised = "queued") /\ UNCHANGED raised
    /\ pc' = "pool" /\ bailed' = FALSE /\ tripped' = FALSE
    /\ UNCHANGED <<status, cur, frontier, done, counted, lost, batch, parked,
                   conflicts, streak, ninv, faults>>

Acquire(n) ==
    /\ n \in Waiting /\ Cardinality(Running) < Limit
    /\ IF bailed
       THEN pool' = [pool EXCEPT ![n] = None] /\ UNCHANGED <<ninv, counted>>
       ELSE /\ ninv' = ninv + 1 /\ pool' = [pool EXCEPT ![n] = [inv |-> ninv + 1, st |-> "run"]]
            /\ counted' = [i \in 1 .. ninv + 1 |-> IF i \in Inv THEN counted[i] ELSE 0]
    /\ UNCHANGED <<status, cur, frontier, last, done, raised, lost, pc, bailed, tripped, disp, noted, fold, batch, fiber, faults>>

\* a handler ends; its budget gate may be what ended it, and then stops them all
Finish(n, o) ==
    /\ n \in Running
    /\ \/ o = "ok" /\ UNCHANGED faults
       \/ o = "abort" /\ (bailed \/ tripped) /\ UNCHANGED faults
       \/ o # "ok" /\ (o = "budget" => ~tripped) /\ Fault
    /\ pool' = [pool EXCEPT ![n].st = o]
    /\ tripped' = (tripped \/ o = "budget")
    /\ UNCHANGED <<log, lost, pc, bailed, disp, noted, fold, batch, fiber, ninv>>

\* settleBranch and settleExit: the branch's own commit lands
SettleLands(n) ==
    /\ pc = "pool" /\ n \in Settled
    /\ LET o == pool[n].st
           s == SuccessorOf(n, o)
       IN /\ o \notin {"throw", "leak"}
          /\ frontier' = IF o \in Finished THEN FrontierAfter(n, s) ELSE frontier
          /\ last' = LastAfter(n, o, s)
          /\ done' = IF o = "ok" THEN done \cup {n} ELSE done
          /\ counted' = Count({pool[n].inv})
          /\ TakeFold
          /\ streak' = IF o = "abort" THEN [streak EXCEPT ![n] = @ + 1]
                       ELSE IF o \in Finished THEN [streak EXCEPT ![n] = 0] ELSE streak
          /\ \E breach \in {-1, 2, 3} :   \* captureDisposition
               LET noteds == {Rank(o), breach} \ {-1}
                   slot == NoteDisposition(NoteDisposition(disp, Rank(o)), breach)
                   go == IF o \in Finished /\ s # None /\ slot = -1
                         THEN Dispatch([pool EXCEPT ![n] = None], {s}, loops)
                         ELSE [p |-> [pool EXCEPT ![n] = None], loops |-> loops, rank |-> -1]
               IN /\ IF breach # -1 THEN Fault ELSE UNCHANGED faults
                  /\ pool' = go.p /\ loops' = go.loops
                  /\ disp' = NoteDisposition(slot, go.rank)
                  /\ noted' = noted \cup noteds \cup ({go.rank} \ {-1})
                  /\ IF slot = 3 /\ o \in Finished
                     THEN pc' = "bail" /\ bailed' = TRUE /\ batch' = [spend |-> {}, rank |-> 3]
                     ELSE UNCHANGED <<pc, bailed, batch>>
    /\ UNCHANGED <<status, cur, lost, tripped, parked, conflicts, ninv>>

\* bailOnExitHalt: the halting exit's own facts wait for the siblings
SettleHalts(n) ==
    /\ pc = "pool" /\ n \in Settled /\ pool[n].st \in {"throw", "leak"}
    /\ pc' = "bail" /\ bailed' = TRUE /\ noted' = noted \cup {3}
    /\ disp' = 3
    /\ batch' = [spend |-> {pool[n].inv}, rank |-> 3]
    /\ pool' = [pool EXCEPT ![n] = None]
    /\ UNCHANGED <<log, lost, tripped, fold, fiber, ninv, faults>>

\* the branch's commit loses its race: abort the pool, then drain it
SettleConflicts(n) ==
    /\ pc = "pool" /\ n \in Settled /\ pool[n].st \notin {"throw", "leak"}
    /\ Fault /\ conflicts' = conflicts + 1 /\ ConsumeFold
    /\ LET mine == {pool[n].inv}
           siblings == Spending \ mine
       IN IF conflicts + 1 < OccCeiling
          THEN /\ pc' = "drain" /\ batch' = [spend |-> mine, rank |-> -1] /\ bailed' = TRUE
               /\ pool' = [pool EXCEPT ![n] = None] /\ disp' = -1
               /\ UNCHANGED <<status, counted, lost, tripped, parked>>
          ELSE /\ \/ status' = "halted" /\ counted' = Count(mine) /\ Lose(siblings, "drained")
                  \/ status' = "queued" /\ Lose(Spending, "abandoned") /\ UNCHANGED counted
               /\ pc' = "off" /\ pool' = EmptyPool /\ batch' = None /\ parked' = None
               /\ disp' = -1 /\ bailed' = FALSE /\ tripped' = FALSE
    /\ UNCHANGED <<cur, frontier, last, done, noted, streak, loops, ninv>>

\* the store throws: the pool is drained and the crash halt carries what was held
SettleThrows(n) ==
    /\ pc = "pool" /\ n \in Settled /\ pool[n].st \notin {"throw", "leak"} /\ Fault
    /\ status' = "halted" /\ counted' = Count({pool[n].inv})
    /\ Lose(Spending \ {pool[n].inv}, "thrown")
    /\ FiberEnds
    /\ UNCHANGED <<cur, frontier, last, done, raised, noted, ninv>>

\* drainInflightPool after a non-halting failure: all outcomes are dropped, and
\* the loser's spend is committed on its own (commitSpend), or never
Drain ==
    /\ pc = "drain"
    /\ \/ Running = {} /\ Waiting = {} /\ UNCHANGED faults
       \/ Running # {} /\ Fault           \* leakGrace passed
    /\ \/ counted' = Count(batch.spend) /\ Lose(Spending, "drained")
       \/ faults' < faults /\ UNCHANGED counted /\ Lose(Spending \cup batch.spend, "drained")
    /\ pc' = "idle" /\ pool' = EmptyPool /\ batch' = None /\ disp' = -1
    /\ UNCHANGED <<status, cur, frontier, last, done, raised, bailed, tripped, noted,
                   fold, fiber, ninv>>

\* drainInflightPool before a terminal: what settled and what still runs is credited
Bail ==
    /\ pc = "bail"
    /\ \/ Running = {} /\ Waiting = {} /\ UNCHANGED faults
       \/ Running # {} /\ Fault
    /\ batch' = [batch EXCEPT !.spend = @ \cup Spending]
    /\ noted' = noted \cup ({Rank(pool[n].st) : n \in Settled} \ {-1})
    /\ pool' = EmptyPool /\ pc' = "commit"
    /\ UNCHANGED <<log, lost, bailed, tripped, disp, fold, fiber, ninv>>

\* the pool is empty: its disposition, an abort loop, the barrier's budget, or go on
PoolEmpty ==
    /\ pc = "pool" /\ Members = {}
    /\ LET loop == \E n \in Node : streak[n] >= AbortCeiling
           rank == IF disp # -1 THEN disp ELSE IF loop THEN 1 ELSE -1
       IN /\ IF rank # -1
             THEN pc' = "commit" /\ batch' = [spend |-> {}, rank |-> rank] /\ UNCHANGED faults
             ELSE \/ pc' = "idle" /\ UNCHANGED <<batch, faults>>
                  \/ /\ \A n \in Node : streak[n] = 0
                     /\ Fault /\ pc' = "commit" /\ batch' \in [spend : {{}}, rank : {2, 3}]
          /\ noted' = IF pc' = "commit" THEN noted \cup {batch'.rank} ELSE noted
    /\ disp' = -1
    /\ UNCHANGED <<log, lost, pool, bailed, tripped, fold, fiber, ninv>>

\* the park lane keeps an earlier lost disposition for this turn's first commit
Recommit ==
    /\ Enter /\ ~Fresh
    /\ pc' = "commit" /\ batch' = parked /\ fold' = (raised = "queued")
    /\ UNCHANGED <<log, lost, pool, bailed, tripped, disp, noted, fiber, ninv, faults>>

\* Fault: the re-commit parks the batch again whatever became of it.
FaultCommitLands ==
    /\ pc = "commit" /\ pc' = "idle" /\ batch' = None /\ parked' = batch /\ disp' = -1
    /\ bailed' = FALSE /\ tripped' = FALSE /\ UNCHANGED <<status, counted>> /\ TakeFold
    /\ UNCHANGED <<cur, frontier, last, done, lost, pool, noted, conflicts, streak,
                   loops, ninv, faults>>

CommitLands ==
    /\ pc = "commit"
    /\ status' = StatusOf(batch.rank) /\ counted' = Count(batch.spend) /\ TakeFold
    /\ pc' = "off" /\ batch' = None /\ parked' = None /\ disp' = -1
    /\ bailed' = FALSE /\ tripped' = FALSE
    /\ UNCHANGED <<cur, frontier, last, done, lost, pool, noted, conflicts, streak,
                   loops, ninv, faults>>

\* Fault: the parked batch's spend is also committed alone.
FaultCommitConflicts ==
    /\ pc = "commit" /\ Fault /\ conflicts' = conflicts + 1 /\ ConsumeFold
    /\ pc' = "idle" /\ parked' = batch /\ counted' = Count(batch.spend)
    /\ batch' = None /\ disp' = -1 /\ bailed' = FALSE /\ tripped' = FALSE
    /\ UNCHANGED <<status, lost, cur, frontier, last, done, pool, noted, streak, loops, ninv>>

\* below the ceiling the batch is parked; at it the run halts with the spend, or
\* the fiber gives its claim back
CommitConflicts ==
    /\ pc = "commit" /\ Fault /\ conflicts' = conflicts + 1 /\ ConsumeFold
    /\ IF conflicts + 1 < OccCeiling
       THEN pc' = "idle" /\ parked' = batch /\ UNCHANGED <<status, counted, lost>>
       ELSE /\ pc' = "off" /\ parked' = None
            /\ \/ status' = "halted" /\ counted' = Count(batch.spend) /\ UNCHANGED lost
               \/ status' = "queued" /\ Lose(batch.spend, "abandoned") /\ UNCHANGED counted
    /\ batch' = None /\ disp' = -1 /\ bailed' = FALSE /\ tripped' = FALSE
    /\ UNCHANGED <<cur, frontier, last, done, pool, noted, streak, loops, ninv>>

Progress ==
    \/ Claim \/ SeedFrontier \/ AdvanceJoin \/ EnterPool \/ Drain \/ Bail \/ PoolEmpty
    \/ Recommit \/ CommitLands
    \/ \E n \in Node : SettleLands(n) \/ SettleHalts(n) \/ Acquire(n)
Handlers == \E n \in Node, o \in Outcomes : Finish(n, o)
Trouble ==
    \/ Raise \/ OperatorPause \/ Crash \/ JoinBreach \/ JoinPause \/ EnterConflict \/ CommitConflicts
    \/ \E n \in Node : SettleConflicts(n) \/ SettleThrows(n)
Over == status = "halted" \/ cur = "join"
Ended == Over /\ pc = "off" /\ UNCHANGED vars
Next == Progress \/ Handlers \/ Wake \/ Trouble \/ Ended
\* the fiber's continuations run, every handler has a deadline, and a timer fires;
\* nobody promises that an operator resumes a paused run
Fairness == WF_vars(Progress) /\ WF_vars(Handlers) /\ WF_vars(status = "auto" /\ Wake)
Spec == Init /\ [][Next]_vars /\ Fairness

-----------------------------------------------------------------------------
\* Every variable keeps its type.
TypeOK ==
    /\ status \in {"queued", "running", "auto", "paused", "halted"} /\ cur \in {"fan", "join"}
    /\ frontier \in (SUBSET Node) \cup {None} /\ done \in SUBSET Node
    /\ last \in [Node -> {"none", "started", "aborted", "completed"}]
    /\ ninv \in Nat /\ counted \in [Inv -> Nat] /\ raised \in {"none", "queued", "applied"}
    /\ lost \in SUBSET [inv : Inv, why : {"crash", "thrown", "drained", "abandoned", "dropped"}]
    /\ pc \in {"off", "idle", "pool", "drain", "bail", "commit"}
    /\ pool \in [Node -> Handler \cup {None}]
    /\ batch \in Batch \cup {None} /\ parked \in Batch \cup {None}
    /\ disp \in -1 .. 3 /\ noted \in SUBSET (0 .. 3)
    /\ bailed \in BOOLEAN /\ tripped \in BOOLEAN /\ fold \in BOOLEAN
    /\ conflicts \in Nat /\ streak \in [Node -> Nat] /\ loops \in 0 .. MaxLoops
    /\ faults \in 0 .. MaxFaults

\* No handler invocation is on the run's totals twice, whatever mixture of conflict,
\* park, bail and re-commit its facts went through (occ-append.ts, planBailSettlement).
SpendOnce == \A i \in Inv : counted[i] <= 1

\* Every invocation that started is on the totals, or still on its way there, or in
\* one of the losses the code is known to have: a dead process, a sibling drained after
\* a conflict or a throw, an abandoned batch, a parked one an operator pause drops.
SpendAccounted ==
    \A i \in Inv : \/ counted[i] = 1
                  \/ i \in Spending \cup SpendOf(batch) \cup SpendOf(parked)
                  \/ \E l \in lost : l.inv = i

\* The spend of a handler is settled once: never counted twice, never gone
\* without one of the known losses (SpendOnce and SpendAccounted together).
SpendSettled == SpendOnce /\ SpendAccounted

\* The statement of docs/SPEC.md I15 (a handler's spend is committed
\* on every exit), for a region in which nothing crashes, throws or gives up.
SpendOnEveryExit == \A l \in lost : l.why # "drained"

\* a branch an unvalidated workflow led to a terminal: the fail-closed halt that ends the
\* run is a second commit, and a crash before it leaves the branch off the frontier
Strayed(p) == \E n \in Range(p) : last[n] = "completed" /\ n \notin done

\* A branch is never lost and never doubled: while the region is open each branch has
\* one node on the frontier, everything before it completed and nothing after it, or it
\* has reached the join (the bundled dispatch_started, across crashes and conflicts).
OneTokenPerBranch ==
    frontier # None /\ status # "halted" =>
        \A p \in {q \in Paths : ~Strayed(q)} : \E i \in 1 .. Len(p) + 1 :
            /\ done \cap Range(p) = {p[j] : j \in 1 .. i - 1}
            /\ frontier \cap Range(p) = IF i <= Len(p) THEN {p[i]} ELSE {}

\* The join is a barrier: past it every node has completed and no handler of the region runs.
JoinIsBarrier ==
    cur = "join" => /\ \A p \in Paths : Strayed(p) \/ Range(p) \subseteq done
                    /\ Running = {} /\ frontier = None

\* A pause that wakes by itself never hides one the operator must answer, nor any pause a
\* halt: what a superstep commits ranks at least as high as all its branches reported.
NothingMasked == pc = "commit" => \A r \in noted : r <= batch.rank

\* The region as a whole: a token per branch, a join that is a barrier, and no
\* disposition of a branch hidden behind a weaker one.
RegionSafe == OneTokenPerBranch /\ JoinIsBarrier /\ NothingMasked

\* The operator's fold lands with the first commit of the superstep that read it.
FoldRides ==
    [][fold /\ status' # "halted"
            /\ ((\E i \in Inv : counted'[i] # counted[i]) \/ status' \in {"auto", "paused"})
          => raised' = "applied"]_vars

\* The region ends: it joins, halts, or rests at a pause only an operator can lift.
RegionSettles == <>[](Over \/ status = "paused")
=============================================================================
