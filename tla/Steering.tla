------------------------------ MODULE Steering ------------------------------
(***************************************************************************)
(* How an operator's steer reaches the models of a run: the supervisor     *)
(* that forwards it into live agents, the registry that broadcasts or      *)
(* buffers it, the intent fold that hands it to the next dispatch as       *)
(* ctx.steering, and routing's pending_steer that carries it across turns  *)
(* (packages/agent/src/steering-registry.ts, packages/daemon/src/          *)
(* supervisor.ts, steer-delivery.ts, dispatch-turn.ts, fanout.ts).         *)
(*                                                                         *)
(* One run walks through Stages; a stage is the set of steps dispatched    *)
(* together, a single step or the branches of a parallel region. Steers    *)
(* are numbered by their place in the log and are the only intents. A      *)
(* parked run is one whose next turn does not begin.                       *)
(***************************************************************************)
EXTENDS Naturals, Sequences, FiniteSets

CONSTANTS Stages,     \* the steps dispatched together, stage by stage
          LlmNodes,   \* the steps that run a model; the others are tool steps
          BufferCap,  \* MAX_BUFFERED_STEERS
          MaxSteers,  \* bound: steers the operator issues
          MaxFaults   \* bound: crashes, and dispatches that end without a success

Nodes == UNION {Stages[i] : i \in DOMAIN Stages}
Steers == 1 .. MaxSteers

\* There is a step to dispatch, and a region has finitely many branches.
SteeringAssumption ==
    /\ Len(Stages) \in Nat \ {0} /\ DOMAIN Stages = 1 .. Len(Stages)
    /\ \A i \in DOMAIN Stages : IsFiniteSet(Stages[i])
    /\ BufferCap \in Nat /\ MaxSteers \in Nat /\ MaxFaults \in Nat

VARIABLES pc,       \* where the run's fiber is: queued, turn, busy or ended
          stage,    \* the current stage
          frontier, \* a parallel region: the branches still to complete; else none
          issued,   \* how many steers the log holds
          applied,  \* last_applied_seq
          pending,  \* the steers in routing's internal.pending_steer
          upTo,     \* the watermark the turn in flight commits
          given,    \* ctx.steering of each handler in flight
          agent,    \* each step's handler: out, preparing, live or done
          queue,    \* steers in the queue of each live agent
          buffer,   \* the registry's pendingSteers
          seen,     \* the supervisor's lastIntentSeq
          heard,    \* the steers in the transcript of each step
          missed,   \* steers broadcast while a branch in flight was not yet live
          waived,   \* steers applied by a commit that delivers them to nobody
          faults    \* crashes and failed dispatches so far

run == <<pc, stage, frontier>>
log == <<issued, applied, pending>>
turn == <<upTo, given>>
registry == <<queue, buffer, seen>>
vars == <<run, log, turn, agent, registry, heard, missed, waived, faults>>

Empty == [n \in Nodes |-> {}]
NoFrontier == {"none"}

Parallel(i) == Cardinality(Stages[i]) > 1

\* getUnappliedIntents: what the watermark has not passed.
Unapplied == applied + 1 .. issued

Live == {n \in Nodes : agent[n] = "live"}
InFlight == {n \in Nodes : agent[n] \in {"preparing", "live"}}
Heard == UNION {heard[n] : n \in Nodes}

Init ==
    /\ pc = "queued" /\ stage = 1 /\ frontier = NoFrontier
    /\ issued = 0 /\ applied = 0 /\ pending = {}
    /\ upTo = 0 /\ given = Empty
    /\ agent = [n \in Nodes |-> "out"]
    /\ queue = Empty /\ buffer = <<>> /\ seen = 0
    /\ heard = Empty /\ missed = Empty /\ waived = {} /\ faults = 0

----------------------------------------------------------------------------
\* The operator

\* intent.steering_requested is appended in any status but an ended one.
Issue ==
    /\ pc # "ended"
    /\ issued < MaxSteers
    /\ issued' = issued + 1
    /\ UNCHANGED <<run, applied, pending, turn, agent, registry, heard, missed, waived, faults>>

----------------------------------------------------------------------------
\* The registry

\* steer() with nobody live, for each of the steers lo .. issued: the buffer
\* keeps the newest BufferCap.
Buffered(lo) ==
    LET all == buffer \o [i \in 1 .. issued + 1 - lo |-> lo + i - 1]
    IN  SubSeq(all, IF Len(all) > BufferCap THEN Len(all) + 1 - BufferCap ELSE 1, Len(all))

\* beginRun: a new agent joins the live set and is handed the whole buffer,
\* which survives for the branches that register after it.
Drained(n) == {buffer[i] : i \in DOMAIN buffer}

\* endRun: the last agent out drops the buffer.
AfterEnd(n) == IF Live \ {n} = {} THEN <<>> ELSE buffer

\* One supervisor tick while a handler is registered: every unapplied steer it
\* has not seen goes to every live agent, or to the buffer when none is live.
\* That includes a steer the turn in flight has folded and not yet committed.
\* The receipt, fact.steering_applied, changes no state.
Supervise ==
    LET lo == 1 + (IF seen > applied THEN seen ELSE applied)
    IN  /\ InFlight # {}
        /\ lo <= issued
        /\ seen' = issued
        /\ IF Live # {}
           THEN /\ queue' = [n \in Nodes |-> IF n \in Live THEN queue[n] \union lo .. issued ELSE queue[n]]
                /\ missed' = [n \in Nodes |-> IF n \in LlmNodes /\ agent[n] = "preparing"
                                              THEN missed[n] \union lo .. issued ELSE missed[n]]
                /\ UNCHANGED buffer
           ELSE /\ buffer' = Buffered(lo)
                /\ UNCHANGED <<queue, missed>>
        /\ UNCHANGED <<run, log, turn, agent, heard, waived, faults>>

----------------------------------------------------------------------------
\* The turn loop

\* The run-start turn folds what was queued before the claim, applies all of it
\* and stashes the steers in pending_steer.
RunStart ==
    /\ pc = "queued"
    /\ pc' = "turn"
    /\ applied' = issued
    /\ pending' = Unapplied
    /\ UNCHANGED <<stage, frontier, issued, turn, agent, registry, heard, missed, waived, faults>>

\* A turn dispatches its handlers: the one step, or the live frontier. Each is
\* handed the pending steers and the ones this turn folds.
Dispatch ==
    LET who == IF Parallel(stage) THEN frontier ELSE Stages[stage]
    IN  /\ pc = "turn"
        /\ Parallel(stage) => frontier # NoFrontier /\ frontier # {}
        /\ pc' = "busy"
        /\ upTo' = issued
        /\ given' = [n \in Nodes |-> IF n \in who THEN pending \union Unapplied ELSE {}]
        /\ agent' = [n \in Nodes |-> IF n \in who THEN "preparing" ELSE "out"]
        /\ UNCHANGED <<stage, frontier, log, registry, heard, missed, waived, faults>>

\* seedFrontier: the fold rides fact.fanout_started, its steers replacing what
\* pending_steer held.
SeedFrontier ==
    /\ pc = "turn"
    /\ Parallel(stage) /\ frontier = NoFrontier
    /\ frontier' = Stages[stage]
    /\ applied' = issued
    /\ pending' = (IF Unapplied = {} THEN pending ELSE Unapplied)
    /\ waived' = waived \union (IF Unapplied = {} THEN {} ELSE pending)
    /\ UNCHANGED <<pc, stage, issued, turn, agent, registry, heard, missed, faults>>

\* advanceJoin: every branch is through. The fold rides fact.fanout_joined, and
\* this turn has no handler to hand its steers to.
AdvanceJoin ==
    /\ pc = "turn"
    /\ Parallel(stage) /\ frontier = {}
    /\ frontier' = NoFrontier
    /\ stage' = stage + 1
    /\ pc' = (IF stage = Len(Stages) THEN "ended" ELSE "turn")
    /\ applied' = issued
    /\ waived' = waived \union Unapplied
    /\ UNCHANGED <<issued, pending, turn, agent, registry, heard, missed, faults>>

----------------------------------------------------------------------------
\* The handlers

\* The agent registers and its prompt, headed by the fenced ctx.steering, is
\* persisted as a user row.
Prompt(n) ==
    /\ agent[n] = "preparing" /\ n \in LlmNodes
    /\ agent' = [agent EXCEPT ![n] = "live"]
    /\ queue' = [queue EXCEPT ![n] = Drained(n)]
    /\ heard' = [heard EXCEPT ![n] = @ \union given[n]]
    /\ UNCHANGED <<run, log, turn, buffer, seen, missed, waived, faults>>

\* The agent takes what is queued between two model turns.
Poll(n) ==
    /\ agent[n] = "live" /\ queue[n] # {}
    /\ heard' = [heard EXCEPT ![n] = @ \union queue[n]]
    /\ queue' = [queue EXCEPT ![n] = {}]
    /\ UNCHANGED <<run, log, turn, agent, buffer, seen, missed, waived, faults>>

\* pending_steer after a commit: an llm step that succeeded has consumed it.
PendingAfter(n, ok) == IF ok /\ n \in LlmNodes THEN {} ELSE pending

\* advanceAppliedTo: what the turn folded, not what has arrived since. In a
\* region the fold rides the first commit.
FaultAppliedAfter == issued
AppliedAfter == IF upTo > applied THEN upTo ELSE applied

\* A handler ends and its commit applies the turn's fold. A success moves the
\* run or the branch on; anything else (a failure to retry, a provider pause,
\* a timeout, an abort, also one before the prompt) leaves the step to be
\* dispatched again, with its fold applied all the same.
Settle(n, ok) ==
    /\ agent[n] = "live" \/ (agent[n] = "preparing" /\ (n \notin LlmNodes \/ ~ok))
    /\ ok \/ faults < MaxFaults
    /\ faults' = (IF ok THEN faults ELSE faults + 1)
    /\ agent' = [agent EXCEPT ![n] = "done"]
    /\ queue' = [queue EXCEPT ![n] = {}]
    /\ buffer' = (IF agent[n] = "live" THEN AfterEnd(n) ELSE buffer)
    /\ waived' = waived \union (IF agent[n] = "live" THEN {} ELSE given[n])
    /\ applied' = AppliedAfter
    /\ pending' = PendingAfter(n, ok)
    /\ IF Parallel(stage)
       THEN /\ frontier' = (IF ok THEN frontier \ {n} ELSE frontier)
            /\ pc' = (IF InFlight = {n} THEN "turn" ELSE pc)
            /\ UNCHANGED stage
       ELSE /\ stage' = (IF ok THEN stage + 1 ELSE stage)
            /\ pc' = (IF ok /\ stage = Len(Stages) THEN "ended" ELSE "turn")
            /\ UNCHANGED frontier
    /\ UNCHANGED <<issued, upTo, given, seen, heard, missed>>

\* The daemon dies and another takes over: the registry, the queues and the
\* supervisor's memory are gone; the log, the routing and the rows are not.
Crash ==
    /\ pc \in {"turn", "busy"}
    /\ faults < MaxFaults
    /\ faults' = faults + 1
    /\ pc' = "turn"
    /\ upTo' = 0 /\ given' = Empty
    /\ agent' = [n \in Nodes |-> "out"]
    /\ queue' = Empty /\ buffer' = <<>> /\ seen' = 0
    /\ UNCHANGED <<stage, frontier, log, heard, missed, waived>>

Next ==
    \/ Issue \/ Supervise
    \/ RunStart \/ Dispatch \/ SeedFrontier \/ AdvanceJoin
    \/ \E n \in Nodes : Prompt(n) \/ Poll(n) \/ \E ok \in BOOLEAN : Settle(n, ok)
    \/ Crash

Spec == Init /\ [][Next]_vars

----------------------------------------------------------------------------
\* Properties

\* A step's handler, and whether its agent is registered for injection.
AgentStates == {"out", "preparing", "live", "done"}

TypeOK ==
    /\ pc \in {"queued", "turn", "busy", "ended"}
    /\ stage \in 1 .. Len(Stages) + 1
    /\ frontier = NoFrontier \/ frontier \subseteq Nodes
    /\ issued \in 0 .. MaxSteers /\ applied \in 0 .. issued /\ seen \in 0 .. issued
    /\ pending \subseteq Steers /\ waived \subseteq Steers
    /\ upTo \in 0 .. MaxSteers
    /\ given \in [Nodes -> SUBSET Steers] /\ queue \in [Nodes -> SUBSET Steers]
    /\ agent \in [Nodes -> AgentStates]
    /\ buffer \in Seq(Steers)
    /\ heard \in [Nodes -> SUBSET Steers] /\ missed \in [Nodes -> SUBSET Steers]
    /\ faults \in 0 .. MaxFaults

\* A steer the log counts as applied is in some model's transcript or waits in
\* routing for the next dispatch, unless the commit that applied it had nobody
\* to hand it to: a tool step's turn, a dispatch that died before its prompt,
\* the join, or a seed that replaced pending_steer. What the registry buffers or
\* queues is not needed for it, so a crash that takes the registry loses nothing.
SteerAccounted ==
    \A s \in 1 .. applied : s \in Heard \union pending \union waived

\* docs/intent-fold.md, "The run-start turn": a mid-flight steer broadcasts to
\* every in-flight llm branch of the run. Here: when a region is through, none of
\* its branches lacks a steer that was broadcast while it was in flight.
BroadcastReachesAll ==
    frontier = {} => \A n \in Stages[stage] : missed[n] \subseteq heard[n]
=============================================================================
