------------------------------ MODULE Dispatch ------------------------------
(***************************************************************************)
(* One linear run: the turn loop of an executor fiber (dispatch-turn.ts)   *)
(* and the pure planner behind every turn that ends in a result            *)
(* (transition-planner.ts) or in an exit (abort-planner.ts), over the      *)
(* reducer's arms for the facts they commit.                               *)
(*                                                                         *)
(* A handler invocation costs one unit.  `run` is the projection with its  *)
(* routing keys, `lim` the limits with their operator overrides, `inbox`   *)
(* the unapplied intents, `fiber` the counters that live in memory only,   *)
(* `turn` the handler in flight with the fold it was dispatched under.     *)
(* Operator calls and shutdowns take one unit of `asks`.                   *)
(***************************************************************************)
EXTENDS Integers, FiniteSets

CONSTANTS
    Nodes, StartNode,   \* steps of the workflow
    OnSuccess, OnFail,  \* the edge keyed by each outcome, None when there is none
    Gates,              \* steps with goal_gate
    RetargetOf,         \* retry_target of a gate
    MaxRetries,         \* max_retries of each step (0 on a back-edge: unbounded)
    GateCap,            \* max_retries of the gate that bounds its retargets
    Budget,             \* budget_usd
    BudgetHalts,        \* budget_policy = halt
    ProviderCap,        \* PROVIDER_RETRY_MAX_ATTEMPTS
    TimeoutCap,         \* TIMEOUT_RETRY_MAX_ATTEMPTS
    LoopCap,            \* maxLoops
    AbortCap,           \* abortLoopCeiling
    MaxAsks,            \* bound: operator calls and shutdowns in a behaviour
    None

Outcomes == {"success", "fail", "retry"}
Failures == {"overload", "refused", "error"}
ExitKinds == {"abort", "tripped", "timeout", "shutdown", "throw", "leak"}
Ended    == {"completed", "halted", "cancelled"}
Settled  == Ended \cup {"paused"}
AutoWakeReasons == {"handler_retry", "provider_retry", "timeout_retry"}
Statuses == Settled \cup {"queued", "running", "paused_auto"}
Reasons ==
    AutoWakeReasons \cup
        {"operator", "budget", "max_retries", "max_loops", "goal_gate", "abort_loop",
         "provider_exhausted", "provider_error", "timeout_exhausted", "error"}

\* RunTurnState: the counters a fiber keeps in memory.
FiberState == [dispatches : 0 .. LoopCap, aborts : 0 .. AbortCap]

\* What the validator admits: step ids apart from the sinks, a success successor
\* of every step (E032), edges and retry targets that name a step (E057: only of
\* a gate); the limits are numbers.
WorkflowAssumption ==
    /\ IsFiniteSet(Nodes) /\ Nodes \cap {"exit", "end", None} = {}
    /\ None \notin Outcomes \cup Statuses \cup Reasons \cup {"exit", "end"}
    /\ None \notin FiberState
    /\ StartNode \in Nodes /\ Gates \subseteq Nodes
    /\ OnSuccess \in [Nodes -> Nodes \cup {"exit"}]
    /\ OnFail \in [Nodes -> Nodes \cup {"exit", None}]
    /\ RetargetOf \in [Gates -> Nodes \cup {None}]
    /\ MaxRetries \in [Nodes -> Nat] /\ BudgetHalts \in BOOLEAN
    /\ {GateCap, Budget, ProviderCap, TimeoutCap, LoopCap, AbortCap, MaxAsks} \subseteq Nat

ASSUME WorkflowAssumed == WorkflowAssumption

VARIABLES run, lim, inbox, fiber, turn, asks,
          lastOut, tries, passes, owed, dropped, waived   \* history of the run

code    == <<run, lim, inbox, fiber, turn, asks>>
history == <<lastOut, tries, passes, owed, dropped, waived>>
vars    == <<code, history>>

-----------------------------------------------------------------------------
(* The workflow's graph.                                                    *)

Terminal(x) == x \in {"exit", "end"}

\* selectEdge, with the `__end__` sentinel where no edge carries the outcome
SelectEdge(n, o) ==
    LET to == CASE o = "success" -> OnSuccess[n] [] o = "fail" -> OnFail[n] [] OTHER -> None
    IN IF to = None THEN "end" ELSE to

Succ(S) == S \cup {t \in Nodes : \E n \in S : t \in {OnSuccess[n], OnFail[n]}}

\* reachableFrom, as the closure after one round per step
ReachableFrom(n) ==
    LET R[k \in 0 .. Cardinality(Nodes)] == IF k = 0 THEN {n} \cap Nodes ELSE Succ(R[k - 1])
    IN R[Cardinality(Nodes)]

-----------------------------------------------------------------------------
(* The stages of planTransition.                                            *)

\* what a handler bills: nothing for the exit step, which has no outcome
Cost(o) == IF o = None THEN 0 ELSE 1

Breached(cost) == run.spend + cost >= lim.budget

\* Fault: the outcome of the gate that just ran is not looked at.
FaultGateOutcomes(n, o) == run.gates

GateOutcomes(n, o) == IF n \in Gates THEN [run.gates EXCEPT ![n] = o] ELSE run.gates

\* the gate that keeps a run from ending, or None
FailedGate(n, o) ==
    LET bad == {g \in Gates : GateOutcomes(n, o)[g] \notin {None, "success"}}
    IN IF Terminal(SelectEdge(n, o)) /\ ~(o = "fail" /\ n \notin Gates) /\ bad # {}
       THEN CHOOSE g \in bad : TRUE ELSE None

GoalGate(n, o) ==
    LET g == FailedGate(n, o)
    IN CASE g = None -> [kind |-> "exit", next |-> SelectEdge(n, o)]
         [] g # None /\ (run.gateRetries >= lim.gate \/ RetargetOf[g] = None) ->
                [kind |-> "halt", next |-> n]
         [] OTHER -> [kind |-> "retarget", next |-> RetargetOf[g]]

\* the fail edge of a plain step re-enters the step
LoopsBack(n, o) == o = "fail" /\ n \notin Gates /\ n \in ReachableFrom(SelectEdge(n, o))

\* Fault: a failure that loops back is not counted against the step's retries.
FaultRetryGate(n, o, next) ==
    IF o = "retry" /\ run.retries[n] >= lim.retries[n]
    THEN [next |-> n, park |-> "max_retries", count |-> run.retries[n]]
    ELSE [next |-> IF o = "retry" THEN n ELSE next,
          park |-> IF o = "retry" THEN "handler_retry" ELSE None,
          count |-> CASE o = "success" -> 0 [] o = "retry" -> run.retries[n] + 1
                      [] OTHER -> run.retries[n]]

\* a failure on a back-edge and a retry share the step's counter
RetryGate(n, o, next) ==
    LET loops == LoopsBack(n, o) /\ lim.retries[n] > 0
        spent == run.retries[n] >= lim.retries[n]
    IN CASE o = "success" -> [next |-> next, park |-> None, count |-> 0]
         [] (o = "retry" \/ loops) /\ spent ->
                [next |-> n, park |-> "max_retries", count |-> run.retries[n]]
         [] o = "retry" /\ ~spent ->
                [next |-> n, park |-> "handler_retry", count |-> run.retries[n] + 1]
         [] loops /\ ~spent -> [next |-> next, park |-> None, count |-> run.retries[n] + 1]
         [] OTHER -> [next |-> next, park |-> None, count |-> run.retries[n]]

\* the reducer's status for a pause of each reason
PausedAs(why) == IF why \in AutoWakeReasons THEN "paused_auto" ELSE "paused"

\* swapBudgetPause and swapBudgetHalt: the breach is the last fact of the batch,
\* a pause only where nothing ends the run
SwapBudget(cost, end) ==
    CASE Breached(cost) /\ BudgetHalts -> [status |-> "halted", why |-> "budget"]
      [] Breached(cost) /\ ~BudgetHalts /\ end.status \notin Ended ->
             [status |-> "paused", why |-> "budget"]
      [] OTHER -> end

\* rewriteTerminalFacts: the status its last run-level fact leaves, and why.
\* dp: the operator's pause deferred behind this dispatch.
Rewrite(o, next, park, dp) ==
    LET errored  == next = "end" /\ o = "fail"
        ended    == Terminal(next) /\ (errored \/ ~dp)
        operator == dp /\ ~errored
        why      == CASE park = "max_retries" -> "max_retries"
                      [] park # "max_retries" /\ operator -> "operator"
                      [] park = "handler_retry" /\ ~operator -> "handler_retry"
                      [] OTHER -> None
    IN SwapBudget(Cost(o),
             CASE ended -> [status |-> IF errored THEN "halted" ELSE "completed", why |-> None]
               [] ~ended /\ why # None -> [status |-> PausedAs(why), why |-> why]
               [] OTHER -> [status |-> "running", why |-> None])

-----------------------------------------------------------------------------
(* Commits.                                                                 *)

\* what a fact that bills a turn adds; the budget's ceiling is all that is told apart
Bill(r) == [r EXCEPT !.spend = IF @ < lim.budget THEN @ + 1 ELSE @]

\* a settled run has no fiber: dispatchTurn returns terminal
Keep(status) == fiber' = IF status = "running" THEN [fiber EXCEPT !.aborts = 0] ELSE None

\* advanceAppliedTo: the intents of the turn's fold are consumed
Consume == inbox' = inbox \ turn.taken

\* a consumed pause is owed until the run stands still or carries the marker on
Owe(status, marker) ==
    owed' = ((owed \/ turn.dp) /\ status \notin Settled /\ ~marker)

\* a handler's transition lands as one batch
Land(o) ==
    LET n    == turn.node
        gate == GoalGate(n, o)
        r    == RetryGate(n, o, gate.next)
        end  == Rewrite(o, r.next, r.park, turn.dp)
        kept == gate.kind = "retarget" /\ r.next = gate.next
        counts == kept /\ ~(Breached(1) /\ ~BudgetHalts)
        marker == run.deferred /\ ~(turn.dp /\ ~(r.next = "end" /\ o = "fail"))
    IN /\ gate.kind # "halt"
       /\ run' = Bill([run EXCEPT
            !.status = end.status, !.why = end.why, !.node = r.next, !.open = FALSE,
            !.retries[n] = r.count, !.gates = GateOutcomes(n, o),
            !.gateRetries = IF counts THEN @ + 1 ELSE @,
            !.provider = 0, !.deferred = marker,
            !.timer = IF r.park = "handler_retry" THEN "future" ELSE @])
       /\ Keep(end.status) /\ Consume
       /\ turn' = None
       /\ Owe(end.status, marker)
       /\ lastOut' = IF n \in Gates THEN [lastOut EXCEPT ![n] = o] ELSE lastOut
       /\ tries' = [tries EXCEPT ![n] = IF o = "success" THEN 0
                       ELSE IF o = "retry" \/ LoopsBack(n, o) THEN @ + 1 ELSE @]
       /\ passes' = IF kept THEN passes + 1 ELSE passes
       /\ waived' = (o = "fail" /\ n \notin Gates /\ r.next = "exit")
       /\ UNCHANGED <<lim, asks, dropped>>

\* an unsatisfied gate turns the transition into a halt, which the facts turn
\* into a pause: the turn's spend is on neither
GateHolds(o) ==
    /\ GoalGate(turn.node, o).kind = "halt"
    /\ LET end == SwapBudget(1, [status |-> "paused", why |-> "goal_gate"])
       IN run' = [run EXCEPT !.status = end.status, !.why = end.why, !.open = FALSE]
    /\ fiber' = None /\ Consume /\ turn' = None
    /\ Owe("paused", FALSE)
    /\ dropped' = TRUE
    /\ UNCHANGED <<lim, asks, lastOut, tries, passes, waived>>

\* Fault: the chain's attempts are not persisted.
FaultProviderAttempt == 0
ProviderAttempt == run.provider + 1

ProviderWithin == run.provider + 1 <= ProviderCap

\* Fault: an exit drops the deferred pause.
FaultMarkerKept == FALSE
MarkerKept == run.deferred

\* a provider failure: auto-retried within its cap, else left to the operator
ProviderPauses(why) ==
    LET auto == why = "overload" /\ ProviderWithin
        reason == IF auto THEN "provider_retry"
                  ELSE IF why = "overload" THEN "provider_exhausted" ELSE "provider_error"
    IN /\ run' = Bill([run EXCEPT !.status = PausedAs(reason), !.why = reason, !.open = FALSE,
                         !.provider = IF auto THEN ProviderAttempt ELSE @,
                         !.deferred = MarkerKept, !.timer = IF auto THEN "future" ELSE @])
       /\ fiber' = None /\ Consume /\ turn' = None
       /\ Owe(PausedAs(reason), run.deferred)
       /\ UNCHANGED <<lim, asks, lastOut, tries, passes, dropped, waived>>

HandlerErrs ==
    /\ run' = Bill([run EXCEPT !.status = "halted", !.why = "error", !.open = FALSE])
    /\ fiber' = None /\ Consume /\ turn' = None
    /\ Owe("halted", FALSE)
    /\ UNCHANGED <<lim, asks, lastOut, tries, passes, dropped, waived>>

Returns(res) ==
    /\ turn # None
    /\ \/ res \in Outcomes /\ (Land(res) \/ GateHolds(res))
       \/ res \in {"overload", "refused"} /\ ProviderPauses(res)
       \/ res = "error" /\ HandlerErrs

\* Fault: a timeout parks under the wake-up time an earlier park left.
FaultTimeoutTimer == run.timer
TimeoutTimer == "future"

\* what a non-result exit leaves: a budget trip decides first, a timeout retries
ExitEnd(x) ==
    LET n == turn.node
    IN CASE x = "leak" \/ x = "throw" -> [status |-> "halted", why |-> "error"]
         [] x = "tripped" -> IF BudgetHalts THEN [status |-> "halted", why |-> "budget"]
                             ELSE [status |-> "paused", why |-> "budget"]
         [] x = "shutdown" -> [status |-> "queued", why |-> None]
         [] x = "timeout" /\ run.timeouts[n] + 1 < TimeoutCap ->
                [status |-> "paused_auto", why |-> "timeout_retry"]
         [] x = "timeout" /\ run.timeouts[n] + 1 >= TimeoutCap ->
                [status |-> "halted", why |-> "timeout_exhausted"]
         [] x = "abort" /\ fiber.aborts + 1 >= AbortCap ->
                [status |-> "paused", why |-> "abort_loop"]
         [] OTHER -> [status |-> "running", why |-> None]

\* planExit and its commit: the spend as node_aborted, the fold's watermark, no marker
Exits(x) ==
    /\ turn # None
    /\ x = "abort" => (inbox \ turn.taken) \cap {"pause", "cancel"} # {}
    /\ x = "tripped" => Breached(1)
    /\ x = "shutdown" => asks > 0
    /\ LET end == ExitEnd(x) IN
       /\ run' = Bill([run EXCEPT !.status = end.status, !.why = end.why, !.open = FALSE,
                 !.deferred = MarkerKept,
                 !.timer = IF end.why = "timeout_retry" THEN TimeoutTimer ELSE @,
                 !.timeouts[turn.node] = IF end.why = "timeout_retry" THEN @ + 1 ELSE @])
       /\ fiber' = IF end.status = "running" THEN [fiber EXCEPT !.aborts = @ + 1] ELSE None
       /\ Owe(end.status, run.deferred)
    /\ Consume
    /\ turn' = None
    /\ asks' = IF x = "shutdown" THEN asks - 1 ELSE asks
    /\ UNCHANGED <<lim, lastOut, tries, passes, dropped, waived>>

-----------------------------------------------------------------------------
(* The turn, up to the handler call.                                        *)

Idle == fiber # None /\ turn = None /\ run.status = "running"

\* claimRun, and the fresh RunTurnState of a fiber
Claim ==
    /\ run.status = "queued" /\ fiber = None
    /\ run' = [run EXCEPT !.status = "running"]
    /\ fiber' = [dispatches |-> 0, aborts |-> 0]
    /\ UNCHANGED <<lim, inbox, turn, asks, history>>

\* the entry gates: an unreadable workflow, a worktree that cannot be made
PreDispatchHalts ==
    /\ Idle /\ fiber.dispatches = 0
    /\ run' = [run EXCEPT !.status = "halted", !.why = "error", !.open = FALSE]
    /\ fiber' = None
    /\ owed' = FALSE
    /\ UNCHANGED <<lim, inbox, turn, asks, lastOut, tries, passes, dropped, waived>>

\* foldIntents: a cancel beats everything, a pause with nothing to dispatch parks at once
FoldStops ==
    /\ Idle
    /\ \/ /\ "cancel" \in inbox
          /\ run' = [run EXCEPT !.status = "cancelled", !.why = None, !.open = FALSE]
       \/ /\ "cancel" \notin inbox /\ "pause" \in inbox /\ "steer" \notin inbox
          /\ run' = [run EXCEPT !.status = "paused", !.why = "operator", !.open = FALSE]
    /\ inbox' = {} /\ fiber' = None
    /\ owed' = FALSE
    /\ UNCHANGED <<lim, turn, asks, lastOut, tries, passes, dropped, waived>>

Proceeds == Idle /\ "cancel" \notin inbox /\ ("pause" \in inbox => "steer" \in inbox)
Defers   == {"pause", "steer"} \subseteq inbox

Carry == run.deferred \/ Defers

\* run_started consumes the intents and carries a deferred pause in the routing
StartRun ==
    /\ Proceeds /\ run.node = None
    /\ run' = [run EXCEPT !.node = StartNode, !.open = TRUE, !.deferred = Carry]
    /\ inbox' = {}
    /\ owed' = ((owed \/ Defers) /\ ~Carry)
    /\ UNCHANGED <<lim, fiber, turn, asks, lastOut, tries, passes, dropped, waived>>

\* the dispatch marker is a commit and a turn of its own
Marker ==
    /\ Proceeds /\ run.node # None /\ ~run.open
    /\ run' = [run EXCEPT !.open = TRUE]
    /\ UNCHANGED <<lim, inbox, fiber, turn, asks, history>>

LoopGate ==
    /\ Proceeds /\ run.node # None /\ run.open /\ fiber.dispatches >= LoopCap
    /\ run' = [run EXCEPT !.status = "paused", !.why = "max_loops", !.open = FALSE]
    /\ fiber' = None
    /\ owed' = FALSE
    /\ UNCHANGED <<lim, inbox, turn, asks, lastOut, tries, passes, dropped, waived>>

\* the handler is called under the fold of this turn
CallHandler ==
    /\ Proceeds /\ run.node \in Nodes /\ run.open /\ fiber.dispatches < LoopCap
    /\ fiber' = [fiber EXCEPT !.dispatches = @ + 1]
    /\ turn' = [node |-> run.node, taken |-> inbox, dp |-> Defers \/ run.deferred]
    /\ UNCHANGED <<run, lim, inbox, asks, history>>

\* A pause that replaced `completed` resumes at the exit step: a handler that
\* takes no time and costs nothing, planned like any other, with the gates looked
\* at again.  Paused once more it leaves the sentinel behind, a step the
\* dispatcher does not know: the fiber crashes and halts the run.
ExitStep ==
    /\ Proceeds /\ Terminal(run.node) /\ run.open /\ fiber.dispatches < LoopCap
    /\ LET lost == run.node = "end"
           dp   == Defers \/ run.deferred
           gate == GoalGate(run.node, None)
           end  == CASE lost -> [status |-> "halted", why |-> "error"]
                     [] ~lost /\ gate.kind = "halt" ->
                            SwapBudget(0, [status |-> "paused", why |-> "goal_gate"])
                     [] OTHER -> Rewrite(None, gate.next, None, dp)
           again  == ~lost /\ gate.kind = "retarget"
           counts == again /\ ~(Breached(0) /\ ~BudgetHalts)
           lands  == ~lost /\ gate.kind # "halt"
           marker == run.deferred /\ ~lands
       IN /\ run' = [run EXCEPT
               !.status = end.status, !.why = end.why, !.open = FALSE,
               !.node = IF lands THEN gate.next ELSE @,
               !.gateRetries = IF counts THEN @ + 1 ELSE @,
               !.provider = IF lands THEN 0 ELSE @, !.deferred = marker]
          /\ fiber' = IF end.status = "running"
                      THEN [dispatches |-> fiber.dispatches + 1, aborts |-> 0] ELSE None
          /\ inbox' = IF lost THEN inbox ELSE {}
          /\ owed' = ((owed \/ (dp /\ ~lost)) /\ end.status \notin Settled /\ ~marker)
          /\ passes' = IF again THEN passes + 1 ELSE passes
          /\ waived' = (waived /\ ~again)
    /\ UNCHANGED <<lim, turn, asks, lastOut, tries, dropped>>

-----------------------------------------------------------------------------
(* Waking, and the operator.                                                *)

Elapse ==
    /\ run.timer = "future"
    /\ run' = [run EXCEPT !.timer = "past"]
    /\ UNCHANGED <<lim, inbox, fiber, turn, asks, history>>

Woken(r) == [r EXCEPT !.status = "queued", !.why = None]

AutoWake ==
    /\ run.status = "paused_auto" /\ run.timer = "past"
    /\ run' = Woken(run)
    /\ UNCHANGED <<lim, inbox, fiber, turn, asks, history>>

\* intent.resume, with or without the raise of the limit the run stands at
Resume ==
    /\ run.status = "paused" /\ asks > 0
    /\ run' = Woken(run)
    /\ \/ UNCHANGED lim
       \/ lim' = CASE run.why = "budget" -> [lim EXCEPT !.budget = run.spend + 2]
                   [] run.why = "max_retries" -> [lim EXCEPT !.retries[run.node] = @ + 1]
                   [] run.why = "goal_gate" -> [lim EXCEPT !.gate = @ + 1]
                   [] OTHER -> lim
    /\ tries' = [n \in Nodes |-> 0]
    /\ asks' = asks - 1
    /\ UNCHANGED <<inbox, fiber, turn, lastOut, passes, owed, dropped, waived>>

\* intents appended to the run's log: one, or two before the run is looked at again
Submit(I) ==
    /\ run.status \notin Settled /\ asks > 0 /\ I \cap inbox = {}
    /\ inbox' = inbox \cup I
    /\ asks' = asks - 1
    /\ UNCHANGED <<run, lim, fiber, turn, history>>

\* A run that waits for its first claim: none of the routing keys is set.
QueuedRun ==
    [status |-> "queued", node |-> None, open |-> FALSE, why |-> None, spend |-> 0,
     retries |-> [n \in Nodes |-> 0], timeouts |-> [n \in Nodes |-> 0],
     gates |-> [g \in Gates |-> None], gateRetries |-> 0,
     provider |-> 0, timer |-> "unset", deferred |-> FALSE]

\* getLimits: what the operator has not raised is what the workflow declares.
Limits == [budget |-> Budget, retries |-> MaxRetries, gate |-> GateCap]

Init ==
    /\ run = QueuedRun /\ lim = Limits
    /\ inbox = {} /\ fiber = None /\ turn = None /\ asks = MaxAsks
    /\ lastOut = [g \in Gates |-> None] /\ tries = [n \in Nodes |-> 0]
    /\ passes = 0 /\ owed = FALSE /\ dropped = FALSE /\ waived = FALSE

HandlerEnds == \/ \E res \in Outcomes \cup Failures : Returns(res)
               \/ \E x \in ExitKinds : Exits(x)
Executor == \/ Claim \/ PreDispatchHalts \/ FoldStops \/ StartRun \/ Marker \/ LoopGate
            \/ CallHandler \/ ExitStep \/ HandlerEnds
Operator == Resume \/ \E I \in {{"pause"}, {"steer"}, {"pause", "steer"}, {"cancel"}} : Submit(I)
Next == Executor \/ Elapse \/ AutoWake \/ Operator

\* The executor loop, the handlers (each has a deadline) and the wake sweep make
\* progress; nothing is assumed of the operator.
Fairness == WF_vars(Executor) /\ WF_vars(Elapse) /\ WF_vars(AutoWake)
Spec == Init /\ [][Next]_vars /\ Fairness

-----------------------------------------------------------------------------
(* Properties.                                                              *)

Runs ==
    [status : Statuses, node : Nodes \cup {"exit", "end", None}, open : BOOLEAN,
     why : Reasons \cup {None}, spend : Nat, retries : [Nodes -> Nat], timeouts : [Nodes -> Nat],
     gates : [Gates -> Outcomes \cup {None}], gateRetries : Nat, provider : 0 .. ProviderCap,
     timer : {"unset", "future", "past"}, deferred : BOOLEAN]

Turns == [node : Nodes, taken : SUBSET {"pause", "steer", "cancel"}, dp : BOOLEAN]

\* TypeOK: every variable has its type; the counters stay within the limits
\* the planner enforces (a raise included).
TypeOK ==
    /\ run \in Runs /\ lim \in [budget : Nat, retries : [Nodes -> Nat], gate : Nat]
    /\ run.spend <= lim.budget /\ run.gateRetries <= lim.gate
    /\ \A n \in Nodes : run.retries[n] <= lim.retries[n] /\ run.timeouts[n] <= TimeoutCap
    /\ inbox \subseteq {"pause", "steer", "cancel"} /\ asks \in Nat
    /\ fiber \in FiberState \cup {None} /\ turn \in Turns \cup {None}
    /\ turn # None => fiber # None /\ turn.taken \subseteq inbox
    /\ lastOut \in [Gates -> Outcomes \cup {None}] /\ tries \in [Nodes -> Nat]
    /\ passes \in Nat /\ {owed, dropped, waived} \subseteq BOOLEAN

\* GatesHold: a run completes only when the last landed outcome of every goal
\* gate that ran is a success, retargets, retries, pauses that replaced the
\* completion and resumes included; or when a step that is no gate failed over the
\* fail edge its author drew to the exit (applyGoalGate's carve-out).
GatesHold ==
    run.status = "completed" => waived \/ \A g \in Gates : lastOut[g] \in {None, "success"}

\* TriesWithinCap: between two operator actions a step lands at most one more
\* failed attempt than its max_retries, whichever mix of loops over its fail edge
\* and handler retries it takes, across every automatic wake (applyRetryGate).
TriesWithinCap == \A n \in Nodes : lim.retries[n] > 0 => tries[n] <= lim.retries[n] + 1

\* What a run may not get away with, whatever it waits for and wakes from: to
\* complete over a failed gate, to try a step more often than it may.
TurnSafe == GatesHold /\ TriesWithinCap

\* BackoffHeld: a run that parks for the timer has a wake-up time still ahead of
\* it, never one left by an earlier park (auto_resume_at).
BackoffHeld == [][run'.status = "paused_auto" /\ run.status # "paused_auto"
                    => run'.timer = "future"]_vars

\* MarkerSurvives: a pause deferred over run_started stays in the routing until
\* the run stands still: no automatic park or abort sheds it.
MarkerSurvives == [][run.deferred /\ ~run'.deferred => run'.status \in Settled]_vars

\* RoutingHeld: what the routing owes over a park or an abort is neither stale nor
\* shed, whichever of the two planners wrote it.
RoutingHeld == BackoffHeld /\ MarkerSurvives

\* RunSettles: a run that the operator leaves alone ends or parks for the
\* operator; the automatic retries, retargets and wakes never keep it going for ever.
RunSettles == (run.status \notin Settled) ~> (run.status \in Settled)

\* SanctionedExit: "A fail-edge whose target is the `exit` sink is ... a sanctioned
\* failure landing the author opted into, so the run reaches the terminal and emits
\* `fact.run_terminated{status:"completed"}`" (docs/SPEC.md:208): the gates do not
\* take a run that has landed there back, a pause and a resume on the way included.
SanctionedExit == waived => run.why # "goal_gate"

\* PauseEffected: "The pause IS still applied" (core/src/handler/intent-fold.ts:26):
\* an operator pause that was consumed behind a steer stands until the run does.
PauseEffected == ~owed

\* SpendOnEveryExit: "A handler's spend is committed exactly once on every exit"
\* (docs/SPEC.md, I15), the pause of an exhausted goal gate included.
SpendOnEveryExit == ~dropped

\* RetargetsWithinCap: the retargets of a goal gate that were taken are the ones
\* its counter admits (transition-planner.ts:1236: "A budget pause is the same
\* story ... on resume the gate re-executes").
RetargetsWithinCap == passes <= lim.gate
=============================================================================
