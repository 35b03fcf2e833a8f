--------------------------- MODULE Dispatch_proofs ---------------------------
(***************************************************************************)
(* Proofs about Dispatch, for every workflow the validator admits and      *)
(* every value of the limits: a run completes only over satisfied gates    *)
(* (or over a sanctioned failure), and no step is tried more often than    *)
(* its cap admits between two operator actions.                            *)
(*                                                                         *)
(* The planner's stages come first, as lemmas about the operators alone;   *)
(* the steps of the executor cite them.                                    *)
(***************************************************************************)
EXTENDS Dispatch, TLAPS

\* Whoever drives a run drives a running one.
Driven == fiber # None => run.status = "running"

\* The routing's gate outcomes are the last ones that landed.
GatesRecorded == run.gates = lastOut

\* The step's retry counter is ahead of its failed attempts until the run stands
\* still, where the attempt that exhausted it makes one more.
Counted ==
    \A n \in Nodes : lim.retries[n] > 0 =>
        /\ tries[n] <= run.retries[n] + 1
        /\ run.status \notin Settled => tries[n] <= run.retries[n]

\* TurnInv: the inductive invariant behind TurnSafe.
TurnInv == TypeOK /\ Driven /\ GatesRecorded /\ Counted /\ GatesHold

-----------------------------------------------------------------------------
(* The stages of the planner.                                               *)

\* What an edge leads to: a step or a sink, and the sentinel only where no edge
\* carries the outcome (selectTransitionEdge).
LEMMA EdgeTarget ==
    ASSUME WorkflowAssumption, NEW n \in Nodes, NEW o \in Outcomes
    PROVE  /\ SelectEdge(n, o) \in Nodes \cup {"exit", "end"}
           /\ o = "success" => SelectEdge(n, o) # "end"
  BY DEF WorkflowAssumption, SelectEdge, Outcomes

\* The exit step has no outcome: its edge is the sentinel.
LEMMA ExitEdge == ASSUME WorkflowAssumption, NEW n PROVE SelectEdge(n, None) = "end"
  BY DEF WorkflowAssumption, SelectEdge, Outcomes

\* A gate that is found failed is a gate (checkGoalGates).
LEMMA FailedGateIsOne ==
    ASSUME WorkflowAssumption, NEW n, NEW o
    PROVE  FailedGate(n, o) \in Gates \cup {None}
<1> DEFINE bad == {g \in Gates : GateOutcomes(n, o)[g] \notin {None, "success"}}
<1>1. CASE Terminal(SelectEdge(n, o)) /\ ~(o = "fail" /\ n \notin Gates) /\ bad # {}
  <2>1. PICK x : x \in bad  BY <1>1
  <2>2. (CHOOSE g \in bad : TRUE) \in bad  BY <2>1
  <2>3. FailedGate(n, o) = CHOOSE g \in bad : TRUE  BY <1>1, Zenon DEF FailedGate
  <2> QED  BY <2>2, <2>3
<1>2. CASE ~(Terminal(SelectEdge(n, o)) /\ ~(o = "fail" /\ n \notin Gates) /\ bad # {})
  <2>1. FailedGate(n, o) = None  BY <1>2, Zenon DEF FailedGate
  <2> QED  BY <2>1
<1> QED  BY <1>1, <1>2

\* No failed gate is found where the run would end over a failed one, unless a step
\* that is no gate has failed (the carve-out).
LEMMA NoFailedGate ==
    ASSUME WorkflowAssumption, NEW n, NEW o, FailedGate(n, o) = None
    PROVE  \/ ~Terminal(SelectEdge(n, o))
           \/ o = "fail" /\ n \notin Gates
           \/ \A g \in Gates : GateOutcomes(n, o)[g] \in {None, "success"}
<1> DEFINE bad == {g \in Gates : GateOutcomes(n, o)[g] \notin {None, "success"}}
<1>1. SUFFICES ASSUME Terminal(SelectEdge(n, o)), ~(o = "fail" /\ n \notin Gates), bad # {}
               PROVE  FALSE
  OBVIOUS
<1>2. PICK g : g \in bad  BY <1>1
<1>3. (CHOOSE h \in bad : TRUE) \in bad  BY <1>2
<1>4. FailedGate(n, o) = CHOOSE h \in bad : TRUE  BY <1>1, Zenon DEF FailedGate
<1> QED  BY <1>3, <1>4 DEF WorkflowAssumption

\* What the gate stage may decide (applyGoalGate).
LEMMA GateDecision ==
    ASSUME WorkflowAssumption, NEW n, NEW o
    PROVE  /\ GoalGate(n, o).kind \in {"exit", "halt", "retarget"}
           /\ GoalGate(n, o).kind = "exit" =>
                 FailedGate(n, o) = None /\ GoalGate(n, o).next = SelectEdge(n, o)
           /\ GoalGate(n, o).kind = "retarget" =>
                 GoalGate(n, o).next \in Nodes /\ ~(run.gateRetries >= lim.gate)
<1> DEFINE g == FailedGate(n, o)
<1>0. g \in Gates \cup {None}  BY FailedGateIsOne
<1>1. CASE g = None
  <2>1. GoalGate(n, o) = [kind |-> "exit", next |-> SelectEdge(n, o)]
    BY <1>1, Zenon DEF GoalGate
  <2> QED  BY <1>1, <2>1
<1>2. CASE g # None /\ (run.gateRetries >= lim.gate \/ RetargetOf[g] = None)
  <2>1. GoalGate(n, o) = [kind |-> "halt", next |-> n]  BY <1>2 DEF GoalGate
  <2> QED  BY <2>1
<1>3. CASE g # None /\ ~(run.gateRetries >= lim.gate \/ RetargetOf[g] = None)
  <2>1. GoalGate(n, o) = [kind |-> "retarget", next |-> RetargetOf[g]]
    BY <1>3 DEF GoalGate
  <2>2. RetargetOf[g] \in Nodes  BY <1>0, <1>3 DEF WorkflowAssumption
  <2> QED  BY <1>3, <2>1, <2>2
<1> QED  BY <1>1, <1>2, <1>3


\* What the retry stage may decide, and what it does to the step's counter
\* (applyRetryGate).
LEMMA RetryDecision ==
    ASSUME WorkflowAssumption, TypeOK, NEW n \in Nodes, NEW o \in Outcomes, NEW next
    PROVE  LET r == RetryGate(n, o, next)
               fails == o = "retry" \/ LoopsBack(n, o)
           IN /\ r.park \in {None, "max_retries", "handler_retry"}
              /\ r.next \in {n, next} /\ (r.park # None => r.next = n)
              /\ r.count \in Nat /\ r.count <= lim.retries[n]
              /\ o = "success" => r.count = 0 /\ r.next = next
              /\ o # "success" /\ ~fails => r.count = run.retries[n]
              /\ o # "success" /\ fails /\ lim.retries[n] > 0 =>
                    \/ r.park = "max_retries" /\ r.count = run.retries[n]
                    \/ r.count = run.retries[n] + 1
<1> DEFINE loops == LoopsBack(n, o) /\ lim.retries[n] > 0
           spent == run.retries[n] >= lim.retries[n]
           r     == RetryGate(n, o, next)
<1>a. run.retries[n] \in Nat /\ lim.retries[n] \in Nat /\ run.retries[n] <= lim.retries[n]
  BY DEF TypeOK, Runs
<1>b. None \notin {"max_retries", "handler_retry"}
  <2>1. None \notin Reasons  BY DEF WorkflowAssumption
  <2> QED  BY <2>1 DEF Reasons, AutoWakeReasons
<1>c. o \in {"success", "fail", "retry"}  BY DEF Outcomes
<1>0. /\ run.retries[n] \in Nat /\ lim.retries[n] \in Nat /\ run.retries[n] <= lim.retries[n]
      /\ None \notin {"max_retries", "handler_retry"} /\ o \in {"success", "fail", "retry"}
  BY <1>a, <1>b, <1>c
<1>l. LoopsBack(n, o) => o = "fail"  BY DEF LoopsBack
<1>1. CASE o = "success"
  <2>1. r = [next |-> next, park |-> None, count |-> 0]  BY <1>1, <1>l DEF RetryGate
  <2> QED  BY <1>0, <1>1, <2>1
<1>2. CASE o # "success" /\ (o = "retry" \/ loops) /\ spent
  <2>1. r = [next |-> n, park |-> "max_retries", count |-> run.retries[n]]
    BY <1>2, <1>l DEF RetryGate
  <2> QED  BY <1>0, <1>2, <2>1
<1>3. CASE o = "retry" /\ ~spent
  <2>1. r = [next |-> n, park |-> "handler_retry", count |-> run.retries[n] + 1]
    BY <1>3, <1>l DEF RetryGate
  <2> QED  BY <1>0, <1>3, <2>1
<1>4. CASE o # "success" /\ o # "retry" /\ loops /\ ~spent
  <2>1. r = [next |-> next, park |-> None, count |-> run.retries[n] + 1]
    BY <1>4, <1>l DEF RetryGate
  <2> QED  BY <1>0, <1>4, <2>1
<1>5. CASE o # "success" /\ o # "retry" /\ ~loops
  <2>1. r = [next |-> next, park |-> None, count |-> run.retries[n]]
    BY <1>5, <1>l DEF RetryGate
  <2> QED  BY <1>0, <1>5, <2>1
<1> QED  BY <1>1, <1>2, <1>3, <1>4, <1>5

\* What the budget makes of an end (swapBudgetPause, swapBudgetHalt).
LEMMA BudgetDecision ==
    ASSUME NEW cost, NEW end
    PROVE  SwapBudget(cost, end) \in {end, [status |-> "halted", why |-> "budget"],
                                      [status |-> "paused", why |-> "budget"]}
  BY DEF SwapBudget

\* A batch completes the run only at a sink that is no failure's sentinel; a step
\* that has used its retries up leaves the run standing (rewriteTerminalFacts).
LEMMA EndDecision ==
    ASSUME WorkflowAssumption, NEW o, NEW next, NEW dp \in BOOLEAN,
           NEW park \in {None, "max_retries", "handler_retry"},
           park # None => ~Terminal(next)
    PROVE  LET end == Rewrite(o, next, park, dp)
           IN /\ end.status \in {"running", "paused", "paused_auto", "completed", "halted"}
              /\ end.why \in Reasons \cup {None}
              /\ end.status = "completed" => Terminal(next) /\ ~(next = "end" /\ o = "fail")
              /\ park = "max_retries" => end.status \in Settled
              /\ dp /\ ~(next = "end" /\ o = "fail") => end.status \in Settled
              /\ end.status = "paused_auto" => park = "handler_retry"
<1> DEFINE errored == next = "end" /\ o = "fail"
           ended   == Terminal(next) /\ (errored \/ ~dp)
           why     == CASE park = "max_retries" -> "max_retries"
                        [] park # "max_retries" /\ dp /\ ~errored -> "operator"
                        [] park = "handler_retry" /\ ~(dp /\ ~errored) -> "handler_retry"
                        [] OTHER -> None
           raw     == CASE ended -> [status |-> IF errored THEN "halted" ELSE "completed",
                                     why |-> None]
                        [] ~ended /\ why # None -> [status |-> PausedAs(why), why |-> why]
                        [] OTHER -> [status |-> "running", why |-> None]
           good(e) == /\ e.status \in {"running", "paused", "paused_auto", "completed", "halted"}
                      /\ e.why \in Reasons \cup {None}
                      /\ e.status = "completed" => Terminal(next) /\ ~(next = "end" /\ o = "fail")
                      /\ park = "max_retries" => e.status \in Settled
                      /\ dp /\ ~errored => e.status \in Settled
                      /\ e.status = "paused_auto" => park = "handler_retry"
<1>0. Rewrite(o, next, park, dp) = SwapBudget(Cost(o), raw)  BY Zenon DEF Rewrite
<1>1. None \notin Reasons  BY DEF WorkflowAssumption
<1>2. good(raw)
  <2>1. CASE ended  BY <2>1 DEF Settled, Ended, Terminal
  <2>2. CASE ~ended /\ park = "max_retries"
    <3>1. why = "max_retries" /\ why # None  BY <2>2, <1>1 DEF Reasons
    <3>2. raw = [status |-> PausedAs(why), why |-> why]  BY <2>2, <3>1
    <3> HIDE DEF why, raw
    <3> QED  BY <2>2, <3>1, <3>2 DEF PausedAs, AutoWakeReasons, Reasons, Settled
  <2>3. CASE ~ended /\ park # "max_retries"
    <3>1. /\ why \in {"operator", "handler_retry", None}
          /\ why = "operator" \/ ~(dp /\ ~errored)
          /\ why = "handler_retry" => park = "handler_retry"
      BY <2>3
    <3>2. CASE why = None
      <4>1. raw = [status |-> "running", why |-> None]  BY <2>3, <3>2
      <4> HIDE DEF why, raw
      <4> QED  BY <2>3, <3>1, <3>2, <4>1, <1>1 DEF Reasons
    <3>3. CASE why # None
      <4>1. raw = [status |-> PausedAs(why), why |-> why]  BY <2>3, <3>3
      <4> HIDE DEF why, raw
      <4> QED  BY <2>3, <3>1, <3>3, <4>1 DEF PausedAs, AutoWakeReasons, Reasons, Settled
    <3> QED  BY <3>2, <3>3
  <2> QED  BY <2>1, <2>2, <2>3
<1>3. \A e : e \in {raw, [status |-> "halted", why |-> "budget"],
                    [status |-> "paused", why |-> "budget"]} => good(e)
  BY <1>2 DEF Reasons, AutoWakeReasons, Settled, Ended
<1> QED  BY <1>0, <1>3, BudgetDecision


-----------------------------------------------------------------------------
(* The steps.                                                               *)

LEMMA Numbers ==
    ASSUME WorkflowAssumption
    PROVE  /\ GateCap \in Nat /\ Budget \in Nat /\ ProviderCap \in Nat /\ TimeoutCap \in Nat
           /\ LoopCap \in Nat /\ AbortCap \in Nat /\ MaxAsks \in Nat
  BY DEF WorkflowAssumption

LEMMA InitTurn == ASSUME WorkflowAssumption, Init PROVE TurnInv
<1>1. run \in Runs
  BY Numbers DEF Init, QueuedRun, Runs, Statuses, WorkflowAssumption
<1>2. lim \in [budget : Nat, retries : [Nodes -> Nat], gate : Nat]
  BY Numbers DEF Init, Limits, WorkflowAssumption
<1>3. /\ run.spend <= lim.budget /\ run.gateRetries <= lim.gate
      /\ \A n \in Nodes : run.retries[n] <= lim.retries[n] /\ run.timeouts[n] <= TimeoutCap
  BY Numbers DEF Init, QueuedRun, Limits, WorkflowAssumption
<1>4. TypeOK
  BY <1>1, <1>2, <1>3, Numbers DEF TypeOK, Init
<1>5. Driven /\ GatesRecorded /\ GatesHold
  BY DEF Init, QueuedRun, Driven, GatesRecorded, GatesHold
<1>6. Counted
  BY DEF Init, QueuedRun, Counted
<1> QED  BY <1>4, <1>5, <1>6 DEF TurnInv

\* A step that leaves the retry counters, the gates' outcomes and the limits alone
\* and sets no settled run going again.
LEMMA ControlStep ==
    ASSUME TurnInv, run' \in Runs, run'.retries = run.retries, run'.gates = run.gates,
           run'.gateRetries <= lim.gate, run'.spend <= lim.budget,
           \A n \in Nodes : run'.timeouts[n] <= TimeoutCap,
           lim' = lim, lastOut' = lastOut, tries' = tries, passes' \in Nat,
           owed' \in BOOLEAN, dropped' \in BOOLEAN, waived' \in BOOLEAN,
           inbox' \subseteq {"pause", "steer", "cancel"}, asks' \in Nat,
           fiber' \in FiberState \cup {None}, turn' \in Turns \cup {None},
           turn' # None => fiber' # None /\ turn'.taken \subseteq inbox', Driven',
           run'.status \notin Settled => run.status \notin Settled, GatesHold'
    PROVE  TurnInv'
<1>1. TypeOK'  BY DEF TurnInv, TypeOK
<1>2. GatesRecorded'  BY DEF TurnInv, GatesRecorded
<1>3. Counted'  BY DEF TurnInv, Counted
<1> QED  BY <1>1, <1>2, <1>3 DEF TurnInv

LEMMA ClaimStep == ASSUME WorkflowAssumption, TurnInv, Claim PROVE TurnInv'
<1> USE DEF TurnInv, TypeOK, Claim, history
<1>1. run' \in Runs  BY DEF Runs, Statuses
<1>2. /\ run'.retries = run.retries /\ run'.gates = run.gates /\ run'.timeouts = run.timeouts
      /\ run'.gateRetries = run.gateRetries /\ run'.spend = run.spend /\ run'.status = "running"
  BY DEF Runs
<1>3. fiber' \in FiberState  BY Numbers DEF FiberState
<1>4. Driven' /\ GatesHold' /\ run.status \notin Settled
  BY <1>2 DEF Driven, GatesHold, Settled, Ended
<1> QED  BY <1>1, <1>2, <1>3, <1>4, ControlStep

\* A step that parks or ends the run where it is, without a fiber.
LEMMA ParkStep ==
    ASSUME WorkflowAssumption, TurnInv, NEW status \in {"paused", "halted", "cancelled"},
           NEW why \in Reasons \cup {None},
           run' = [run EXCEPT !.status = status, !.why = why, !.open = FALSE],
           fiber' = None, turn = None, turn' = None, owed' = FALSE,
           inbox' \subseteq {"pause", "steer", "cancel"},
           UNCHANGED <<lim, asks, lastOut, tries, passes, dropped, waived>>
    PROVE  TurnInv'
<1> USE DEF TurnInv, TypeOK
<1>1. run' \in Runs  BY DEF Runs, Statuses, Settled, Ended
<1>2. /\ run'.retries = run.retries /\ run'.gates = run.gates /\ run'.timeouts = run.timeouts
      /\ run'.gateRetries = run.gateRetries /\ run'.spend = run.spend /\ run'.status = status
  BY DEF Runs
<1>3. Driven' /\ GatesHold' /\ run'.status \in Settled
  BY <1>2 DEF Driven, GatesHold, Settled, Ended
<1> QED  BY <1>1, <1>2, <1>3, ControlStep

LEMMA ParkSteps ==
    ASSUME WorkflowAssumption, TurnInv, PreDispatchHalts \/ FoldStops \/ LoopGate
    PROVE  TurnInv'
<1>0. inbox \subseteq {"pause", "steer", "cancel"} /\ {"error", "operator", "max_loops"} \subseteq Reasons
  BY DEF TurnInv, TypeOK, Reasons
<1>1. CASE PreDispatchHalts  BY <1>0, <1>1, ParkStep DEF PreDispatchHalts, Idle
<1>2. CASE FoldStops  BY <1>0, <1>2, ParkStep DEF FoldStops, Idle
<1>3. CASE LoopGate  BY <1>0, <1>3, ParkStep DEF LoopGate, Proceeds, Idle
<1> QED  BY <1>1, <1>2, <1>3


LEMMA StartStep == ASSUME WorkflowAssumption, TurnInv, StartRun PROVE TurnInv'
<1> USE DEF TurnInv, TypeOK, StartRun, Proceeds, Idle
<1>0. Defers \in BOOLEAN /\ Carry \in BOOLEAN /\ StartNode \in Nodes
  BY DEF Defers, Carry, WorkflowAssumption
<1>1. run' \in Runs  BY <1>0 DEF Runs
<1>2. /\ run'.retries = run.retries /\ run'.gates = run.gates /\ run'.timeouts = run.timeouts
      /\ run'.gateRetries = run.gateRetries /\ run'.spend = run.spend /\ run'.status = run.status
  BY DEF Runs
<1>3. Driven' /\ GatesHold' /\ owed' \in BOOLEAN
  BY <1>0, <1>2 DEF Driven, GatesHold
<1> QED  BY <1>1, <1>2, <1>3, ControlStep

LEMMA MarkerStep == ASSUME WorkflowAssumption, TurnInv, Marker PROVE TurnInv'
<1> USE DEF TurnInv, TypeOK, Marker, Proceeds, Idle, history
<1>1. run' \in Runs  BY DEF Runs
<1>2. /\ run'.retries = run.retries /\ run'.gates = run.gates /\ run'.timeouts = run.timeouts
      /\ run'.gateRetries = run.gateRetries /\ run'.spend = run.spend /\ run'.status = run.status
  BY DEF Runs
<1>3. Driven' /\ GatesHold'  BY <1>2 DEF Driven, GatesHold
<1> QED  BY <1>1, <1>2, <1>3, ControlStep

LEMMA CallStep == ASSUME WorkflowAssumption, TurnInv, CallHandler PROVE TurnInv'
<1> USE DEF TurnInv, TypeOK, CallHandler, Proceeds, Idle, history
<1>1. fiber' \in FiberState
  <2>1. fiber \in FiberState  OBVIOUS
  <2> QED  BY <2>1, Numbers DEF FiberState
<1>2. turn' \in Turns /\ turn'.taken = inbox
  <2>1. run.deferred \in BOOLEAN  BY DEF Runs
  <2> QED  BY <2>1 DEF Turns, Defers
<1>3. Driven' /\ GatesHold'  BY DEF Driven, GatesHold
<1>4. fiber' # None  BY <1>1 DEF WorkflowAssumption
<1> QED  BY <1>1, <1>2, <1>3, <1>4, ControlStep

LEMMA TimerStep == ASSUME WorkflowAssumption, TurnInv, Elapse \/ AutoWake PROVE TurnInv'
<1> USE DEF TurnInv, TypeOK, Elapse, AutoWake, Woken, history
<1>1. run' \in Runs
  <2>1. CASE Elapse  BY <2>1 DEF Runs
  <2>2. CASE AutoWake  BY <2>2 DEF Runs, Statuses
  <2> QED  BY <2>1, <2>2
<1>2. /\ run'.retries = run.retries /\ run'.gates = run.gates /\ run'.timeouts = run.timeouts
      /\ run'.gateRetries = run.gateRetries /\ run'.spend = run.spend
      /\ run'.status = run.status \/ (run.status = "paused_auto" /\ run'.status = "queued")
  <2>1. CASE Elapse  BY <2>1 DEF Runs
  <2>2. CASE AutoWake  BY <2>2 DEF Runs
  <2> QED  BY <2>1, <2>2
<1>3. Driven' /\ GatesHold' /\ (run'.status \notin Settled => run.status \notin Settled)
  BY <1>2 DEF Driven, GatesHold, Settled, Ended
<1> QED  BY <1>1, <1>2, <1>3, ControlStep

LEMMA SubmitStep ==
    ASSUME WorkflowAssumption, TurnInv,
           NEW I \in {{"pause"}, {"steer"}, {"pause", "steer"}, {"cancel"}}, Submit(I)
    PROVE  TurnInv'
<1> USE DEF TurnInv, TypeOK, Submit, history
<1>1. Driven' /\ GatesHold'  BY DEF Driven, GatesHold
<1>2. inbox' \subseteq {"pause", "steer", "cancel"} /\ asks' \in Nat /\ inbox \subseteq inbox'
  OBVIOUS
<1> QED  BY <1>1, <1>2, ControlStep

\* A resume may raise one limit, and starts the count of attempts afresh.
LEMMA ResumeStep == ASSUME WorkflowAssumption, TurnInv, Resume PROVE TurnInv'
<1> USE DEF TurnInv, TypeOK, Resume, Woken
<1>1. run' \in Runs  BY DEF Runs, Statuses
<1>2. /\ run'.retries = run.retries /\ run'.gates = run.gates /\ run'.timeouts = run.timeouts
      /\ run'.gateRetries = run.gateRetries /\ run'.spend = run.spend /\ run'.status = "queued"
  BY DEF Runs
<1>3. /\ lim' \in [budget : Nat, retries : [Nodes -> Nat], gate : Nat]
      /\ lim'.gate >= lim.gate /\ run.spend <= lim'.budget
      /\ \A n \in Nodes : lim'.retries[n] >= lim.retries[n]
  <2>0. run.spend \in Nat  BY DEF Runs
  <2>1. CASE UNCHANGED lim  BY <2>1
  <2>2. CASE run.why = "budget" /\ lim' = [lim EXCEPT !.budget = run.spend + 2]
    BY <2>0, <2>2
  <2>3. CASE run.why = "max_retries" /\ lim' = [lim EXCEPT !.retries[run.node] = @ + 1]
    BY <2>0, <2>3
  <2>4. CASE run.why = "goal_gate" /\ lim' = [lim EXCEPT !.gate = @ + 1]
    BY <2>0, <2>4
  <2> QED  BY <2>1, <2>2, <2>3, <2>4
<1>4. TypeOK'
  <2>1. \A n \in Nodes : run'.retries[n] <= lim'.retries[n] /\ run'.timeouts[n] <= TimeoutCap
    BY <1>2, <1>3 DEF Runs
  <2>2. run'.spend <= lim'.budget /\ run'.gateRetries <= lim'.gate
    BY <1>2, <1>3 DEF Runs
  <2>3. tries' \in [Nodes -> Nat] /\ asks' \in Nat  OBVIOUS
  <2> QED  BY <1>1, <1>3, <2>1, <2>2, <2>3
<1>5. Driven' /\ GatesHold' /\ GatesRecorded'
  BY <1>2 DEF Driven, GatesHold, GatesRecorded
<1>6. Counted'
  BY <1>2 DEF Counted, Runs
<1> QED  BY <1>4, <1>5, <1>6


-----------------------------------------------------------------------------
(* The ends of a handler.                                                   *)

\* Billing a turn touches the spend alone, and not past the budget.
LEMMA Billed ==
    ASSUME lim \in [budget : Nat, retries : [Nodes -> Nat], gate : Nat],
           NEW r \in Runs, r.spend <= lim.budget
    PROVE  /\ Bill(r) \in Runs /\ Bill(r).spend <= lim.budget
           /\ Bill(r).status = r.status /\ Bill(r).retries = r.retries
           /\ Bill(r).timeouts = r.timeouts /\ Bill(r).gates = r.gates
           /\ Bill(r).gateRetries = r.gateRetries /\ Bill(r).node = r.node
<1> DEFINE s == IF r.spend < lim.budget THEN r.spend + 1 ELSE r.spend
<1>1. s \in Nat /\ s <= lim.budget  BY DEF Runs
<1>2. Bill(r) = [r EXCEPT !.spend = s]  BY DEF Bill
<1> HIDE DEF s
<1> QED  BY <1>1, <1>2 DEF Runs

\* A handler's end that leaves the counters of retries and gates alone.
LEMMA EndStep ==
    ASSUME WorkflowAssumption, TurnInv, turn # None, run' \in Runs,
           run'.retries = run.retries, run'.gates = run.gates,
           run'.gateRetries = run.gateRetries, run'.spend <= lim.budget,
           \A n \in Nodes : run'.timeouts[n] <= TimeoutCap,
           run'.status # "completed", Consume, turn' = None, asks' \in Nat,
           fiber' \in FiberState \cup {None}, Driven',
           owed' \in BOOLEAN, dropped' \in BOOLEAN,
           UNCHANGED <<lim, lastOut, tries, passes, waived>>
    PROVE  TurnInv'
<1> USE DEF TurnInv, TypeOK
<1>1. inbox' \subseteq {"pause", "steer", "cancel"}  BY DEF Consume
<1>2. run.status = "running"  BY DEF Driven
<1>3. GatesHold' /\ (run'.status \notin Settled => run.status \notin Settled)
  BY <1>2 DEF GatesHold, Settled, Ended
<1> QED  BY <1>1, <1>3, ControlStep

LEMMA ErrStep == ASSUME WorkflowAssumption, TurnInv, turn # None, HandlerErrs PROVE TurnInv'
<1> USE DEF TurnInv, TypeOK, HandlerErrs
<1> DEFINE ended == [run EXCEPT !.status = "halted", !.why = "error", !.open = FALSE]
<1>1. ended \in Runs  BY DEF Runs, Statuses, Settled, Ended, Reasons
<1>2. /\ ended.retries = run.retries /\ ended.gates = run.gates /\ ended.timeouts = run.timeouts
      /\ ended.gateRetries = run.gateRetries /\ ended.spend = run.spend /\ ended.status = "halted"
  BY DEF Runs
<1>3. run' = Bill(ended)  OBVIOUS
<1> HIDE DEF ended
<1>4. /\ run' \in Runs /\ run'.retries = run.retries /\ run'.gates = run.gates
      /\ run'.timeouts = run.timeouts /\ run'.gateRetries = run.gateRetries
      /\ run'.spend <= lim.budget /\ run'.status = "halted"
  BY <1>1, <1>2, <1>3, Billed
<1>5. Driven' /\ owed' \in BOOLEAN  BY DEF Driven, Owe
<1> QED  BY <1>4, <1>5, EndStep

\* Parking a run under another status, reason and timer leaves a run.
LEMMA Parked ==
    ASSUME NEW r \in Runs, NEW st \in Statuses, NEW w \in Reasons \cup {None},
           NEW p \in 0 .. ProviderCap, NEW d \in BOOLEAN, NEW t \in {"unset", "future", "past"}
    PROVE  [r EXCEPT !.status = st, !.why = w, !.open = FALSE,
                     !.provider = p, !.deferred = d, !.timer = t] \in Runs
  BY DEF Runs

LEMMA ProviderStep ==
    ASSUME WorkflowAssumption, TurnInv, turn # None,
           NEW why \in {"overload", "refused"}, ProviderPauses(why)
    PROVE  TurnInv'
<1> USE DEF TurnInv, TypeOK
<1> DEFINE auto == why = "overload" /\ ProviderWithin
           reason == IF auto THEN "provider_retry"
                     ELSE IF why = "overload" THEN "provider_exhausted" ELSE "provider_error"
<1>0. reason \in Reasons /\ PausedAs(reason) \in {"paused", "paused_auto"}
  BY DEF Reasons, AutoWakeReasons, PausedAs
<1>a. auto => run.provider + 1 \in 0 .. ProviderCap
  BY Numbers DEF ProviderWithin, Runs
<1> DEFINE parked == [run EXCEPT !.status = PausedAs(reason), !.why = reason, !.open = FALSE,
                        !.provider = IF auto THEN ProviderAttempt ELSE @,
                        !.deferred = MarkerKept, !.timer = IF auto THEN "future" ELSE @]
<1>b. run' = Bill(parked)  BY Zenon DEF ProviderPauses
<1>c. fiber' = None /\ Consume /\ turn' = None /\ Owe(PausedAs(reason), run.deferred)
      /\ UNCHANGED <<lim, asks, lastOut, tries, passes, dropped, waived>>
  BY Zenon DEF ProviderPauses
<1> HIDE DEF reason, auto
<1>d. /\ run \in Runs /\ MarkerKept \in BOOLEAN
      /\ (IF auto THEN ProviderAttempt ELSE run.provider) \in 0 .. ProviderCap
      /\ (IF auto THEN "future" ELSE run.timer) \in {"unset", "future", "past"}
  BY <1>a DEF Runs, MarkerKept, ProviderAttempt
<1>e. PausedAs(reason) \in Statuses /\ reason \in Reasons \cup {None}
  BY <1>0 DEF Statuses, Settled, Ended
<1>1. parked \in Runs
  BY <1>d, <1>e, Parked, Zenon
<1>2. /\ parked.retries = run.retries /\ parked.gates = run.gates /\ parked.spend = run.spend
      /\ parked.timeouts = run.timeouts /\ parked.gateRetries = run.gateRetries
      /\ parked.status = PausedAs(reason)
  BY DEF Runs
<1> HIDE DEF parked
<1>3. /\ run' \in Runs /\ run'.retries = run.retries /\ run'.gates = run.gates
      /\ run'.timeouts = run.timeouts /\ run'.gateRetries = run.gateRetries
      /\ run'.spend <= lim.budget /\ run'.status \in {"paused", "paused_auto"}
  BY <1>0, <1>1, <1>2, <1>b, Billed
<1>4. Driven' /\ owed' \in BOOLEAN  BY <1>c DEF Driven, Owe
<1> QED  BY <1>c, <1>3, <1>4, EndStep

LEMMA HoldStep ==
    ASSUME WorkflowAssumption, TurnInv, turn # None, NEW o, GateHolds(o)
    PROVE  TurnInv'
<1> USE DEF TurnInv, TypeOK
<1> DEFINE end == SwapBudget(1, [status |-> "paused", why |-> "goal_gate"])
<1>0. end.status \in {"paused", "halted"} /\ end.why \in Reasons
  BY BudgetDecision DEF Reasons
<1>a. run' = [run EXCEPT !.status = end.status, !.why = end.why, !.open = FALSE]
  BY Zenon DEF GateHolds
<1>b. fiber' = None /\ Consume /\ turn' = None /\ Owe("paused", FALSE) /\ dropped' = TRUE
      /\ UNCHANGED <<lim, asks, lastOut, tries, passes, waived>>
  BY Zenon DEF GateHolds
<1> HIDE DEF end
<1>1. run' \in Runs  BY <1>0, <1>a DEF Runs, Statuses, Settled, Ended
<1>2. /\ run'.retries = run.retries /\ run'.gates = run.gates /\ run'.timeouts = run.timeouts
      /\ run'.gateRetries = run.gateRetries /\ run'.spend = run.spend
      /\ run'.status \in {"paused", "halted"}
  BY <1>0, <1>a DEF Runs
<1>3. Driven' /\ owed' \in BOOLEAN  BY <1>b DEF Driven, Owe
<1> QED  BY <1>b, <1>1, <1>2, <1>3, EndStep

\* What an exit that is no result may leave (planExit).
LEMMA ExitDecision ==
    ASSUME WorkflowAssumption, TurnInv, turn # None, NEW x \in ExitKinds
    PROVE  LET end == ExitEnd(x)
           IN /\ end.status \in Statuses \ {"completed"}
              /\ end.why \in Reasons \cup {None}
              /\ end.why = "timeout_retry" => run.timeouts[turn.node] + 1 < TimeoutCap
              /\ end.status = "running" => x = "abort" /\ fiber.aborts + 1 < AbortCap
<1>1. run.timeouts[turn.node] \in Nat /\ fiber.aborts \in Nat
  BY DEF TurnInv, TypeOK, Runs, Turns, FiberState, WorkflowAssumption
<1>2. None # "timeout_retry"
  BY DEF WorkflowAssumption, Reasons, AutoWakeReasons
<1>3. x \in {"abort", "tripped", "timeout", "shutdown", "throw", "leak"}  BY DEF ExitKinds
<1> QED
  BY <1>1, <1>2, <1>3, Numbers DEF ExitEnd, Statuses, Settled, Ended, Reasons, AutoWakeReasons

LEMMA ExitsStep ==
    ASSUME WorkflowAssumption, TurnInv, NEW x \in ExitKinds, Exits(x)
    PROVE  TurnInv'
<1> USE DEF TurnInv, TypeOK
<1> DEFINE end == ExitEnd(x)
<1>t. turn # None  BY DEF Exits
<1>0. /\ end.status \in Statuses \ {"completed"} /\ end.why \in Reasons \cup {None}
      /\ end.why = "timeout_retry" => run.timeouts[turn.node] + 1 < TimeoutCap
      /\ end.status = "running" => fiber.aborts + 1 < AbortCap
  BY <1>t, ExitDecision
<1> DEFINE left == [run EXCEPT !.status = end.status, !.why = end.why, !.open = FALSE,
                 !.deferred = MarkerKept,
                 !.timer = IF end.why = "timeout_retry" THEN TimeoutTimer ELSE @,
                 !.timeouts[turn.node] = IF end.why = "timeout_retry" THEN @ + 1 ELSE @]
<1>a. run' = Bill(left)  BY Zenon DEF Exits
<1>b. /\ fiber' = IF end.status = "running" THEN [fiber EXCEPT !.aborts = @ + 1] ELSE None
      /\ Owe(end.status, run.deferred) /\ Consume /\ turn' = None
      /\ asks' = (IF x = "shutdown" THEN asks - 1 ELSE asks)
      /\ UNCHANGED <<lim, lastOut, tries, passes, dropped, waived>>
  BY Zenon DEF Exits
<1>c. asks' \in Nat  BY <1>b DEF Exits
<1> HIDE DEF end
<1>d. turn.node \in Nodes  BY <1>t DEF Turns
<1>e. left \in Runs
  <2> DEFINE spent == [run.timeouts EXCEPT ![turn.node] =
                         IF end.why = "timeout_retry" THEN @ + 1 ELSE @]
             timer == IF end.why = "timeout_retry" THEN TimeoutTimer ELSE run.timer
  <2>1. spent \in [Nodes -> Nat]  BY <1>d DEF Runs
  <2>2. timer \in {"unset", "future", "past"}  BY DEF Runs, TimeoutTimer
  <2>3. left = [run EXCEPT !.status = end.status, !.why = end.why, !.open = FALSE,
                  !.deferred = MarkerKept, !.timer = timer, !.timeouts = spent]
    OBVIOUS
  <2> HIDE DEF spent, timer, left
  <2> QED  BY <1>0, <2>1, <2>2, <2>3 DEF Runs, MarkerKept
<1>f. /\ left.retries = run.retries /\ left.gates = run.gates /\ left.spend = run.spend
      /\ left.gateRetries = run.gateRetries /\ left.status = end.status
  BY DEF Runs
<1>3. \A n \in Nodes : left.timeouts[n] <= TimeoutCap
  BY <1>0, <1>d, Numbers DEF Runs
<1> HIDE DEF left
<1>1. run' \in Runs /\ run'.timeouts = left.timeouts
  BY <1>a, <1>e, <1>f, Billed
<1>2. /\ run'.retries = run.retries /\ run'.gates = run.gates
      /\ run'.gateRetries = run.gateRetries /\ run'.spend <= lim.budget
      /\ run'.status = end.status
  BY <1>a, <1>e, <1>f, Billed
<1>4. fiber' \in FiberState \cup {None}
  <2>1. fiber \in FiberState  BY <1>t
  <2> QED  BY <2>1, <1>0, <1>b, Numbers DEF FiberState
<1>5. Driven' /\ owed' \in BOOLEAN  BY <1>2, <1>b DEF Driven, Owe
<1> QED  BY <1>0, <1>b, <1>c, <1>t, <1>1, <1>2, <1>3, <1>4, <1>5, EndStep

-----------------------------------------------------------------------------
(* A transition lands.                                                      *)

\* A landing reaches a sink only over satisfied gates, or over the edge of a step
\* that is no gate and has failed.
LEMMA LandsOverGates ==
    ASSUME WorkflowAssumption, NEW n, NEW o, GoalGate(n, o).kind # "halt",
           Terminal(GoalGate(n, o).next)
    PROVE  \/ o = "fail" /\ n \notin Gates
           \/ \A g \in Gates : GateOutcomes(n, o)[g] \in {None, "success"}
<1>1. \A m \in Nodes : ~Terminal(m)  BY DEF WorkflowAssumption, Terminal
<1>2. /\ GoalGate(n, o).kind = "exit" /\ FailedGate(n, o) = None
      /\ GoalGate(n, o).next = SelectEdge(n, o)
  BY <1>1, GateDecision
<1> QED  BY <1>2, NoFailedGate

LEMMA LandStep ==
    ASSUME WorkflowAssumption, TurnInv, turn # None, NEW o \in Outcomes, Land(o)
    PROVE  TurnInv'
<1> USE DEF TurnInv, TypeOK
<1> DEFINE n    == turn.node
           gate == GoalGate(n, o)
           r    == RetryGate(n, o, gate.next)
           end  == Rewrite(o, r.next, r.park, turn.dp)
           kept == gate.kind = "retarget" /\ r.next = gate.next
           counts == kept /\ ~(Breached(1) /\ ~BudgetHalts)
           marker == run.deferred /\ ~(turn.dp /\ ~(r.next = "end" /\ o = "fail"))
           landed == [run EXCEPT
             !.status = end.status, !.why = end.why, !.node = r.next, !.open = FALSE,
             !.retries[n] = r.count, !.gates = GateOutcomes(n, o),
             !.gateRetries = IF counts THEN @ + 1 ELSE @,
             !.provider = 0, !.deferred = marker,
             !.timer = IF r.park = "handler_retry" THEN "future" ELSE @]
           fails == o = "retry" \/ LoopsBack(n, o)
<1>a. gate.kind # "halt" /\ run' = Bill(landed) /\ Keep(end.status) /\ Consume /\ turn' = None
  BY Zenon DEF Land
<1>b. /\ owed' \in BOOLEAN
      /\ lastOut' = IF n \in Gates THEN [lastOut EXCEPT ![n] = o] ELSE lastOut
      /\ tries' = [tries EXCEPT ![n] = IF o = "success" THEN 0
                                        ELSE IF fails THEN @ + 1 ELSE @]
      /\ passes' = (IF kept THEN passes + 1 ELSE passes)
      /\ waived' = (o = "fail" /\ n \notin Gates /\ r.next = "exit")
      /\ UNCHANGED <<lim, asks, dropped>>
  BY Zenon DEF Land, Owe
<1>n. n \in Nodes /\ turn.dp \in BOOLEAN  BY DEF Turns
<1>f. run.status = "running" /\ fiber \in FiberState  BY DEF Driven
<1>1. /\ gate.kind \in {"exit", "retarget"}
      /\ gate.kind = "exit" => gate.next = SelectEdge(n, o)
      /\ gate.kind = "retarget" => gate.next \in Nodes /\ ~(run.gateRetries >= lim.gate)
  BY <1>a, GateDecision
<1>2. gate.next \in Nodes \cup {"exit", "end"}
  BY <1>1, <1>n, EdgeTarget
<1>3. /\ r.park \in {None, "max_retries", "handler_retry"}
      /\ r.next \in {n, gate.next} /\ (r.park # None => r.next = n)
      /\ r.count \in Nat /\ r.count <= lim.retries[n]
      /\ o = "success" => r.count = 0
      /\ o # "success" /\ ~fails => r.count = run.retries[n]
      /\ o # "success" /\ fails /\ lim.retries[n] > 0 =>
            \/ r.park = "max_retries" /\ r.count = run.retries[n]
            \/ r.count = run.retries[n] + 1
  BY <1>n, RetryDecision
<1>4. \A m \in Nodes : ~Terminal(m)  BY DEF WorkflowAssumption, Terminal
<1>5. /\ end.status \in {"running", "paused", "paused_auto", "completed", "halted"}
      /\ end.why \in Reasons \cup {None}
      /\ end.status = "completed" => Terminal(r.next) /\ ~(r.next = "end" /\ o = "fail")
      /\ r.park = "max_retries" => end.status \in Settled
  BY <1>3, <1>4, <1>n, EndDecision
<1>6. end.status = "completed" =>
        \/ o = "fail" /\ n \notin Gates /\ r.next = "exit"
        \/ \A g \in Gates : GateOutcomes(n, o)[g] \in {None, "success"}
  <2>1. SUFFICES ASSUME end.status = "completed"
                 PROVE  \/ o = "fail" /\ n \notin Gates /\ r.next = "exit"
                        \/ \A g \in Gates : GateOutcomes(n, o)[g] \in {None, "success"}
    OBVIOUS
  <2>2. Terminal(r.next) /\ ~(r.next = "end" /\ o = "fail")  BY <1>5, <2>1
  <2>3. r.next = gate.next  BY <1>3, <1>4, <1>n, <2>2
  <2>4. \/ o = "fail" /\ n \notin Gates
        \/ \A g \in Gates : GateOutcomes(n, o)[g] \in {None, "success"}
    BY <1>a, <2>2, <2>3, LandsOverGates
  <2> QED  BY <2>2, <2>4 DEF Terminal
<1>7. /\ GateOutcomes(n, o) \in [Gates -> Outcomes \cup {None}]
      /\ GateOutcomes(n, o) = lastOut'
  BY <1>b DEF GateOutcomes, GatesRecorded, Runs
<1>g. (IF counts THEN run.gateRetries + 1 ELSE run.gateRetries) \in 0 .. lim.gate
  BY <1>1 DEF Runs
<1>8. landed \in Runs
  <2> DEFINE retries == [run.retries EXCEPT ![n] = r.count]
             gateRetries == IF counts THEN run.gateRetries + 1 ELSE run.gateRetries
             timer == IF r.park = "handler_retry" THEN "future" ELSE run.timer
  <2>1. retries \in [Nodes -> Nat]  BY <1>3 DEF Runs
  <2>2. gateRetries \in Nat  BY <1>g
  <2>3. timer \in {"unset", "future", "past"}  BY DEF Runs
  <2>4. marker \in BOOLEAN /\ r.next \in Nodes \cup {"exit", "end", None}
    BY <1>2, <1>3, <1>n DEF Runs
  <2>5. landed = [run EXCEPT
             !.status = end.status, !.why = end.why, !.node = r.next, !.open = FALSE,
             !.retries = retries, !.gates = GateOutcomes(n, o), !.gateRetries = gateRetries,
             !.provider = 0, !.deferred = marker, !.timer = timer]
    OBVIOUS
  <2> HIDE DEF retries, gateRetries, timer, marker, landed, end, r, gate, counts
  <2>6. landed = [status |-> end.status, node |-> r.next, open |-> FALSE, why |-> end.why,
                  spend |-> run.spend, retries |-> retries, timeouts |-> run.timeouts,
                  gates |-> GateOutcomes(n, o), gateRetries |-> gateRetries, provider |-> 0,
                  timer |-> timer, deferred |-> marker]
    BY <2>5 DEF Runs
  <2>7. end.status \in Statuses  BY <1>5 DEF Statuses, Settled, Ended
  <2> QED
    BY <1>5, <1>7, <2>1, <2>2, <2>3, <2>4, <2>6, <2>7, Numbers DEF Runs
<1>9. /\ landed.status = end.status /\ landed.gates = GateOutcomes(n, o)
      /\ landed.retries = [run.retries EXCEPT ![n] = r.count]
      /\ landed.timeouts = run.timeouts /\ landed.spend = run.spend
      /\ landed.gateRetries = IF counts THEN run.gateRetries + 1 ELSE run.gateRetries
  BY DEF Runs
<1> HIDE DEF landed, end, r, gate, counts, kept, fails, n
<1>10. /\ run' \in Runs /\ run'.status = end.status /\ run'.gates = lastOut'
       /\ run'.retries = [run.retries EXCEPT ![n] = r.count]
       /\ run'.timeouts = run.timeouts /\ run'.spend <= lim.budget
       /\ run'.gateRetries <= lim.gate
  BY <1>a, <1>7, <1>8, <1>9, <1>g, Billed
<1>11. TypeOK'
  <2>1. \A m \in Nodes : run'.retries[m] <= lim'.retries[m] /\ run'.timeouts[m] <= TimeoutCap
    BY <1>b, <1>n, <1>3, <1>10 DEF Runs
  <2>2. fiber' \in FiberState \cup {None}
    BY <1>a, <1>f, Numbers DEF Keep, FiberState
  <2>3. tries' \in [Nodes -> Nat]  BY <1>b, <1>n
  <2>4. lastOut' \in [Gates -> Outcomes \cup {None}]  BY <1>7
  <2>5. passes' \in Nat /\ waived' \in BOOLEAN  BY <1>b
  <2>6. inbox' \subseteq {"pause", "steer", "cancel"}  BY <1>a DEF Consume
  <2> QED  BY <1>a, <1>b, <1>10, <2>1, <2>2, <2>3, <2>4, <2>5, <2>6
<1>12. Driven'  BY <1>a, <1>10 DEF Driven, Keep
<1>13. GatesRecorded'  BY <1>10 DEF GatesRecorded
<1>14. GatesHold'  BY <1>6, <1>7, <1>10, <1>b DEF GatesHold
<1>15. Counted'
  <2>1. SUFFICES ASSUME NEW m \in Nodes, lim.retries[m] > 0
                 PROVE  /\ tries'[m] <= run'.retries[m] + 1
                        /\ run'.status \notin Settled => tries'[m] <= run'.retries[m]
    BY <1>b DEF Counted
  <2>2. tries[m] <= run.retries[m] /\ tries[m] \in Nat /\ run.retries[m] \in Nat
    BY <2>1, <1>f DEF Counted, Settled, Ended, Runs
  <2>3. CASE m # n
    BY <1>10, <1>b, <2>2, <2>3 DEF Runs
  <2>4. CASE m = n
    <3>1. run'.retries[n] = r.count /\ tries[n] <= run.retries[n]
      BY <1>10, <2>2, <2>4 DEF Runs
    <3>2. tries'[n] = IF o = "success" THEN 0 ELSE IF fails THEN tries[n] + 1 ELSE tries[n]
      BY <1>b, <2>4
    <3>3. r.park = "max_retries" => run'.status \in Settled  BY <1>5, <1>10
    <3> QED  BY <1>3, <2>1, <2>2, <2>4, <3>1, <3>2, <3>3
  <2> QED  BY <2>3, <2>4
<1> QED  BY <1>11, <1>12, <1>13, <1>14, <1>15


\* The exit step lands, parks, goes back to a gate's target, or is not known.
LEMMA ExitStepStep == ASSUME WorkflowAssumption, TurnInv, ExitStep PROVE TurnInv'
<1> USE DEF TurnInv, TypeOK
<1> DEFINE lost == run.node = "end"
           dp   == Defers \/ run.deferred
           gate == GoalGate(run.node, None)
           end  == CASE lost -> [status |-> "halted", why |-> "error"]
                     [] ~lost /\ gate.kind = "halt" ->
                            SwapBudget(0, [status |-> "paused", why |-> "goal_gate"])
                     [] OTHER -> Rewrite(None, gate.next, None, dp)
           again  == ~lost /\ gate.kind = "retarget"
           counts == again /\ ~(Breached(0) /\ ~BudgetHalts)
           lands  == ~lost /\ gate.kind # "halt"
           marker == run.deferred /\ ~lands
           landed == [run EXCEPT
               !.status = end.status, !.why = end.why, !.open = FALSE,
               !.node = IF lands THEN gate.next ELSE @,
               !.gateRetries = IF counts THEN @ + 1 ELSE @,
               !.provider = IF lands THEN 0 ELSE @, !.deferred = marker]
<1>a. /\ fiber # None /\ turn = None /\ run.status = "running"
      /\ run.node \in {"exit", "end"} /\ fiber.dispatches < LoopCap
  BY DEF ExitStep, Proceeds, Idle, Terminal
<1>b. /\ run' = landed
      /\ fiber' = IF end.status = "running"
                  THEN [dispatches |-> fiber.dispatches + 1, aborts |-> 0] ELSE None
      /\ inbox' = (IF lost THEN inbox ELSE {})
      /\ owed' \in BOOLEAN
      /\ passes' = (IF again THEN passes + 1 ELSE passes)
      /\ waived' = (waived /\ ~again)
      /\ UNCHANGED <<lim, turn, asks, lastOut, tries, dropped>>
  BY Zenon DEF ExitStep
<1>n. run.node \notin Gates /\ None # "fail"
  BY <1>a DEF WorkflowAssumption, Outcomes
<1>1. /\ gate.kind \in {"exit", "halt", "retarget"}
      /\ gate.kind = "exit" => gate.next = "end"
      /\ gate.kind = "retarget" => gate.next \in Nodes /\ ~(run.gateRetries >= lim.gate)
  BY GateDecision, ExitEdge
<1>2. lands => gate.next \in Nodes \cup {"end"}  BY <1>1
<1>4. dp \in BOOLEAN  BY DEF Defers, Runs
<1>5. /\ end.status \in {"running", "paused", "paused_auto", "completed", "halted"}
      /\ end.why \in Reasons \cup {None}
      /\ end.status = "completed" => lands /\ Terminal(gate.next)
  <2>1. CASE lost
    <3>1. end = [status |-> "halted", why |-> "error"]  BY <2>1
    <3> QED  BY <3>1 DEF Reasons
  <2>2. CASE ~lost /\ gate.kind = "halt"
    <3>1. end = SwapBudget(0, [status |-> "paused", why |-> "goal_gate"])  BY <2>2
    <3> QED  BY <3>1, BudgetDecision DEF Reasons
  <2>3. CASE lands
    <3>1. end = Rewrite(None, gate.next, None, dp)  BY <2>3
    <3> HIDE DEF end, gate, dp
    <3> QED  BY <2>3, <3>1, <1>4, EndDecision
  <2> QED  BY <2>1, <2>2, <2>3
<1>6. end.status = "completed" => \A g \in Gates : run.gates[g] \in {None, "success"}
  <2>1. SUFFICES ASSUME end.status = "completed"
                 PROVE  \A g \in Gates : run.gates[g] \in {None, "success"}
    OBVIOUS
  <2>2. lands /\ Terminal(gate.next)  BY <1>5, <2>1
  <2>3. \A g \in Gates : GateOutcomes(run.node, None)[g] \in {None, "success"}
    BY <2>2, <1>n, LandsOverGates
  <2> QED  BY <2>3, <1>n DEF GateOutcomes
<1>g. (IF counts THEN run.gateRetries + 1 ELSE run.gateRetries) \in 0 .. lim.gate
  BY <1>1 DEF Runs
<1>8. landed \in Runs
  <2> DEFINE gateRetries == IF counts THEN run.gateRetries + 1 ELSE run.gateRetries
             node == IF lands THEN gate.next ELSE run.node
             provider == IF lands THEN 0 ELSE run.provider
  <2>1. gateRetries \in Nat  BY <1>g
  <2>2. node \in Nodes \cup {"exit", "end"}  BY <1>2, <1>a
  <2>3. provider \in 0 .. ProviderCap  BY Numbers DEF Runs
  <2>4. marker \in BOOLEAN  BY DEF Runs
  <2>5. landed = [run EXCEPT !.status = end.status, !.why = end.why, !.open = FALSE,
                    !.node = node, !.gateRetries = gateRetries, !.provider = provider,
                    !.deferred = marker]
    OBVIOUS
  <2>6. end.status \in Statuses  BY <1>5 DEF Statuses, Settled, Ended
  <2> HIDE DEF gateRetries, node, provider, marker, landed, end
  <2> QED  BY <1>5, <2>1, <2>2, <2>3, <2>4, <2>5, <2>6 DEF Runs
<1>9. /\ landed.status = end.status /\ landed.gates = run.gates
      /\ landed.retries = run.retries /\ landed.timeouts = run.timeouts
      /\ landed.spend = run.spend /\ landed.gateRetries <= lim.gate
  BY <1>g DEF Runs
<1> HIDE DEF landed, end, gate, counts, again, lands, lost, dp, marker
<1>10. /\ run' \in Runs /\ run'.status = end.status /\ run'.gates = run.gates
       /\ run'.retries = run.retries /\ run'.timeouts = run.timeouts
       /\ run'.spend = run.spend /\ run'.gateRetries <= lim.gate
  BY <1>b, <1>8, <1>9
<1>11. fiber' \in FiberState \cup {None}
  BY <1>a, <1>b, Numbers DEF FiberState
<1>12. /\ passes' \in Nat /\ waived' \in BOOLEAN
       /\ inbox' \subseteq {"pause", "steer", "cancel"}
  BY <1>b
<1>13. Driven' /\ run.status \notin Settled
  BY <1>a, <1>b, <1>10 DEF Driven, Settled, Ended
<1>14. GatesHold'
  BY <1>6, <1>10, <1>b DEF GatesHold, GatesRecorded
<1> QED  BY <1>a, <1>b, <1>10, <1>11, <1>12, <1>13, <1>14, ControlStep

-----------------------------------------------------------------------------
(* The theorems.                                                            *)

LEMMA TurnStep == ASSUME WorkflowAssumption, TurnInv, [Next]_vars PROVE TurnInv'
<1>1. CASE UNCHANGED vars
  BY <1>1 DEF vars, code, history, TurnInv, TypeOK, Driven, GatesRecorded, Counted, GatesHold,
              Runs, Turns, FiberState
<1>2. CASE Claim  BY <1>2, ClaimStep
<1>3. CASE PreDispatchHalts \/ FoldStops \/ LoopGate  BY <1>3, ParkSteps
<1>4. CASE StartRun  BY <1>4, StartStep
<1>5. CASE Marker  BY <1>5, MarkerStep
<1>6. CASE CallHandler  BY <1>6, CallStep
<1>7. CASE ExitStep  BY <1>7, ExitStepStep
<1>8. ASSUME NEW res \in Outcomes \cup Failures, Returns(res) PROVE TurnInv'
  BY <1>8, LandStep, HoldStep, ProviderStep, ErrStep DEF Returns
<1>9. ASSUME NEW x \in ExitKinds, Exits(x) PROVE TurnInv'  BY <1>9, ExitsStep
<1>10. CASE Elapse \/ AutoWake  BY <1>10, TimerStep
<1>11. CASE Resume  BY <1>11, ResumeStep
<1>12. ASSUME NEW I \in {{"pause"}, {"steer"}, {"pause", "steer"}, {"cancel"}}, Submit(I)
       PROVE  TurnInv'
  BY <1>12, SubmitStep
<1> QED
  BY <1>1, <1>2, <1>3, <1>4, <1>5, <1>6, <1>7, <1>8, <1>9, <1>10, <1>11, <1>12
     DEF Next, Executor, HandlerEnds, Operator

THEOREM TurnInvariant == ASSUME WorkflowAssumption PROVE Spec => []TurnInv
<1>1. Init => TurnInv  BY InitTurn
<1>2. TurnInv /\ [Next]_vars => TurnInv'  BY TurnStep
<1> QED  BY <1>1, <1>2, PTL DEF Spec

\* A linear run has its types and its counters stay within the limits, a raise
\* included (TypeOK).
THEOREM TurnTypeCorrect == ASSUME WorkflowAssumption PROVE Spec => []TypeOK
<1>1. TurnInv => TypeOK  BY DEF TurnInv
<1> QED  BY <1>1, TurnInvariant, PTL

\* A run completes only over gates whose last landed outcome is a success, or over
\* the fail edge of a plain step, and no step is tried oftener than its cap admits
\* between two operator actions (applyGoalGate, applyRetryGate).
THEOREM TurnSafeHolds == ASSUME WorkflowAssumption PROVE Spec => []TurnSafe
<1>1. ASSUME TurnInv PROVE TriesWithinCap
  <2>1. SUFFICES ASSUME NEW n \in Nodes, lim.retries[n] > 0
                 PROVE  tries[n] <= lim.retries[n] + 1
    BY DEF TriesWithinCap
  <2>2. tries[n] <= run.retries[n] + 1 /\ run.retries[n] <= lim.retries[n]
    BY <1>1, <2>1 DEF TurnInv, TypeOK, Counted
  <2>3. tries[n] \in Nat /\ run.retries[n] \in Nat /\ lim.retries[n] \in Nat
    BY <1>1 DEF TurnInv, TypeOK, Runs
  <2> QED  BY <2>2, <2>3
<1>2. TurnInv => TurnSafe  BY <1>1 DEF TurnInv, TurnSafe
<1> QED  BY <1>2, TurnInvariant, PTL


-----------------------------------------------------------------------------
(* What no step may do to a parked run.                                     *)

\* A step that parks for the timer sets it, and one that drops the marker of a
\* deferred pause leaves the run standing still.
Parks ==
    /\ run'.status = "paused_auto" /\ run.status # "paused_auto" => run'.timer = "future"
    /\ run.deferred /\ ~run'.deferred => run'.status \in Settled

\* The stages of a landing, for what it does to the marker and the timer.
LEMMA LandParks ==
    ASSUME WorkflowAssumption, TurnInv, turn # None, NEW o \in Outcomes, Land(o)
    PROVE  Parks
<1> USE DEF TurnInv, TypeOK
<1> DEFINE n    == turn.node
           gate == GoalGate(n, o)
           r    == RetryGate(n, o, gate.next)
           end  == Rewrite(o, r.next, r.park, turn.dp)
           marker == run.deferred /\ ~(turn.dp /\ ~(r.next = "end" /\ o = "fail"))
<1>n. n \in Nodes /\ turn.dp \in BOOLEAN  BY DEF Turns
<1>1. /\ run'.status = end.status /\ run'.deferred = marker
      /\ r.park = "handler_retry" => run'.timer = "future"
  BY DEF Land, Bill, Runs
<1>2. /\ r.park \in {None, "max_retries", "handler_retry"}
      /\ r.next \in {n, gate.next} /\ (r.park # None => r.next = n)
  BY <1>n, RetryDecision
<1>3. r.park # None => ~Terminal(r.next)  BY <1>n, <1>2 DEF WorkflowAssumption, Terminal
<1> HIDE DEF n, r, gate
<1>4. /\ turn.dp /\ ~(r.next = "end" /\ o = "fail") => end.status \in Settled
      /\ end.status = "paused_auto" => r.park = "handler_retry"
  BY <1>n, <1>2, <1>3, EndDecision
<1> HIDE DEF end
<1> QED  BY <1>1, <1>4 DEF Parks

LEMMA ExitStepParks == ASSUME WorkflowAssumption, TurnInv, ExitStep PROVE Parks
<1> USE DEF TurnInv, TypeOK
<1> DEFINE lost == run.node = "end"
           dp   == Defers \/ run.deferred
           gate == GoalGate(run.node, None)
           end  == CASE lost -> [status |-> "halted", why |-> "error"]
                     [] ~lost /\ gate.kind = "halt" ->
                            SwapBudget(0, [status |-> "paused", why |-> "goal_gate"])
                     [] OTHER -> Rewrite(None, gate.next, None, dp)
           lands  == ~lost /\ gate.kind # "halt"
<1>1. run'.status = end.status /\ run'.deferred = (run.deferred /\ ~lands)
  BY DEF ExitStep, Runs
<1>2. CASE lost
  <2>1. end = [status |-> "halted", why |-> "error"]  BY <1>2
  <2> QED  BY <1>1, <2>1 DEF Parks, Settled, Ended
<1>3. CASE ~lost /\ gate.kind = "halt"
  <2>1. end = SwapBudget(0, [status |-> "paused", why |-> "goal_gate"])  BY <1>3
  <2>2. end.status \in {"paused", "halted"}  BY <2>1, BudgetDecision
  <2> QED  BY <1>1, <2>2 DEF Parks, Settled, Ended
<1>4. CASE lands
  <2>1. end = Rewrite(None, gate.next, None, dp)  BY <1>4
  <2>2. dp \in BOOLEAN /\ None # "fail" /\ None # "handler_retry"
    <3>1. None \notin Outcomes /\ None \notin Reasons  BY DEF WorkflowAssumption
    <3> QED  BY <3>1 DEF Defers, Runs, Outcomes, Reasons, AutoWakeReasons
  <2> HIDE DEF end, gate, dp
  <2>3. (dp => end.status \in Settled) /\ end.status # "paused_auto"
    BY <2>1, <2>2, EndDecision
  <2>4. run.deferred => dp  BY DEF dp
  <2> QED  BY <1>1, <2>3, <2>4 DEF Parks
<1> QED  BY <1>2, <1>3, <1>4

LEMMA ExitsPark ==
    ASSUME WorkflowAssumption, TurnInv, NEW x \in ExitKinds, Exits(x) PROVE Parks
<1> USE DEF TurnInv, TypeOK
<1> DEFINE end == ExitEnd(x)
<1>1. /\ run'.status = end.status /\ run'.deferred = run.deferred
      /\ end.why = "timeout_retry" => run'.timer = "future"
  BY DEF Exits, Bill, Runs, MarkerKept, TimeoutTimer
<1>2. end.status = "paused_auto" => end.why = "timeout_retry"
  BY DEF ExitEnd, ExitKinds
<1> QED  BY <1>1, <1>2 DEF Parks

LEMMA ProviderParks ==
    ASSUME WorkflowAssumption, TurnInv, NEW why \in {"overload", "refused"}, ProviderPauses(why)
    PROVE  Parks
<1> USE DEF TurnInv, TypeOK
<1> DEFINE auto == why = "overload" /\ ProviderWithin
           reason == IF auto THEN "provider_retry"
                     ELSE IF why = "overload" THEN "provider_exhausted" ELSE "provider_error"
<1>1. /\ run'.status = PausedAs(reason) /\ run'.deferred = run.deferred
      /\ auto => run'.timer = "future"
  BY DEF ProviderPauses, Bill, Runs, MarkerKept
<1>2. PausedAs(reason) = "paused_auto" => auto  BY DEF PausedAs, AutoWakeReasons
<1> QED  BY <1>1, <1>2 DEF Parks

LEMMA StepParks == ASSUME WorkflowAssumption, TurnInv, [Next]_vars PROVE Parks
<1> USE DEF TurnInv, TypeOK
<1>1. CASE UNCHANGED vars  BY <1>1 DEF vars, code, Parks
<1>2. CASE Claim \/ PreDispatchHalts \/ FoldStops \/ LoopGate
  BY <1>2 DEF Claim, PreDispatchHalts, FoldStops, LoopGate, Parks, Runs
<1>3. CASE StartRun \/ Marker \/ CallHandler \/ Elapse
  BY <1>3 DEF StartRun, Marker, CallHandler, Elapse, Carry, Parks, Runs
<1>4. CASE AutoWake \/ Resume
  BY <1>4 DEF AutoWake, Resume, Woken, Parks, Runs
<1>5. CASE ExitStep  BY <1>5, ExitStepParks
<1>6. ASSUME NEW res \in Outcomes \cup Failures, Returns(res) PROVE Parks
  <2>1. CASE res \in Outcomes /\ Land(res)  BY <1>6, <2>1, LandParks DEF Returns
  <2>2. CASE GateHolds(res)
    BY <2>2, BudgetDecision DEF GateHolds, Parks, Runs
  <2>3. CASE res \in {"overload", "refused"} /\ ProviderPauses(res)  BY <2>3, ProviderParks
  <2>4. CASE HandlerErrs  BY <2>4 DEF HandlerErrs, Bill, Parks, Runs
  <2> QED  BY <1>6, <2>1, <2>2, <2>3, <2>4 DEF Returns
<1>7. ASSUME NEW x \in ExitKinds, Exits(x) PROVE Parks  BY <1>7, ExitsPark
<1>8. ASSUME NEW I \in {{"pause"}, {"steer"}, {"pause", "steer"}, {"cancel"}}, Submit(I)
      PROVE  Parks
  BY <1>8 DEF Submit, Parks
<1> QED
  BY <1>1, <1>2, <1>3, <1>4, <1>5, <1>6, <1>7, <1>8
     DEF Next, Executor, HandlerEnds, Operator

\* A run that parks for the timer has its wake-up time still ahead of it, never one
\* left by an earlier park (auto_resume_at).
THEOREM BackoffHeldAlways == ASSUME WorkflowAssumption PROVE Spec => BackoffHeld
<1>1. TurnInv /\ [Next]_vars =>
        [run'.status = "paused_auto" /\ run.status # "paused_auto" => run'.timer = "future"]_vars
  BY StepParks DEF Parks
<1> QED  BY <1>1, TurnInvariant, PTL DEF Spec, BackoffHeld

\* A pause deferred over run_started stays in the routing until the run stands
\* still: no automatic park, retarget or abort sheds it (buildRoutingPatch).
THEOREM MarkerSurvivesAlways == ASSUME WorkflowAssumption PROVE Spec => MarkerSurvives
<1>1. TurnInv /\ [Next]_vars =>
        [run.deferred /\ ~run'.deferred => run'.status \in Settled]_vars
  BY StepParks DEF Parks
<1> QED  BY <1>1, TurnInvariant, PTL DEF Spec, MarkerSurvives

\* What the routing owes over a park or an abort is neither stale nor shed
\* (buildRoutingPatch, planExit).
THEOREM RoutingHeldAlways == ASSUME WorkflowAssumption PROVE Spec => RoutingHeld
  BY BackoffHeldAlways, MarkerSurvivesAlways DEF RoutingHeld
=============================================================================
