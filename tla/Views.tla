---------------------------------- MODULE Views ----------------------------------
(***************************************************************************)
(* A run's event log and everything that is read off it.  The daemon        *)
(* commits facts (in batches, one transaction each) and the store folds     *)
(* each fact into the run_state row; the startup sweep and the claim write  *)
(* the row with SQL of their own.  The read plane derives node states,      *)
(* steps and an outcome from the log; the web page folds the live events    *)
(* over a snapshot; the command line follows the log or waits on the row.   *)
(***************************************************************************)
EXTENDS Integers, Sequences, FiniteSets, SequencesExt

CONSTANTS Loop,          \* a step that may be visited again: the start step
          Par, Branches, \* a parallel step and its branch entries
          MaxBatches,    \* bound: transactions of the daemon, crashes and refetches together
          MaxFaults,     \* bound: crashes and quarantines
          MaxFetches,    \* bound: snapshots the page asks for
          None

VARIABLES log,       \* the events of the run, by seq
          row,       \* the run_state row
          batches, faults,
          reader,    \* who reads: "page", "follow" or "wait"
          page,      \* the browser: snapshot, request, overlay, newest event heard, fetches
          cmd        \* the command: where it is, its cursor, its exit code

vars == <<log, row, batches, faults, reader, page, cmd>>

Nodes == {Loop, Par} \cup Branches
Terminal == {"completed", "cancelled", "halted"}
Settled == Terminal \cup {"quarantined"}
AutoWake == {"retry"}
Keys == Nodes \X (0 .. MaxBatches)

\* An event: its type, its node, its (pass, iteration) as one visit number, the
\* field that tells payloads apart (a status, a reason, an outcome), and the next
\* node of a completion.
Event(k, n, i, v) == [k |-> k, n |-> n, i |-> i, v |-> v, to |-> None]
RunFact(k, v) == Event(k, None, 0, v)

\* ------------------------------------------------------------ the reducer
Closed(r) == [r EXCEPT !.open = FALSE]
InFrontier(r, n) == r.front # None /\ n \in r.front

\* applyFact, the facts of a node.  A step of a live frontier leaves the run's
\* pointer where it is; any other completion moves it.
ApplyNode(r, e) ==
    CASE e.k = "run_started" -> [r EXCEPT !.status = "running", !.node = e.n, !.open = TRUE]
      [] e.k = "dispatch_started" ->
           [r EXCEPT !.status = IF @ = "queued" THEN "running" ELSE @, !.open = TRUE,
                     !.front = IF @ = None THEN None ELSE @ \cup {e.n}]
      [] e.k = "node_started" -> [r EXCEPT !.status = "running", !.node = e.n]
      [] e.k = "node_completed" ->
           IF InFrontier(r, e.n) THEN [r EXCEPT !.cost = @ + 1, !.front = @ \ {e.n}]
           ELSE [Closed(r) EXCEPT !.cost = @ + 1, !.node = e.to]
      [] e.k = "node_aborted" ->
           [(IF InFrontier(r, e.n) THEN r ELSE Closed(r)) EXCEPT !.cost = @ + 1]
      [] e.k = "fanout_started" -> [r EXCEPT !.front = Branches, !.status = "running"]
      [] e.k = "fanout_joined" -> [Closed(r) EXCEPT !.front = None, !.node = Loop]
      [] OTHER -> r

PauseStatus(reason) == CASE reason = "human" -> "paused_human"
                         [] reason \in AutoWake -> "paused_auto"
                         [] OTHER -> "paused"
EndStatus(v) == CASE v = "completed" -> "completed" [] v = "aborted" -> "cancelled" [] OTHER -> "halted"

\* applyFact, the facts of the run.
ApplyRun(r, e) ==
    CASE e.k = "run_paused" -> [Closed(r) EXCEPT !.status = PauseStatus(e.v)]
      [] e.k = "run_resumed" -> [r EXCEPT !.status = "queued"]
      [] e.k = "run_terminated" -> [Closed(r) EXCEPT !.status = EndStatus(e.v), !.node = IF e.v = "completed" THEN e.n ELSE @]
      [] e.k = "run_quarantined" -> [Closed(r) EXCEPT !.status = "quarantined", !.node = None]
      [] e.k = "run_requeued" -> [Closed(r) EXCEPT !.status = "queued"]
      [] OTHER -> r

ApplyFact(r, e) == ApplyRun(ApplyNode(r, e), e)

\* genesisToInitialState, and deriveRunState: the row a bundle import rebuilds.
Genesis == [status |-> "queued", node |-> None, front |-> None, open |-> FALSE, cost |-> 0]
DeriveRunState(events) == FoldLeft(ApplyFact, Genesis, events)

\* ------------------------------------------------------------ the read plane
RunState == {"run_terminated", "run_quarantined", "run_paused", "run_resumed"}
TerminalRunFact == {"run_terminated", "run_quarantined"}
Newest(S) == CHOOSE x \in S : \A y \in S : y <= x
Oldest(S) == CHOOSE x \in S : \A y \in S : x <= y
At(events, P(_)) == {s \in DOMAIN events : P(events[s])}

StateAfter(e) == CASE e.k = "fanout_joined" -> "completed"
                   [] e.k = "node_completed" -> IF e.v = "fail" THEN "failed" ELSE "completed"
                   [] e.k = "node_aborted" -> "failed"
                   [] OTHER -> "running"
NodeFact == {"node_started", "dispatch_started", "node_completed", "node_aborted", "fanout_started", "fanout_joined"}
\* The keys an event writes; a region's start also opens its branch entries.
KeysOf(e) == CASE e.k \notin NodeFact -> {}
               [] e.k = "fanout_started" -> {<<e.n, e.i>>} \cup {<<b, 0>> : b \in Branches}
               [] OTHER -> {<<e.n, e.i>>}

\* latestRunPaused: the node of the pause in force, unless it is a question.
LatestRunPaused(events) ==
    LET S == At(events, LAMBDA e : e.k \in RunState)
        e == events[Newest(S)]
    IN  IF S = {} \/ e.k # "run_paused" \/ e.v = "human" THEN None ELSE e.n

\* deriveNodeStates: the last fact of a key decides; a node still running when the
\* run stopped badly has failed; a node the pause in force aborted is suspended.
NodeRow(st, s) == [st |-> st, at |-> s]
DeriveNodeStates(events) ==
    LET halted == At(events, LAMBDA e : e.k \in TerminalRunFact /\ e.v # "completed")
        paused == LatestRunPaused(events)
        pauses == At(events, LAMBDA e : e.k = "run_paused")
        seen(k) == At(events, LAMBDA e : k \in KeysOf(e))
    IN  [k \in {x \in Keys : seen(x) # {}} |->
            LET s == Newest(seen(k))
                raw == NodeRow(StateAfter(events[s]), s)
                patched == IF halted # {} /\ raw.st = "running" THEN NodeRow("failed", Oldest(halted)) ELSE raw
            IN  IF k[1] = paused /\ patched.st = "failed" THEN NodeRow("running", Newest(pauses)) ELSE patched]

MapStatus(s) == CASE s = "completed" -> "success" [] s = "cancelled" -> "canceled"
                  [] s \in {"halted", "quarantined"} -> "fail" [] s \in {"running", "queued"} -> s
                  [] OTHER -> "paused"

\* runStateToDetail: the status of the row and, from the events, the nodes and at a
\* question the gate.
Detail(events, status) ==
    [seq |-> Len(events), status |-> MapStatus(status), runStatus |-> status,
     nodes |-> DeriveNodeStates(events),
     gate |-> IF status # "paused_human" THEN None
              ELSE events[Newest(At(events, LAMBDA e : e.k = "run_paused" /\ e.v = "human"))].n]

\* explain's deriveOutcome: the last fact that moves the run's status.
DeriveOutcome(events) ==
    LET S == At(events, LAMBDA e : e.k \in RunState)
        e == events[Newest(S)]
    IN  CASE S = {} \/ e.k = "run_resumed" -> "running"
          [] e.k = "run_terminated" -> EndStatus(e.v)
          [] e.k = "run_quarantined" -> "quarantined"
          [] OTHER -> IF e.v = "human" THEN "paused_human" ELSE "paused"

\* eventsToSteps.  Every call of a model opens a step, except the first after a
\* node_started of a node that paused with its window open: that one joins the
\* node's last step.  A node that completes without a call gets a step that
\* stands for none.
StepsEmpty == [steps |-> <<>>, paused |-> {}, fold |-> {}, tool |-> {}]
LastStepOf(steps, n) == Newest({i \in DOMAIN steps : steps[i].n = n})
HasStep(steps, n) == \E i \in DOMAIN steps : steps[i].n = n
FaultOpenStep(st, s, n) ==
    LET w == [st EXCEPT !.tool = @ \ {n}]
    IN  IF HasStep(st.steps, n) THEN w ELSE [w EXCEPT !.steps = Append(@, [n |-> n, at |-> {s}])]
OpenStep(st, s, n) ==
    LET w == [st EXCEPT !.tool = @ \ {n}]
    IN  IF n \in st.fold
        THEN [w EXCEPT !.fold = @ \ {n}, !.steps[LastStepOf(st.steps, n)].at = @ \cup {s}]
        ELSE [w EXCEPT !.steps = Append(@, [n |-> n, at |-> {s}])]
StepFact(st, s, e) ==
    CASE e.k = "node_started" ->
           IF e.n \in st.paused /\ HasStep(st.steps, e.n)
           THEN [st EXCEPT !.fold = @ \cup {e.n}, !.paused = @ \ {e.n}]
           ELSE [st EXCEPT !.tool = @ \cup {e.n}]
      [] e.k = "node_completed" ->
           [st EXCEPT !.paused = @ \ {e.n}, !.fold = @ \ {e.n}, !.tool = @ \ {e.n},
                      !.steps = IF e.n \in st.tool THEN Append(@, [n |-> e.n, at |-> {}]) ELSE @]
      [] e.k = "run_paused" -> [st EXCEPT !.paused = @ \cup ({e.n} \ {None})]
      [] e.k = "llm" -> OpenStep(st, s, e.n)
      [] OTHER -> st
EventsToSteps(events) ==
    FoldLeft(LAMBDA st, s : StepFact(st, s, events[s]), StepsEmpty, [s \in DOMAIN events |-> s]).steps

\* getStepAggregates: a cost belongs to the latest call of its node before it.
Opener(events, s) == LET S == {t \in 1 .. s : events[t].k = "llm" /\ events[t].n = events[s].n}
                     IN  IF S = {} THEN 0 ELSE Newest(S)
Costs(events) == At(events, LAMBDA e : e.k = "cost")
\* attachStepAggregates: a step carries the windows of every call it stands for.
CostOf(events, step) == {s \in Costs(events) : Opener(events, s) \in step.at}

\* ------------------------------------------------------------ the page
Overlay == [nodes |-> <<>>, status |-> None, gate |-> None, halt |-> FALSE, at |-> 0]
SetNodes(o, ks, st, s) == [o EXCEPT !.nodes = [k \in ks |-> NodeRow(st, s)] @@ @]

\* foldDetailFrame: one live event onto the overlay.
FaultFoldDetailFrame(o, e, s) ==
    LET p == CASE e.k \in NodeFact \ {"fanout_started"} -> SetNodes(o, {<<e.n, e.i>>}, StateAfter(e), s)
               [] e.k = "run_terminated" -> [o EXCEPT !.status = MapStatus(EndStatus(e.v)), !.at = s]
               [] OTHER -> o
    IN  p
FoldDetailFrame(o, e, s) ==
    LET p == CASE e.k \in NodeFact -> SetNodes(o, KeysOf(e), StateAfter(e), s)
               [] e.k = "run_started" -> [o EXCEPT !.status = "running"]
               [] e.k = "run_terminated" -> [o EXCEPT !.status = MapStatus(EndStatus(e.v)), !.halt = @ \/ e.v # "completed"]
               [] e.k = "run_quarantined" -> [o EXCEPT !.status = "fail", !.halt = TRUE]
               [] e.k = "run_paused" ->
                    [SetNodes(o, IF e.n = None THEN {} ELSE {<<e.n, 0>>}, "running", s)
                       EXCEPT !.status = "paused", !.gate = IF e.v = "human" THEN e.n ELSE @]
               [] e.k = "run_resumed" -> [o EXCEPT !.status = "running", !.gate = None]
               [] OTHER -> o
    IN  IF e.k \in RunState \cup {"run_started"} THEN [p EXCEPT !.at = s] ELSE p

\* mergeDetail: what the page shows.  The overlay's run level counts only while it
\* is newer than the snapshot; a node's entry while it is not older.
MergeDetail(d, o) ==
    LET fresh == o.at > d.seq
        from(k) == IF k \in DOMAIN o.nodes /\ (k \in DOMAIN d.nodes => o.nodes[k].at >= d.nodes[k].at)
                   THEN o.nodes[k].st ELSE d.nodes[k].st
    IN  [status |-> IF fresh /\ o.status # None THEN o.status ELSE d.status,
         gate |-> IF fresh /\ o.gate # None THEN o.gate ELSE d.gate,
         nodes |-> [k \in DOMAIN d.nodes \cup DOMAIN o.nodes |->
                      IF o.halt /\ from(k) = "running" THEN "failed" ELSE from(k)]]

\* The page before its first snapshot.
Unloaded == [snap |-> None, req |-> None, over |-> Overlay, heard |-> 0, fetches |-> 0]

\* `runs wait` polls the row; following a run tails its log.
Started(r) == [pc |-> IF r = "wait" THEN "poll" ELSE "tail", cursor |-> 0, code |-> None]

\* ------------------------------------------------------------ the daemon's commits
Init ==
    /\ log = <<>> /\ row = Genesis
    /\ batches = 0 /\ faults = 0
    /\ reader \in {"page", "follow", "wait"}
    /\ page = Unloaded /\ cmd = Started(reader)

\* The bound: a fetch after the first counts for two transactions.
Refetches == IF page.fetches = 0 THEN 0 ELSE page.fetches - 1
Budget == batches + faults + 2 * Refetches < MaxBatches

\* appendFact: the batch joins the log and the reducer's result is written.
AppendFact(facts) ==
    /\ Budget
    /\ batches' = batches + 1
    /\ log' = log \o facts
    /\ row' = FoldLeft(ApplyFact, row, facts)
    /\ UNCHANGED <<faults, reader, page, cmd>>

\* A visit keeps its number over pauses and crashes; another one may count up.
Visit(n) == LET S == At(log, LAMBDA e : e.n = n /\ e.k \in NodeFact) IN IF S = {} THEN 0 ELSE log[Newest(S)].i
Running == row.status = "running"
AtLoop == Running /\ row.node = Loop /\ row.open
InRegion == Running /\ row.node = Par /\ row.front # None
LastFact(n) == LET S == At(log, LAMBDA e : <<n, 0>> \in KeysOf(e)) IN IF S = {} THEN None ELSE log[Newest(S)].k
AbortedBranches == {b \in row.front : LastFact(b) = "node_aborted"}
Live(b) == InRegion /\ b \in row.front \cap Branches /\ LastFact(b) # "node_aborted"

\* The claim is a write of the row alone: no fact says that it happened.
Claim ==
    /\ row.status = "queued"
    /\ row' = [row EXCEPT !.status = "running"]
    /\ UNCHANGED <<log, batches, faults, reader, page, cmd>>

StartRun == Running /\ row.node = None /\ AppendFact(<<Event("run_started", Loop, 0, None)>>)
CommitDispatchMarker == Running /\ row.node = Loop /\ ~row.open /\ AppendFact(<<Event("dispatch_started", Loop, Visit(Loop), None)>>)
SeedFanout == Running /\ row.node = Par /\ row.front = None /\ AppendFact(<<Event("fanout_started", Par, Visit(Par), None)>>)
RedispatchBranches ==
    /\ InRegion /\ AbortedBranches # {}
    /\ AppendFact([i \in 1 .. Cardinality(AbortedBranches) |->
                     Event("dispatch_started", SetToSeq(AbortedBranches)[i], 0, None)])

\* The agent's events are buffered and flushed on a timer: a call and what it cost
\* may come in one batch or in two.
FlushCall(n) ==
    /\ (n = Loop /\ AtLoop) \/ Live(n)
    /\ LET call == Event("llm", n, 0, None)
           cost == Event("cost", n, 0, None)
           called == log # <<>> /\ log[Len(log)] = call
       IN  AppendFact(<<call, cost>>) \/ AppendFact(<<call>>) \/ (called /\ AppendFact(<<cost>>))

\* transitionToFacts.
Completed(n, i, v, to) == [Event("node_completed", n, i, v) EXCEPT !.to = to]
Transition(v, next) ==
    /\ AtLoop
    /\ \E i \in {Visit(next), Visit(next) + 1} :
         AppendFact(<<Completed(Loop, Visit(Loop), v, next), Event("node_started", next, i, None)>>)
Finish(v) ==
    /\ AtLoop
    /\ AppendFact(<<Completed(Loop, Visit(Loop), v, None),
                    Event("run_terminated", Loop, 0, IF v = "fail" THEN "errored" ELSE "completed")>>)
BranchSettles(b) == Live(b) /\ AppendFact(<<Completed(b, 0, "ok", None)>>)
BranchAborts(b) == Live(b) /\ AppendFact(<<Event("node_aborted", b, 0, None)>>)
AdvanceJoin == InRegion /\ row.front = {} /\ AppendFact(<<Event("fanout_joined", Par, Visit(Par), None)>>)

\* A handler that parks the run: with the spend of an aborted attempt, or asking.
Park(reason) ==
    /\ AtLoop
    /\ AppendFact((IF reason = "human" THEN <<>> ELSE <<Event("node_aborted", Loop, Visit(Loop), None)>>)
                  \o <<Event("run_paused", Loop, 0, reason)>>)
ParkRegion(n) == InRegion /\ AbortedBranches # {} /\ n \in AbortedBranches \cup {Par} /\ AppendFact(<<Event("run_paused", n, 0, "operator")>>)

\* The operator's side: an answer is an event before the wake folds it.
Answer == /\ row.status = "paused_human" /\ log[Len(log)].k = "run_paused"
          /\ AppendFact(<<RunFact("human_input", None)>>)
Wake == /\ \/ row.status \in {"paused", "paused_auto", "quarantined"}
           \/ row.status = "paused_human" /\ log[Len(log)].k = "human_input"
        /\ AppendFact(<<RunFact("run_resumed", None)>>)
Cancel == /\ row.status \notin Terminal
          /\ AppendFact((IF AtLoop THEN <<Event("node_aborted", Loop, Visit(Loop), None)>> ELSE <<>>)
                        \o <<RunFact("run_terminated", "aborted")>>)

\* The startup sweep writes its fact and, with SQL of its own, the row.
FaultSweepRow(k) == [row EXCEPT !.status = IF k = "run_requeued" THEN "queued" ELSE "quarantined", !.node = None, !.open = FALSE]
SweepRow(k) == [row EXCEPT !.status = IF k = "run_requeued" THEN "queued" ELSE "quarantined",
                           !.node = IF k = "run_requeued" THEN @ ELSE None, !.open = FALSE]
Sweep(k) ==
    /\ Running /\ faults < MaxFaults /\ Budget
    /\ faults' = faults + 1
    /\ log' = Append(log, RunFact(k, None))
    /\ row' = SweepRow(k)
    /\ UNCHANGED <<batches, reader, page, cmd>>

Daemon ==
    \/ Claim \/ StartRun \/ CommitDispatchMarker \/ SeedFanout \/ RedispatchBranches \/ AdvanceJoin
    \/ \E n \in Nodes : FlushCall(n) \/ ParkRegion(n)
    \/ \E v \in {"ok", "fail"} : Finish(v) \/ (\E n \in {Loop, Par} : Transition(v, n))
    \/ \E b \in Branches : BranchSettles(b) \/ BranchAborts(b)
    \/ \E r \in {"budget", "retry", "human"} : Park(r)
    \/ Answer \/ Wake \/ Cancel
    \/ \E k \in {"run_requeued", "run_quarantined"} : Sweep(k)

\* ------------------------------------------------------------ the readers
\* runDetail, in the server: it reads the row and after it the events, in no
\* transaction, while the daemon commits.  The page asks at mount and again on focus.
FetchRow ==
    /\ reader = "page" /\ page.req = None /\ page.fetches < MaxFetches
    /\ page.fetches > 0 => Budget
    /\ page' = [page EXCEPT !.req = [status |-> row.status, at |-> Len(log), seq |-> None], !.fetches = @ + 1]
    /\ UNCHANGED <<log, row, batches, faults, reader, cmd>>
FetchLog ==
    /\ page.req # None /\ page.req.seq = None
    /\ page' = [page EXCEPT !.req.seq = Len(log)]
    /\ UNCHANGED <<log, row, batches, faults, reader, cmd>>

\* The response arrives.  A new watermark opens a new stream after it, a settled run
\* has none, and the overlay starts over when the run is found settled or no longer.
SnapSettled(d) == d # None /\ d.runStatus \in Settled
TakeSnapshot ==
    /\ page.req # None /\ page.req.seq # None
    /\ LET q == page.req
           d == Detail(SubSeq(log, 1, q.seq), q.status) @@ [at |-> q.at]
           flips == page.snap # None /\ SnapSettled(page.snap) # SnapSettled(d)
           sameUrl == page.snap # None /\ ~flips /\ page.snap.seq = q.seq
       IN  page' = [page EXCEPT !.snap = d, !.req = None,
                                !.over = IF flips THEN Overlay ELSE @,
                                !.heard = IF sameUrl THEN @ ELSE q.seq]
    /\ UNCHANGED <<log, row, batches, faults, reader, cmd>>
Hear ==
    /\ reader = "page" /\ page.snap # None /\ ~SnapSettled(page.snap) /\ page.heard < Len(log)
    /\ page' = [page EXCEPT !.heard = @ + 1, !.over = FoldDetailFrame(@, log[page.heard + 1], page.heard + 1)]
    /\ UNCHANGED <<log, row, batches, faults, reader, cmd>>

\* followExitCode: the class of the event that stops the command.
FollowExitCode(e) == CASE e.k = "run_terminated" -> EndStatus(e.v) [] e.k = "run_quarantined" -> "quarantined"
                       [] OTHER -> IF e.v = "human" THEN "paused_human" ELSE "paused"
Exit(code) == cmd' = [cmd EXCEPT !.pc = "done", !.code = code]
\* followRun, one event: a question opens the menu on a terminal, a timer's pause is
\* followed through, any other stop ends the command.
FollowEvent ==
    /\ reader = "follow" /\ cmd.pc = "tail" /\ cmd.cursor < Len(log)
    /\ LET e == log[cmd.cursor + 1] IN
         \/ /\ e.k \in TerminalRunFact \cup {"run_paused"} /\ ~(e.k = "run_paused" /\ e.v \in AutoWake)
            /\ Exit(FollowExitCode(e))
         \/ /\ e.k = "run_paused" /\ e.v = "human"
            /\ cmd' = [cmd EXCEPT !.pc = "menu", !.cursor = @ + 1]
         \/ /\ e.k \notin TerminalRunFact /\ (e.k = "run_paused" => e.v \in AutoWake)
            /\ cmd' = [cmd EXCEPT !.cursor = @ + 1]
    /\ UNCHANGED <<log, row, batches, faults, reader, page>>

After(kinds) == \E s \in cmd.cursor + 1 .. Len(log) : log[s].k \in kinds
\* promptHumanGate: the menu races with a poll of the log.  A choice is written
\* unless the run has resumed by then; no choice ends the command.
PromptHumanGate ==
    /\ reader = "follow" /\ cmd.pc = "menu"
    /\ \/ /\ After(TerminalRunFact \cup {"run_resumed"}) /\ UNCHANGED <<log, batches>>
          /\ cmd' = [cmd EXCEPT !.pc = "tail"]
       \/ /\ ~After({"run_resumed"}) /\ Budget
          /\ log' = Append(log, RunFact("human_input", None)) /\ batches' = batches + 1
          /\ cmd' = [cmd EXCEPT !.pc = "tail"]
       \/ Exit("paused_human") /\ UNCHANGED <<log, batches>>
    /\ UNCHANGED <<row, faults, reader, page>>

\* `runs wait`: every poll reads the status; when all are settled the exit code is
\* taken from a second read.
WaitSettled(s) == s \notin {"queued", "running", "paused_auto"}
Poll ==
    /\ reader = "wait" /\ cmd.pc = "poll" /\ WaitSettled(row.status)
    /\ cmd' = [cmd EXCEPT !.pc = "aggregate"]
    /\ UNCHANGED <<log, row, batches, faults, reader, page>>
Deadline ==
    /\ reader = "wait" /\ cmd.pc = "poll" /\ ~WaitSettled(row.status)
    /\ Exit("timeout")
    /\ UNCHANGED <<log, row, batches, faults, reader, page>>
SettledExitCode(s) == IF s \in Settled \cup {"paused", "paused_human"} THEN s ELSE "completed"
AggregateExit ==
    /\ reader = "wait" /\ cmd.pc = "aggregate"
    /\ Exit(SettledExitCode(row.status))
    /\ UNCHANGED <<log, row, batches, faults, reader, page>>

Readers == FetchRow \/ FetchLog \/ TakeSnapshot \/ Hear \/ FollowEvent \/ PromptHumanGate \/ Poll \/ Deadline \/ AggregateExit
Next == Daemon \/ Readers
Spec == Init /\ [][Next]_vars

\* The columns of run_state that the views read.
RunStateRow ==
    [status : Settled \cup {"queued", "running", "paused", "paused_human", "paused_auto"},
     node : Nodes \cup {None}, front : (SUBSET Nodes) \cup {None}, open : BOOLEAN, cost : Nat]

\* ------------------------------------------------------------ properties
TypeOK ==
    /\ row \in RunStateRow
    /\ batches \in 0 .. MaxBatches /\ faults \in 0 .. MaxFaults
    /\ page.heard \in 0 .. Len(log) /\ cmd.cursor \in 0 .. Len(log)
    /\ cmd.pc \in {"tail", "menu", "poll", "aggregate", "done"}

\* What a bundle import rebuilds from the log is the live row, although the claim
\* and the startup sweep write the row without the reducer: only a claim that no
\* fact has followed yet is not in the log.
ReplayAgrees ==
    LET r == DeriveRunState(log)
    IN  row = r \/ (row = [r EXCEPT !.status = "running"] /\ r.status = "queued")

Resting == row.status \in Settled \cup {"paused", "paused_human"}
\* The known differences: a quarantine that was lifted, a pause of a later visit, the
\* run's first step, whose start no node fact records, and a branch whose pause was
\* lifted and not followed by its dispatch: to the page it goes on running.
Lifted == \E s \in DOMAIN log : log[s].k = "run_quarantined" /\ \E t \in s .. Len(log) : log[t].k = "run_resumed"
Revisited(n) == \E s \in DOMAIN log : log[s].n = n /\ log[s].i > 0
Undispatched(n) ==
    \E p \in DOMAIN log : /\ log[p].k = "run_paused" /\ log[p].n = n
                         /\ \E s \in p .. Len(log) : log[s].k = "run_resumed"
                         /\ \A t \in p .. Len(log) : log[t].n = n => log[t].k \notin NodeFact
Shown(k) == ~Revisited(k[1]) /\ ~(k[1] \in Branches /\ Undispatched(k[1]))
\* A snapshot whose row is older than its events: what the run did between the two
\* reads is behind the stream and not in the row, until a newer event is heard.
Torn == /\ page.over.at <= page.snap.seq
        /\ \E s \in page.snap.at + 1 .. page.snap.seq : log[s].k \in RunState
\* When the run stands still, the narrative, the row and a page that has heard every
\* event agree: on the status, on the question that is open and on every step's state,
\* whatever it fetched and heard since; unless the snapshot it holds is torn.
ViewsAgree ==
    Resting =>
      /\ DeriveOutcome(log) = row.status
      /\ (page.snap # None /\ page.heard = Len(log) /\ ~Torn) =>
           LET shown == MergeDetail(page.snap, page.over)
               true == Detail(log, row.status)
           IN  /\ shown.status = true.status
               /\ row.status = "paused_human" => shown.gate = true.gate
               /\ ~Lifted => \A k \in DOMAIN true.nodes : Shown(k) => shown.nodes[k] = true.nodes[k].st

\* Every cost whose call is in the log is on exactly one step of the breakdown,
\* however pauses, crashes and branches cut the calls.
StepsAccountForCost ==
    LET steps == EventsToSteps(log)
    IN  \A s \in Costs(log) : Opener(log, s) # 0 =>
          Cardinality({i \in DOMAIN steps : s \in CostOf(log, steps[i])}) = 1

\* Every reader of the log sees one run: the replayed row, a page that folds live
\* frames over a snapshot, and the breakdown of its cost by step.
OneRunSeen == ReplayAgrees /\ ViewsAgree /\ StepsAccountForCost

\* RunDetail.tsx never asks again, as the snapshot and the events after it are the run.
HeardMeansShown ==
    (Resting /\ page.snap # None /\ page.heard = Len(log)) =>
      MergeDetail(page.snap, page.over).status = MapStatus(row.status)
\* cli-exit.ts calls the exit code of a completed run "the only zero".
ZeroMeansCompleted == cmd.code = "completed" => row.status = "completed"
\* reducers.ts: the frontier is what runs until the barrier, so only in a region.
FrontierMeansRegion == (Running /\ row.front # None /\ row.node # None) => row.node = Par
\* run-follow.ts: the re-check stops a second answer to one question.
OneAnswerPerGate == \A s \in 1 .. Len(log) - 1 : log[s].k = "human_input" => log[s + 1].k # "human_input"
\* steps.ts: the two halves of a step that pauses and resumes are one row.
ResumeFolds ==
    LET steps == EventsToSteps(log)
        calls(n, lo, hi) == {s \in lo .. hi : log[s].k = "llm" /\ log[s].n = n}
    IN  \A p \in At(log, LAMBDA e : e.k = "run_paused"), t \in At(log, LAMBDA e : e.k = "llm") :
          LET n == log[p].n IN
          (/\ p < t /\ log[t].n = n /\ calls(n, 1, p) # {} /\ calls(n, p, t - 1) = {}
           /\ \A s \in 1 .. t : ~(log[s].k = "node_completed" /\ log[s].n = n))
          => \E i \in DOMAIN steps : {t, Newest(calls(n, 1, p))} \subseteq steps[i].at
==================================================================================
