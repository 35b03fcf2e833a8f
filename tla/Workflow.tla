------------------------------ MODULE Workflow ------------------------------
(***************************************************************************)
(* The workflow language: what the parser makes of authored steps, what    *)
(* the validator says of the graph, and how a pinned graph is walked.      *)
(*                                                                         *)
(*   steps --parseWorkflow--> graph --validate--> codes --accept--> walk   *)
(*                                                                         *)
(* A diagnostic is a pair of its code and the node it is about.  Texts,    *)
(* locations and the attributes no walk depends on are left out.  The walk *)
(* is what planTransition and the fan-out superstep make of the graph; how *)
(* they commit, retry and pay is in Dispatch and FanOut.                   *)
(***************************************************************************)
EXTENDS Integers, Sequences, FiniteSets, SequencesExt

CONSTANTS
    Order,     \* step ids in declaration order; the first is the entry point
    Programs,  \* the authored workflows: functions from step ids to bodies
    GateCap,   \* max_retries of a goal gate that declares it
    MaxTurns,  \* bound on the nodes a walk completes
    None

Steps == ToSet(Order)

VARIABLES
    prog, graph, codes,     \* the source, the parsed graph, its diagnostics
    status,                 \* of the walk
    at, open, active,       \* the current node; a fan-out's seed and frontier
    ran, emitted,           \* nodes completed, nodes with outputs on the log
    gates, retargets,       \* routing.goal_gates and its retry counter
    turns

walk == <<status, at, open, active, ran, emitted, gates, retargets, turns>>
vars == <<prog, graph, codes, walk>>

-----------------------------------------------------------------------------
(* parseWorkflow.  A body has every key a step may carry; `dirs` says which *)
(* of next / on / routes it wrote.                                          *)

Plain == [type |-> "llm", dirs |-> {"next"}, next |-> "exit", success |-> None, fail |-> None,
          routes |-> <<>>, retry |-> None, rawTarget |-> None, capped |-> FALSE,
          branches |-> <<>>, write |-> FALSE, thread |-> FALSE,
          emits |-> FALSE, export |-> FALSE, reads |-> None, decide |-> "none", options |-> {}, below |-> None]

\* the ParseErrors: they throw before there is a graph
Unparsable(f) ==
    \/ Cardinality(f.dirs) > 1
    \/ f.type = "parallel" /\ (f.dirs # {"next"} \/ f.branches = <<>>)
    \/ f.emits /\ (f.type \notin {"llm", "tool"} \/ "routes" \in f.dirs)
    \/ f.type # "judge" /\ f.decide # "none"

Edge(a, b, by, key) == [from |-> a, to |-> b, by |-> by, key |-> key]

\* edge synthesis: `next: X` is on.success; a parallel step forks into its
\* branches and is not linked to its join
StepEdges(s, f) ==
    CASE f.type = "parallel" -> {Edge(s, b, "fanout", None) : b \in ToSet(f.branches)}
      [] f.type # "parallel" /\ "routes" \in f.dirs ->
            {Edge(s, f.routes[r], "route", r) : r \in DOMAIN f.routes}
      [] f.type # "parallel" /\ "on" \in f.dirs ->
            {Edge(s, f.success, "outcome", "success") : x \in {f.success} \ {None}}
            \cup {Edge(s, f.fail, "outcome", "fail") : x \in {f.fail} \ {None}}
      [] f.type \notin {"parallel", "exit"} /\ "next" \in f.dirs ->
            {Edge(s, f.next, "outcome", "success")}
      [] OTHER -> {}

\* `exit` is synthesised when a directive (never a branch entry or a retry
\* target) names it; `start` always is
ParseWorkflow(p) ==
    LET edges == {Edge("start", Head(Order), "outcome", "success")}
                     \cup UNION {StepEdges(s, p[s]) : s \in Steps}
        named == {e.to : e \in {x \in edges : x.by # "fanout"}}
                     \cup {p[s].next : s \in {x \in Steps : p[x].type = "parallel"}}
        nodes == {"start"} \cup Steps \cup ({"exit"} \cap named)
    IN [nodes |-> nodes, edges |-> edges,
        type  |-> [n \in nodes |-> IF n \in Steps THEN p[n].type ELSE n]]

\* `retry: X` is a goal gate with a retry_target; a raw retry_target is only
\* the attribute
Gate(p, s)        == s \in Steps /\ p[s].retry # None
RetryTarget(p, s) == IF p[s].retry # None THEN p[s].retry ELSE p[s].rawTarget
Join(p, s)        == p[s].next
Routes(p, n)      == IF n \in Steps /\ "routes" \in p[n].dirs THEN DOMAIN p[n].routes ELSE {}

-----------------------------------------------------------------------------
(* Reachability and dominance.                                              *)

\* reachableFromSet: everything a set of edges reaches from S, S included
Reached(edges, S) ==
    LET k == Cardinality({e.from : e \in edges})
        R[i \in 0 .. k] == IF i = 0 THEN S
                           ELSE LET r == R[i - 1] IN r \cup {e.to : e \in {x \in edges : x.from \in r}}
    IN R[k]

FromStart(g) == Reached(g.edges, {"start"})

\* Fault: "reaches" where "is crossed on every path" is meant.
FaultDominates(g, x, n) == x # n /\ {x, n} \subseteq FromStart(g) /\ n \in Reached(g.edges, {x})

\* buildRunDominance: x is crossed by every path from start to n (strictly)
Dominates(g, x, n) ==
    /\ x # n /\ {x, n} \subseteq FromStart(g)
    /\ n \notin Reached({e \in g.edges : x \notin {e.from, e.to}}, {"start"} \ {x})

\* fanoutBranchClosures: from an entry over non-fanout edges, up to the join
Closure(p, g, par, b) ==
    Reached({e \in g.edges : e.by # "fanout" /\ e.to # Join(p, par) /\ e.to \in g.nodes},
            {b} \cap (g.nodes \ {Join(p, par)}))
ReachesJoin(p, g, par, b) ==
    \E e \in g.edges : e.by # "fanout" /\ e.from \in Closure(p, g, par, b) /\ e.to = Join(p, par)
Parallels(g) == {n \in g.nodes : g.type[n] = "parallel"}
Entries(p, par) == ToSet(p[par].branches)

-----------------------------------------------------------------------------
(* validate, rule by rule: each is the set of nodes it complains about.     *)

Code(c, S) == {<<c, n>> : n \in S}
Outgoing(g, n) == {e \in g.edges : e.from = n}
Exits(g) == {n \in g.nodes : g.type[n] = "exit"}

Structure(p, g) ==
    LET heads == {e.to : e \in g.edges}
    IN Code("E003", IF Exits(g) = {} THEN {"start"} ELSE {})
       \cup Code("E004", {e.from : e \in {x \in g.edges : x.to \notin g.nodes}})
       \cup Code("E012", {"start"} \cap heads)
       \cup Code("E013", {n \in Exits(g) : Outgoing(g, n) # {}})
       \cup Code("W001", g.nodes \ (heads \cup {"start"}))
       \cup Code("W002", g.nodes \ FromStart(g))

\* E009, E011, E057, W007 (never: `retry:` sets both), E031, E032
Successors(p, g) ==
    LET aims == {s \in Steps : RetryTarget(p, s) # None}
    IN Code("E009", {s \in Steps : p[s].type = "human" /\ Outgoing(g, s) = {}})
       \cup Code("E011", {s \in aims : RetryTarget(p, s) \notin g.nodes})
       \cup Code("E057", {s \in aims : ~Gate(p, s)})
       \cup Code("E031", {s \in Steps : Gate(p, s) /\ ~p[s].capped})
       \cup Code("E032", {s \in Steps : /\ p[s].type \in {"llm", "tool", "judge"}
                                        /\ \A e \in Outgoing(g, s) : e.key = "fail"})

\* E006: every cycle has an exit it can reach.  stronglyConnectedComponents
\* finds the nodes on a cycle; a component reaches what any member reaches.
Cycles(g) ==
    LET after(n) == Reached(g.edges, {e.to : e \in Outgoing(g, n)})
    IN Code("E006", {n \in g.nodes : n \in after(n) /\ after(n) \cap Exits(g) = {}})

\* Fault: the options of the routing question are not compared with the routes.
FaultJudges(p) ==
    LET J == {s \in Steps : p[s].type = "judge"}
    IN Code("E047", {s \in J : (p[s].decide = "route") # (Routes(p, s) # {})})
       \cup Code("E048", {s \in J : p[s].decide = "outcome" /\ Routes(p, s) # {}})

\* E047, E048: what `decide:` may pick against what `routes:` declares
Judges(p) ==
    LET J == {s \in Steps : p[s].type = "judge"}
        routed == {s \in J : p[s].decide = "route"}
    IN Code("E047", {s \in routed : \/ Routes(p, s) = {}
                                    \/ p[s].options \ Routes(p, s) # {}
                                    \/ Routes(p, s) \ (p[s].options \cup {p[s].below}) # {}
                                    \/ p[s].below # None /\ p[s].below \notin Routes(p, s)}
                       \cup {s \in J : p[s].decide = "none" /\ Routes(p, s) # {}})
       \cup Code("E048", {s \in J : p[s].decide = "outcome" /\ Routes(p, s) # {}})

\* E017 to E024.  The parser derives routes and edges from one mapping, so of
\* these a parsed graph can only meet E022 and E023.
Routing(p, g) ==
    LET routing == {s \in Steps : Routes(p, s) # {}}
    IN Code("E017", {s \in routing : \E e \in Outgoing(g, s) : e.by = "outcome"})
       \cup Code("E019", {e.from : e \in {x \in g.edges : x.by = "route" /\ x.key \notin Routes(p, x.from)}})
       \cup Code("E021", {s \in routing : \E r \in Routes(p, s) : \A e \in Outgoing(g, s) : e.key # r})
       \cup Code("E022", {s \in Steps : p[s].type = "human" /\ Routes(p, s) = {}})
       \cup Code("E023", {s \in routing : Gate(p, s)})
       \cup Code("E024", {s \in g.nodes : \E e, f \in Outgoing(g, s) :
                              e # f /\ e.by = f.by /\ e.by # "fanout" /\ e.key = f.key})

\* E035, W015: a read of outputs.x in n.  Dominance and the wait_all barrier
\* only suppress the warning.
Reads(p, g) ==
    LET R == {s \in Steps : p[s].reads # None}
        dead(s) == \/ p[s].reads \notin Steps \/ ~p[p[s].reads].emits
                   \/ s \notin Reached(g.edges, {p[s].reads})
        barrier(s) == \E par \in Parallels(g) : /\ Join(p, par) = s
                          /\ \E b \in Entries(p, par) : p[s].reads \in Closure(p, g, par, b)
        sure(s) == Dominates(g, p[s].reads, s)
    IN Code("E035", {s \in R : ~sure(s) /\ dead(s)})
       \cup Code("W015", {s \in R : ~sure(s) /\ ~dead(s) /\ ~barrier(s)})

\* E046, W018: a run-level `outputs:` entry that names this step.  A branch node
\* stands or falls with its join.
Standing(p, g, s) ==
    LET owners == {par \in Parallels(g) : \E b \in Entries(p, par) : s \in Closure(p, g, par, b)}
    IN IF owners = {} THEN s ELSE Join(p, CHOOSE par \in owners : TRUE)

RunOutputs(p, g) ==
    Code("E046", {s \in Steps : p[s].export /\ ~p[s].emits})
    \cup Code("W018", {s \in Steps \cap FromStart(g) :
              /\ p[s].export /\ p[s].emits
              /\ \E x \in Exits(g) \cap FromStart(g) : ~Dominates(g, Standing(p, g, s), x)})

\* Fault: branches may overlap.
FaultShared(p, g, par) == {}

\* E044: nodes two branches own
Shared(p, g, par) ==
    {x \in g.nodes : \E b, c \in Entries(p, par) :
        b # c /\ x \in Closure(p, g, par, b) \cap Closure(p, g, par, c)}

\* E036 to E044, W017: the shape of a parallel region
Regions(p, g) ==
    LET of(par) ==
          LET B      == Entries(p, par)
              cl(b)  == Closure(p, g, par, b)
              all    == UNION {cl(b) : b \in B}
              out(x) == {e \in Outgoing(g, x) : e.by # "fanout"}
              steps  == all \cap Steps
              stray(b) == {x \in cl(b) : out(x) = {} \/ \E e \in out(x) : e.to \notin cl(b) \cup {Join(p, par)}}
              loop(b) == {x \in cl(b) : x \in Reached({e \in g.edges : e.by # "fanout" /\ {e.from, e.to} \subseteq cl(b)},
                                                      {e.to : e \in {f \in out(x) : f.to \in cl(b)}})}
          IN Code("E036", IF Len(p[par].branches) < 2 THEN {par} ELSE {})
             \cup Code("E037", IF B \subseteq g.nodes /\ IsInjective(p[par].branches) THEN {} ELSE {par})
             \cup IF Join(p, par) \notin g.nodes THEN Code("E038", {par})
                  ELSE Code("E044", Shared(p, g, par))
                       \cup Code("E039", {b \in B \cap g.nodes : ~ReachesJoin(p, g, par, b)}
                                         \cup UNION {stray(b) : b \in B})
                       \cup Code("W017", UNION {loop(b) : b \in B})
                       \cup Code("E040", all \cap Parallels(g))
                       \cup Code("E041", {x \in all : g.type[x] \notin {"parallel", "llm", "judge"}})
                       \cup Code("E042", {x \in steps : g.type[x] = "llm" /\ p[x].write})
                       \cup Code("E043", {x \in steps : g.type[x] = "llm" /\ p[x].thread})
    IN UNION {of(par) : par \in Parallels(g)}

Validate(p, g) == Structure(p, g) \cup Successors(p, g) \cup Cycles(g) \cup Judges(p)
                     \cup Routing(p, g) \cup Reads(p, g) \cup RunOutputs(p, g) \cup Regions(p, g)

Errors == {"E003", "E004", "E006", "E009", "E011", "E012", "E013", "E017", "E019", "E021",
           "E022", "E023", "E024", "E031", "E032", "E035", "E036", "E037", "E038", "E039",
           "E040", "E041", "E042", "E043", "E044", "E046", "E047", "E048", "E057"}

\* validateOrThrow: warnings never block
Accepted(c) == \A d \in c : d[1] \notin Errors

-----------------------------------------------------------------------------
(* The walk over an accepted graph.                                         *)

\* What a handler of node n can come back with.  A read of outputs that are
\* not on the log fails closed.  A judge picks an option or its landing.  A
\* declared `type: exit` step runs a handler that only ends the run.
Outcomes(n) ==
    LET f == prog[n]
        routed == IF f.type = "judge" THEN IF f.decide = "route" THEN (f.options \cup {f.below}) \ {None} ELSE {}
                  ELSE Routes(prog, n)
        missing == f.reads # None /\ f.reads \notin emitted
    IN {[status |-> "success", route |-> r] : r \in IF missing THEN {} ELSE routed}
       \cup {[status |-> "success", route |-> None] : x \in {0} \cap (IF missing \/ routed # {} THEN {} ELSE {0})}
       \cup {[status |-> "fail", route |-> None] : x \in {0} \cap (IF f.type \in {"human", "exit"} THEN {} ELSE {0})}

\* selectEdge: by route when the node declares routes, else by outcome
SelectEdge(n, o) ==
    LET by    == IF Routes(prog, n) # {} THEN "route" ELSE "outcome"
        key   == IF Routes(prog, n) # {} THEN o.route ELSE o.status
        match == {e \in Outgoing(graph, n) : e.by = by /\ e.key = key}
    IN IF match # {} /\ graph.type[n] # "exit" THEN (CHOOSE e \in match : TRUE).to ELSE "__end__"

Terminal(n) == n = "__end__" \/ n \in Exits(graph)

GateOutcomes(n, o) == IF Gate(prog, n) THEN [gates EXCEPT ![n] = o.status] ELSE gates

\* checkGoalGates, goalGateStep: the first failed gate in declaration order
\* keeps the run from ending
Target(n, o) ==
    LET next == SelectEdge(n, o)
        bad  == {i \in DOMAIN Order : GateOutcomes(n, o)[Order[i]] = "fail"}
        g    == Order[CHOOSE i \in bad : \A j \in bad : i <= j]
    IN IF ~Terminal(next) \/ (o.status = "fail" /\ ~Gate(prog, n)) \/ bad = {} THEN next
       ELSE IF retargets >= GateCap THEN "__gate__" ELSE RetryTarget(prog, g)

\* the run-level end a node's outcome amounts to, or None.  In the fold
\* only the sentinel and the reserved name end a run; another exit step is
\* dispatched, and its own transition ends the run.
Ending(n, o) ==
    LET t == Target(n, o)
    IN CASE t = "__gate__" -> "gate_halt"
         [] t = "exit" \/ (t = "__end__" /\ graph.type[n] = "exit") -> "completed"
         [] t = "__end__" /\ graph.type[n] # "exit" /\ o.route # None -> "edge_no_match"
         [] t = "__end__" /\ graph.type[n] # "exit" /\ o.route = None ->
                IF o.status = "fail" THEN "aborted_exit" ELSE "dead_end"
         [] OTHER -> None

Retargeted(n, o) == Terminal(SelectEdge(n, o)) /\ Target(n, o) \in graph.nodes
                       /\ Target(n, o) # SelectEdge(n, o)

Completes(n, o) ==
    /\ status = "running" /\ turns < MaxTurns /\ turns' = turns + 1
    /\ ran' = ran \cup {n}
    /\ emitted' = IF prog[n].emits /\ o.status = "success" THEN emitted \cup {n} ELSE emitted
    /\ gates' = GateOutcomes(n, o)
    /\ retargets' = retargets + IF Retargeted(n, o) THEN 1 ELSE 0
    /\ UNCHANGED <<prog, graph, codes>>

\* a node of the main line
Turn(o) ==
    /\ at \in Steps \ Parallels(graph) /\ o \in Outcomes(at) /\ Completes(at, o)
    /\ status' = IF Ending(at, o) = None THEN "running" ELSE Ending(at, o)
    /\ at' = IF Ending(at, o) = None THEN Target(at, o) ELSE at
    /\ UNCHANGED <<open, active>>

\* planFanoutStep "seed"
Seed ==
    /\ at \in Parallels(graph) /\ status = "running" /\ ~open
    /\ open' = TRUE /\ active' = Entries(prog, at) /\ ran' = ran \cup {at}
    /\ UNCHANGED <<prog, graph, codes, status, at, emitted, gates, retargets, turns>>

\* planBranchSettlement: a branch that resolves to a run terminal fails closed
BranchEnding(n, o) == IF Ending(n, o) \in {"completed", "dead_end"} THEN "branch_terminal" ELSE Ending(n, o)

BranchTurn(n, o) ==
    /\ open /\ n \in active \ Parallels(graph)
    /\ o \in Outcomes(n) /\ Completes(n, o)
    /\ status' = IF BranchEnding(n, o) = None THEN "running" ELSE BranchEnding(n, o)
    /\ active' = IF BranchEnding(n, o) # None THEN active
                 ELSE (active \ {n}) \cup ({Target(n, o)} \ {Join(prog, at)})
    /\ UNCHANGED <<at, open>>

\* planFanoutStep "join"
JoinRegion ==
    /\ status = "running" /\ open /\ active = {}
    /\ at' = Join(prog, at) /\ open' = FALSE
    /\ UNCHANGED <<prog, graph, codes, status, active, ran, emitted, gates, retargets, turns>>

Init ==
    /\ prog \in {p \in Programs : \A s \in Steps : ~Unparsable(p[s])}
    /\ graph = ParseWorkflow(prog) /\ codes = Validate(prog, graph)
    /\ status = IF Accepted(codes) THEN "running" ELSE "rejected"
    /\ at = Head(Order) /\ open = FALSE /\ active = {} /\ ran = {"start"} /\ emitted = {}
    /\ gates = [s \in Steps |-> None] /\ retargets = 0 /\ turns = 0

AllOutcomes == [status : {"success", "fail"}, route : {"r1", "r2", "r3", None}]

Next == \/ \E o \in AllOutcomes : Turn(o)
        \/ Seed
        \/ \E n \in Steps, o \in AllOutcomes : BranchTurn(n, o)
        \/ JoinRegion

Spec == Init /\ [][Next]_vars

-----------------------------------------------------------------------------
(* Properties.                                                              *)

\* Type invariant.
TypeOK ==
    /\ status \in {"rejected", "running", "completed", "aborted_exit", "edge_no_match", "dead_end",
                   "gate_halt", "branch_terminal"}
    /\ at \in graph.nodes /\ open \in BOOLEAN
    /\ active \subseteq graph.nodes /\ ran \subseteq graph.nodes /\ emitted \subseteq ran
    /\ gates \in [Steps -> {"success", "fail", None}]
    /\ retargets \in 0 .. GateCap /\ turns \in 0 .. MaxTurns

\* NoDeadEnd: on an accepted graph no outcome a handler can produce is without
\* an edge, failures aside: a judge's option or landing, an operator's or an
\* agent's route, a success (edge_no_match in applyEdgeSelection, "validator
\* should make this unreachable for a pinned graph").
NoDeadEnd == status \notin {"edge_no_match", "dead_end"}

\* ExitInReach: wherever an accepted graph's walk stands, retargets and
\* branches included, some exit can still be reached over its edges (E004,
\* E006, E009 and E032 together).
ExitInReach ==
    status = "running" => \A n \in {at} \cup active : Reached(graph.edges, {n}) \cap Exits(graph) # {}

\* the region of a parallel node is entered through its seed only: no edge and
\* no gate comes in from outside
Region(par) == UNION {Closure(prog, graph, par, b) : b \in Entries(prog, par)}
SingleEntry ==
    /\ retargets = 0
    /\ \A par \in Parallels(graph) : \A e \in graph.edges :
          /\ e.by # "fanout" /\ e.to \in Region(par) => e.from \in Region(par)
          /\ e.by # "fanout" /\ e.to = Join(prog, par) => e.from \in Region(par)

\* ReadsAfterProducer: a step about to run that reads outputs.x without a W015
\* runs after x, as long as no goal gate has jumped and regions are entered
\* through their seed (buildRunDominance, fanoutJoinProducers).
ReadsAfterProducer ==
    status = "running" /\ SingleEntry =>
        \A n \in ({at} \cup active) \cap Steps :
            prog[n].reads # None /\ <<"W015", n>> \notin codes => prog[n].reads \in ran

\* ExportsHaveRun: a run that completes has run every step a run-level output
\* reads from without a W018, under the same conditions (validate, E046/W018).
ExportsHaveRun ==
    status = "completed" /\ SingleEntry =>
        \A s \in Steps \cap FromStart(graph) : prog[s].export /\ <<"W018", s>> \notin codes => s \in ran

\* A read the validator lets through without a warning finds its producer's
\* output, inside the run and for what the run exports.
OutputsAreThere == ReadsAfterProducer /\ ExportsHaveRun

\* BranchesApart: until a gate jumps, every branch of an open region has at most
\* one node in the frontier, and the frontier never leaves the branches (E039,
\* E044; SPEC I11: single-entry, single-exit).
BranchesApart ==
    open /\ retargets = 0 =>
        /\ active \subseteq Region(at)
        /\ \A b \in Entries(prog, at) : Cardinality(active \cap Closure(prog, graph, at, b)) <= 1

\* A graph the validator accepts can be walked: no outcome without an edge, an
\* exit always in reach, no read before its producer, branches apart.
GraphSafe == NoDeadEnd /\ ExitInReach /\ OutputsAreThere /\ BranchesApart

\* DominatorsHaveRun: what the comment on RunDominance says of a silent read
\* ("When true, X has run by the time N does", validator.ts).
DominatorsHaveRun ==
    status = "running" =>
        \A n \in ({at} \cup active) \cap Steps :
            \A x \in Steps : Dominates(graph, x, n) => x \in ran

\* TerminalRejected: what planBranchTerminal says of a branch that resolves to a
\* run terminal ("the validator rejects the shape", fanout-planner.ts).
TerminalRejected == status # "branch_terminal"

=============================================================================
