----------------------------- MODULE Dominance -----------------------------
(***************************************************************************)
(* buildRunDominance: the Cooper-Harvey-Kennedy computation of immediate   *)
(* dominators and the interval test behind `dominates`, step by step, for  *)
(* every small graph.  Workflow uses what it is meant to compute.          *)
(***************************************************************************)
EXTENDS Integers, Sequences, FiniteSets, SequencesExt

CONSTANTS Ids,   \* the nodes in declaration order; the first is `start`
          None

Node  == ToSet(Ids)
Start == Head(Ids)

VARIABLES succ,            \* adjacency lists
          pc, stack,       \* phase; the explicit DFS stack
          seen, rpo,       \* visited nodes; reverse postorder so far
          idom, i, changed, sweeps,
          enter, exit, clock

vars == <<succ, pc, stack, seen, rpo, idom, i, changed, sweeps, enter, exit, clock>>

Frame(n) == [node |-> n, i |-> 1]
Top      == stack[Len(stack)]
Bump     == [stack EXCEPT ![Len(stack)].i = @ + 1]
NoNode   == [n \in Node |-> None]

\* The adjacency lists the edges and retries of a graph can give; nothing leads back
\* to the start.
Adjacency == [Node -> {SelectSeq(Ids, LAMBDA n : n \in S) : S \in SUBSET (Node \ {Start})}]

\* every graph in which nothing enters the start node
Init ==
    /\ succ \in Adjacency
    /\ pc = "post" /\ stack = <<Frame(Start)>> /\ seen = {Start} /\ rpo = <<>>
    /\ idom = [NoNode EXCEPT ![Start] = Start] /\ i = 1 /\ changed = FALSE /\ sweeps = 0
    /\ enter = NoNode /\ exit = NoNode /\ clock = 0

\* iterative DFS: a node is numbered when its neighbours are used up
Postorder ==
    /\ pc = "post" /\ stack # <<>>
    /\ IF Top.i <= Len(succ[Top.node])
       THEN LET next == succ[Top.node][Top.i]
            IN /\ stack' = IF next \in seen THEN Bump ELSE Append(Bump, Frame(next))
               /\ seen' = seen \cup {next} /\ UNCHANGED rpo
       ELSE stack' = Front(stack) /\ rpo' = <<Top.node>> \o rpo /\ UNCHANGED seen
    /\ pc' = IF stack' = <<>> THEN "sweep" ELSE "post"
    /\ UNCHANGED <<succ, idom, i, changed, sweeps, enter, exit, clock>>

\* later in rpo is smaller in postorder
PostNum(n) == Len(rpo) - CHOOSE k \in DOMAIN rpo : rpo[k] = n

RECURSIVE Intersect(_, _)
Intersect(a, b) == IF a = b THEN a
                   ELSE IF PostNum(a) < PostNum(b) THEN Intersect(idom[a], b) ELSE Intersect(a, idom[b])

\* Fault: the first processed predecessor stands for all of them.
FaultNewIdom(b) ==
    LET preds == SelectSeq(Ids, LAMBDA u : u \in seen /\ b \in ToSet(succ[u]) /\ idom[u] # None)
    IN IF preds = <<>> THEN None ELSE Head(preds)

\* the meet of the predecessors that already have a dominator
NewIdom(b) ==
    LET preds == SelectSeq(Ids, LAMBDA u : u \in seen /\ b \in ToSet(succ[u]) /\ idom[u] # None)
    IN IF preds = <<>> THEN None ELSE FoldLeft(LAMBDA x, p : Intersect(p, x), Head(preds), Tail(preds))

Moved(b) == NewIdom(b) # None /\ idom[b] # NewIdom(b)

\* one node of one sweep; sweeps repeat while something changed
Sweep ==
    /\ pc = "sweep" /\ i <= Len(rpo)
    /\ LET b == rpo[i]
       IN IF b = Start \/ ~Moved(b) THEN UNCHANGED <<idom, changed>>
          ELSE idom' = [idom EXCEPT ![b] = NewIdom(b)] /\ changed' = TRUE
    /\ i' = i + 1
    /\ UNCHANGED <<succ, pc, stack, seen, rpo, sweeps, enter, exit, clock>>

SweepEnds ==
    /\ pc = "sweep" /\ i > Len(rpo) /\ sweeps <= Len(Ids)
    /\ sweeps' = sweeps + 1 /\ i' = 1 /\ changed' = FALSE
    /\ IF changed THEN UNCHANGED <<pc, stack, enter, clock>>
       ELSE /\ pc' = "intervals" /\ stack' = <<Frame(Start)>>
            /\ enter' = [enter EXCEPT ![Start] = 0] /\ clock' = 1
    /\ UNCHANGED <<succ, seen, rpo, idom, exit>>

Children(n) == SelectSeq(Ids, LAMBDA c : c # n /\ idom[c] = n)

\* dom-tree DFS: the interval of a node encloses those of what it dominates
Intervals ==
    /\ pc = "intervals" /\ stack # <<>>
    /\ clock' = clock + 1
    /\ IF Top.i <= Len(Children(Top.node))
       THEN LET c == Children(Top.node)[Top.i]
            IN stack' = Append(Bump, Frame(c)) /\ enter' = [enter EXCEPT ![c] = clock] /\ UNCHANGED exit
       ELSE stack' = Front(stack) /\ exit' = [exit EXCEPT ![Top.node] = clock] /\ UNCHANGED enter
    /\ pc' = IF stack' = <<>> THEN "done" ELSE "intervals"
    /\ UNCHANGED <<succ, seen, rpo, idom, i, changed, sweeps>>

Next == Postorder \/ Sweep \/ SweepEnds \/ Intervals

Spec == Init /\ [][Next]_vars

\* dominates(producer, consumer)
Query(x, n) == /\ x # n /\ None \notin {enter[x], exit[x], enter[n], exit[n]}
               /\ enter[x] <= enter[n] /\ exit[n] <= exit[x]

-----------------------------------------------------------------------------
\* The reference: what start reaches when x is taken out.
Avoiding(x) ==
    LET R[k \in 0 .. Len(Ids)] ==
            IF k = 0 THEN {Start} \ {x}
            ELSE LET r == R[k - 1] IN r \cup (UNION {ToSet(succ[n]) : n \in r} \ {x})
    IN R[Len(Ids)]

\* IntervalsAreDominance: when the computation is done, the interval test answers
\* "every path from start to n crosses x" for every pair of nodes, unreachable
\* ones included (buildRunDominance).
IntervalsAreDominance ==
    pc = "done" => \A x, n \in Node :
        Query(x, n) <=> x # n /\ {x, n} \subseteq Avoiding(None) /\ n \notin Avoiding(x)

\* SweepsSettle: the fixpoint loop is left after at most as many sweeps as there
\* are nodes (`while (changed)` in buildRunDominance).
SweepsSettle == sweeps <= Len(Ids)

=============================================================================
