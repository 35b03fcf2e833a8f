---------------------------- MODULE FanOut_proofs ----------------------------
(***************************************************************************)
(* FanOut, for every set of disjoint branches, limit, ceiling and bound.   *)
(***************************************************************************)
EXTENDS FanOut, FiniteSetTheorems, TLAPS

-----------------------------------------------------------------------------
(* What the model's operators return.                                      *)

\* A finite set has a subset of every size up to its own.
LEMMA SubsetOfSize ==
    ASSUME NEW S, IsFiniteSet(S), NEW k \in 0 .. Cardinality(S)
    PROVE  \E T \in SUBSET S : Cardinality(T) = k
<1> DEFINE c == Cardinality(S)
<1>1. c \in Nat /\ ExistsBijection(1 .. c, S)
  BY FS_CardinalityType
<1>2. PICK f \in Bijection(1 .. c, S) : TRUE
  BY <1>1 DEF ExistsBijection
<1> DEFINE T == {f[i] : i \in 1 .. k}
           g == [i \in 1 .. k |-> f[i]]
<1>3. 1 .. k \subseteq 1 .. c
  BY <1>1
<1>4. f \in [1 .. c -> S] /\ \A i, j \in 1 .. c : f[i] = f[j] => i = j
  <2> HIDE DEF c
  <2> QED BY <1>2 DEF Bijection, Injection, IsInjective
<1>5. T \in SUBSET S
  BY <1>3, <1>4
<1>6. g \in [1 .. k -> T]
  OBVIOUS
<1>7. g \in Injection(1 .. k, T)
  <2> HIDE DEF T
  <2>1. \A i, j \in 1 .. k : g[i] = g[j] => i = j
    BY <1>3, <1>4
  <2> QED BY <2>1, <1>6 DEF Injection, IsInjective
<1>8. g \in Surjection(1 .. k, T)
  <2>1. \A t \in T : \E i \in 1 .. k : g[i] = t
    OBVIOUS
  <2> QED BY <2>1, <1>6 DEF Surjection
<1>9. ExistsBijection(1 .. k, T)
  BY <1>7, <1>8 DEF ExistsBijection, Bijection
<1>10. k \in Nat
  BY <1>1
<1>11. Cardinality(T) = k
  <2> HIDE DEF T
  <2> QED BY <1>9, <1>10, FS_CountingElements
<1> QED BY <1>5, <1>11

\* A region has finitely many nodes.
LEMMA FiniteRegion == ASSUME RegionAssumption PROVE IsFiniteSet(Node)
<1>1. ASSUME NEW p \in Paths PROVE IsFiniteSet(Range(p))
  <2>1. p \in Seq(Node) /\ Len(p) \in Nat /\ DOMAIN p = 1 .. Len(p)
    BY DEF RegionAssumption
  <2>2. IsFiniteSet(DOMAIN p)
    BY <2>1, FS_Interval
  <2>3. p \in Surjection(DOMAIN p, Range(p))
    BY <2>1 DEF Surjection, Range
  <2> QED BY <2>2, <2>3, FS_Surjection
<1>2. IsFiniteSet({Range(p) : p \in Paths})
  <2> DEFINE f == [p \in Paths |-> Range(p)]
  <2>1. f \in Surjection(Paths, {Range(p) : p \in Paths})
    BY DEF Surjection
  <2> QED BY <2>1, FS_Surjection DEF RegionAssumption
<1> QED BY <1>1, <1>2, FS_UNION DEF Node

\* A dispatch adds waiting members from the set it is given, and nothing else.
LEMMA DispatchAdds ==
    ASSUME RegionAssumption, NEW S \in SUBSET Node, NEW count \in 0 .. MaxLoops,
           NEW p, p = [n \in Node |-> p[n]]
    PROVE  /\ \E T \in SUBSET S : Dispatch(p, S, count).p =
                 [n \in Node |-> IF n \in T THEN [inv |-> 0, st |-> "wait"] ELSE p[n]]
           /\ Dispatch(p, S, count).loops \in 0 .. MaxLoops
           /\ Dispatch(p, S, count).rank \in {-1, 1}
<1>1. CASE tripped
  <2>1. Dispatch(p, S, count) = [p |-> p, loops |-> count, rank |-> -1]
    BY <1>1 DEF Dispatch
  <2>2. Dispatch(p, S, count).p = p
    BY <2>1
  <2>3. p = [n \in Node |-> IF n \in {} THEN [inv |-> 0, st |-> "wait"] ELSE p[n]]
    OBVIOUS
  <2>4. \E T \in SUBSET S : p = [n \in Node |-> IF n \in T THEN [inv |-> 0, st |-> "wait"] ELSE p[n]]
    <3> WITNESS {} \in SUBSET S
    <3> QED BY <2>3
  <2>5. Dispatch(p, S, count).loops = count /\ Dispatch(p, S, count).rank = -1
    BY <2>1
  <2> QED BY <2>2, <2>4, <2>5
<1>2. CASE ~tripped
  <2> DEFINE room == MaxLoops - count
             size == IF Cardinality(S) <= room THEN Cardinality(S) ELSE room
             take == CHOOSE T \in SUBSET S : Cardinality(T) = size
  <2>1. IsFiniteSet(S) /\ Cardinality(S) \in Nat
    BY FiniteRegion, FS_Subset, FS_CardinalityType
  <2>2. MaxLoops \in Nat
    BY DEF RegionAssumption
  <2>3. size \in 0 .. Cardinality(S) /\ count + size \in 0 .. MaxLoops
    BY <2>1, <2>2
  <2>4. take \in SUBSET S /\ Cardinality(take) = size
    <3> HIDE DEF size
    <3> QED BY <2>1, <2>3, SubsetOfSize
  <2>5. /\ Dispatch(p, S, count).p = [n \in Node |-> IF n \in take THEN [inv |-> 0, st |-> "wait"] ELSE p[n]]
        /\ Dispatch(p, S, count).loops = count + Cardinality(take)
        /\ Dispatch(p, S, count).rank = IF take = S THEN -1 ELSE 1
    BY <1>2 DEF Dispatch
  <2> HIDE DEF size, take
  <2> QED BY <2>3, <2>4, <2>5
<1> QED BY <1>1, <1>2

\* A node of the region stands at one place of one branch.
LEMMA NodeInBranch ==
    ASSUME NEW n \in Node PROVE \E p \in Paths : \E i \in DOMAIN p : n = p[i]
BY DEF Node, Range

\* What follows a node on its branch.
LEMMA SuccessorFacts ==
    ASSUME RegionAssumption, NEW p \in Paths, NEW i \in DOMAIN p, NEW o
    PROVE  SuccessorOf(p[i], o) = IF o \in {"again", "held"} THEN p[i]
                                  ELSE IF o = "ok" /\ i < Len(p) THEN p[i + 1] ELSE None
<1>1. (CHOOSE q \in Paths : p[i] \in Range(q)) = p
  BY DEF RegionAssumption, Range
<1>2. (CHOOSE j \in DOMAIN p : p[j] = p[i]) = i
  BY DEF RegionAssumption
<1>3. SuccessorOf(p[i], o) = CASE o \in {"again", "held"} -> p[i]
                               [] o = "ok" /\ i < Len(p) -> p[i + 1]
                               [] OTHER -> None
  BY <1>1, <1>2, Zenon DEF SuccessorOf
<1> QED BY <1>3

\* The successor of a node is a node of its branch, or the join.
LEMMA SuccessorType ==
    ASSUME RegionAssumption, NEW n \in Node, NEW o
    PROVE  SuccessorOf(n, o) \in Node \cup {None}
<1>1. PICK p \in Paths : \E i \in DOMAIN p : n = p[i]
  BY NodeInBranch
<1>2. PICK i \in DOMAIN p : n = p[i]
  BY <1>1
<1>3. p \in Seq(Node) /\ DOMAIN p = 1 .. Len(p) /\ Len(p) \in Nat
  BY DEF RegionAssumption
<1>4. i < Len(p) => i + 1 \in DOMAIN p
  BY <1>3
<1> QED BY <1>2, <1>3, <1>4, SuccessorFacts

\* The rank of an outcome, and how a disposition slot changes.
LEMMA RankType ==
    /\ \A o \in Outcomes : Rank(o) \in -1 .. 3
    /\ \A o \in {"throw", "leak", "stray"} : Rank(o) = 3
    /\ \A a, b \in -1 .. 3 : /\ NoteDisposition(a, b) \in -1 .. 3
                             /\ NoteDisposition(a, b) >= a /\ NoteDisposition(a, b) >= b
BY DEF Outcomes, Finished, Exits, Rank, NoteDisposition

-----------------------------------------------------------------------------
(* A branch's own commit, with the dispatch it may make.                    *)

\* the outcome that lands and the node it dispatches next
Landing(n) == pool[n].st
Follows(n) == SuccessorOf(n, Landing(n))
\* the disposition slot once the outcome and the budget breach are noted
SlotAfter(n, breach) == NoteDisposition(NoteDisposition(disp, Rank(Landing(n))), breach)

\* the pool once n has left it and the nodes of T wait
PoolAfter(n, T) ==
    [m \in Node |-> IF m \in T THEN [inv |-> 0, st |-> "wait"] ELSE IF m = n THEN None ELSE pool[m]]

\* what a landing does to the superstep, for the breach it finds and what it dispatches
LandsAs(n, breach, T, rank) ==
    /\ T \subseteq {Follows(n)} \ {None}
    /\ T # {} \/ rank # -1 => Landing(n) \in Finished /\ SlotAfter(n, breach) = -1
    /\ pool' = PoolAfter(n, T)
    /\ disp' = NoteDisposition(SlotAfter(n, breach), rank)
    /\ noted' = noted \cup ({Rank(Landing(n)), breach, rank} \ {-1})
    /\ IF SlotAfter(n, breach) = 3 /\ Landing(n) \in Finished
       THEN pc' = "bail" /\ bailed' = TRUE /\ batch' = [spend |-> {}, rank |-> 3]
       ELSE UNCHANGED <<pc, bailed, batch>>

LEMMA LandsUnfolds ==
    ASSUME RegionAssumption, TypeOK, NEW n \in Node, SettleLands(n)
    PROVE  /\ \E breach \in {-1, 2, 3}, T \in SUBSET Node, rank \in {-1, 1} : LandsAs(n, breach, T, rank)
           /\ loops' \in 0 .. MaxLoops
           /\ faults' \in 0 .. MaxFaults
<1> DEFINE o == Landing(n)
           s == Follows(n)
           out == [pool EXCEPT ![n] = None]
           Go(slot) == IF o \in Finished /\ s # None /\ slot = -1
                       THEN Dispatch(out, {s}, loops)
                       ELSE [p |-> out, loops |-> loops, rank |-> -1]
<1>1. PICK breach \in {-1, 2, 3} :
         LET slot == SlotAfter(n, breach)
         IN /\ IF breach # -1 THEN Fault ELSE UNCHANGED faults
            /\ pool' = Go(slot).p /\ loops' = Go(slot).loops
            /\ disp' = NoteDisposition(slot, Go(slot).rank)
            /\ noted' = noted \cup ({Rank(o), breach} \ {-1}) \cup ({Go(slot).rank} \ {-1})
            /\ IF slot = 3 /\ o \in Finished
               THEN pc' = "bail" /\ bailed' = TRUE /\ batch' = [spend |-> {}, rank |-> 3]
               ELSE UNCHANGED <<pc, bailed, batch>>
  BY Zenon DEF SettleLands, Landing, Follows, SlotAfter
<1> DEFINE slot == SlotAfter(n, breach)
           go == Go(slot)
<1>2. s \in Node \cup {None}
  BY SuccessorType DEF Follows
<1>3. loops \in 0 .. MaxLoops /\ pool = [m \in Node |-> pool[m]] /\ faults \in 0 .. MaxFaults
  BY DEF TypeOK
<1>4. faults' \in 0 .. MaxFaults
  BY <1>1, <1>3 DEF Fault, RegionAssumption
<1>5. out = [m \in Node |-> IF m = n THEN None ELSE pool[m]]
  BY <1>3
<1>6. CASE o \in Finished /\ s # None /\ slot = -1
  <2>1. out = [m \in Node |-> out[m]] /\ {s} \in SUBSET Node
    BY <1>2, <1>5, <1>6
  <2>2. go = Dispatch(out, {s}, loops)
    BY <1>6
  <2> HIDE DEF go, out
  <2> DEFINE S == {s}
  <2> HIDE DEF S
  <2>a. S \in SUBSET Node /\ go = Dispatch(out, S, loops)
    BY <2>1, <2>2 DEF S
  <2>3. PICK T \in SUBSET S : go.p = [m \in Node |-> IF m \in T THEN [inv |-> 0, st |-> "wait"] ELSE out[m]]
    BY <1>3, <2>1, <2>a, DispatchAdds
  <2>4. go.loops \in 0 .. MaxLoops /\ go.rank \in {-1, 1}
    BY <1>3, <2>1, <2>a, DispatchAdds
  <2>5. go.p = PoolAfter(n, T)
    BY <2>3, <1>5 DEF PoolAfter
  <2>6. T \in SUBSET Node /\ T \subseteq {s} \ {None}
    BY <2>1, <1>6 DEF S
  <2> HIDE DEF o, s, slot
  <2>7. noted' = noted \cup ({Rank(o), breach, go.rank} \ {-1})
    BY <1>1 DEF go, slot
  <2>8. LandsAs(n, breach, T, go.rank)
    BY <1>1, <1>6, <2>5, <2>6, <2>7 DEF LandsAs, o, s, slot, go
  <2> QED BY <1>1, <1>4, <2>4, <2>6, <2>8 DEF go, slot
<1>7. CASE ~(o \in Finished /\ s # None /\ slot = -1)
  <2>1. go = [p |-> out, loops |-> loops, rank |-> -1]
    BY <1>7
  <2>2. go.p = PoolAfter(n, {}) /\ go.rank = -1 /\ go.loops = loops
    <3>1. PoolAfter(n, {}) = [m \in Node |-> IF m = n THEN None ELSE pool[m]]
      BY DEF PoolAfter
    <3>2. PoolAfter(n, {}) = out
      BY <3>1, <1>5, Zenon
    <3> HIDE DEF go
    <3> QED BY <2>1, <3>2
  <2>3. LandsAs(n, breach, {}, -1)
    <3> HIDE DEF go, o, s, slot
    <3>1. noted' = noted \cup ({Rank(o), breach, -1} \ {-1})
      BY <1>1, <2>2 DEF go, slot
    <3> QED BY <1>1, <2>2, <3>1 DEF LandsAs, go, slot, o
  <2> QED BY <1>1, <1>3, <1>4, <2>2, <2>3
<1> QED BY <1>6, <1>7

\* The pool a superstep opens: members that wait, all of them on the frontier.
LEMMA EnterUnfolds ==
    ASSUME RegionAssumption, TypeOK, EnterPool
    PROVE  /\ frontier \in SUBSET Node
           /\ \E T \in SUBSET frontier, rank \in {-1, 1} :
                 /\ pool' = [n \in Node |-> IF n \in T THEN [inv |-> 0, st |-> "wait"] ELSE None]
                 /\ disp' = rank /\ noted' = {rank} \ {-1}
<1> DEFINE E == EmptyPool
           d == Dispatch(E, frontier, loops)
<1>1. frontier \in SUBSET Node /\ loops \in 0 .. MaxLoops
  BY DEF EnterPool, Live, TypeOK
<1>2. E = [n \in Node |-> E[n]]
  BY DEF EmptyPool
<1>3. pool' = d.p /\ disp' = d.rank /\ noted' = {d.rank} \ {-1}
  BY DEF EnterPool
<1> HIDE DEF E
<1>4. PICK T \in SUBSET frontier : d.p = [n \in Node |-> IF n \in T THEN [inv |-> 0, st |-> "wait"] ELSE E[n]]
  BY <1>1, <1>2, DispatchAdds
<1>5. d.rank \in {-1, 1}
  BY <1>1, <1>2, DispatchAdds
<1> HIDE DEF d
<1>6. pool' = [n \in Node |-> IF n \in T THEN [inv |-> 0, st |-> "wait"] ELSE None]
  BY <1>3, <1>4 DEF E, EmptyPool
<1> QED BY <1>1, <1>3, <1>5, <1>6

-----------------------------------------------------------------------------
(* Types.                                                                  *)

\* the part of the type invariant that does not speak of invocations
PlainTypes ==
    /\ status \in {"queued", "running", "auto", "paused", "halted"} /\ cur \in {"fan", "join"}
    /\ frontier \in (SUBSET Node) \cup {None} /\ done \in SUBSET Node
    /\ last \in [Node -> {"none", "started", "aborted", "completed"}]
    /\ raised \in {"none", "queued", "applied"}
    /\ pc \in {"off", "idle", "pool", "drain", "bail", "commit"}
    /\ disp \in -1 .. 3 /\ noted \in SUBSET (0 .. 3)
    /\ bailed \in BOOLEAN /\ tripped \in BOOLEAN /\ fold \in BOOLEAN
    /\ conflicts \in Nat /\ streak \in [Node -> Nat] /\ loops \in 0 .. MaxLoops
    /\ faults \in 0 .. MaxFaults

\* the part that does
SpendTypes ==
    /\ ninv \in Nat /\ counted \in [Inv -> Nat]
    /\ lost \in SUBSET [inv : Inv, why : {"crash", "thrown", "drained", "abandoned", "dropped"}]
    /\ pool \in [Node -> Handler \cup {None}]
    /\ batch \in Batch \cup {None} /\ parked \in Batch \cup {None}

LEMMA TypeParts == TypeOK <=> PlainTypes /\ SpendTypes
BY DEF TypeOK, PlainTypes, SpendTypes

\* What a superstep's phase says of the fiber: an empty pool before and after it, a batch
\* only in the commit lane, and a parked batch only between two commits of the same fiber.
PhaseInv ==
    /\ pc # "off" => status = "running"
    /\ cur = "join" => pc = "off" /\ status = "running" /\ frontier = None
    /\ pc \in {"off", "idle", "commit"} => pool = EmptyPool
    /\ pc \in {"off", "idle", "pool"} <=> batch = None
    /\ pc \notin {"idle", "commit"} => parked = None
    /\ pc = "commit" => parked \in {None, batch}
    /\ pc = "bail" => batch.rank = 3
    /\ pc = "pool" => frontier # None

\* With no new invocation, the sets that speak of invocations stay.
LEMMA SameInvs == ninv' = ninv => Inv' = Inv /\ Handler' = Handler /\ Batch' = Batch
BY DEF Inv, Handler, Batch

\* None is neither a pool member nor a batch.
LEMMA NoneApart ==
    ASSUME RegionAssumption, ninv \in Nat
    PROVE  /\ None \notin Handler /\ None \notin Batch
           /\ \A h \in Handler : h \in [inv : Inv \cup {0}, st : Outcomes \cup {"wait", "run"}]
<1>1. Inv \subseteq Nat
  BY DEF Inv
<1>2. \A h \in Handler : h \in [inv : Inv \cup {0}, st : Outcomes \cup {"wait", "run"}]
  BY DEF Handler
<1>3. Handler \subseteq [inv : Nat, st : Outcomes \cup {"wait", "run"}]
  <2>1. Inv \cup {0} \subseteq Nat
    BY <1>1
  <2> QED BY <1>2, <2>1
<1>4. Batch \subseteq [spend : SUBSET Nat, rank : -1 .. 3]
  BY <1>1 DEF Batch
<1> QED BY <1>2, <1>3, <1>4 DEF RegionAssumption

\* What is in flight has started.
LEMMA SpendingStarted ==
    ASSUME RegionAssumption, SpendTypes
    PROVE  /\ Spending \in SUBSET Inv
           /\ SpendOf(batch) \in SUBSET Inv /\ SpendOf(parked) \in SUBSET Inv
           /\ \A n \in Running \cup Settled : pool[n].inv \in Inv
<1>1. \A n \in Running \cup Settled : pool[n] \in Handler /\ pool[n].st # "wait"
  BY DEF SpendTypes, Running, Settled, InState, Members, Outcomes, Finished, Exits
<1>2. \A n \in Running \cup Settled : pool[n].inv \in Inv
  BY <1>1 DEF Handler
<1>3. SpendOf(batch) \in SUBSET Inv /\ SpendOf(parked) \in SUBSET Inv
  BY DEF SpendTypes, SpendOf, Batch
<1> QED BY <1>2, <1>3 DEF Spending, InvsOf

\* The plain part of the type invariant survives every step.
LEMMA NextPlainTypes == RegionAssumption /\ TypeOK /\ PhaseInv /\ [Next]_vars => PlainTypes'
<1> SUFFICES ASSUME RegionAssumption, TypeOK, PhaseInv, [Next]_vars PROVE PlainTypes'
  OBVIOUS
<1>t. PlainTypes /\ SpendTypes
  BY TypeParts
<1>f. Fault => faults' \in 0 .. MaxFaults
  BY <1>t DEF PlainTypes, Fault, RegionAssumption
<1>1. CASE Claim \/ Raise \/ OperatorPause \/ Wake \/ Crash
  <2>1. 0 \in 0 .. MaxLoops
    BY DEF RegionAssumption
  <2>2. CASE Claim
    BY <1>t, <2>1, <2>2 DEF PlainTypes, Claim
  <2>3. CASE Raise
    BY <1>t, <1>f, <2>3 DEF PlainTypes, Raise, step, fiber
  <2>6. CASE Wake
    BY <1>t, <2>6 DEF PlainTypes, Wake, step, fiber
  <2>4. CASE OperatorPause
    <3>1. faults' \in 0 .. MaxFaults /\ disp' \in -1 .. 3
      BY <1>t, <1>f, <2>4 DEF PlainTypes, OperatorPause, FiberEnds
    <3>2. conflicts' \in Nat
      BY <1>t, <2>4 DEF PlainTypes, OperatorPause, FiberEnds
    <3> QED BY <1>t, <2>4, <3>1, <3>2 DEF PlainTypes, OperatorPause, FiberEnds
  <2>5. CASE Crash
    <3>1. faults' \in 0 .. MaxFaults /\ disp' \in -1 .. 3
      BY <1>t, <1>f, <2>5 DEF PlainTypes, Crash, FiberEnds
    <3>2. conflicts' \in Nat
      BY <1>t, <2>5 DEF PlainTypes, Crash, FiberEnds
    <3> QED BY <1>t, <2>5, <3>1, <3>2 DEF PlainTypes, Crash, FiberEnds
  <2> QED BY <1>1, <2>2, <2>3, <2>4, <2>5, <2>6
<1>2. CASE SeedFrontier
  <2>1. Entries \in SUBSET Node
    <3>1. \A p \in Paths : Head(p) = p[1] /\ 1 \in DOMAIN p
      BY DEF RegionAssumption
    <3> QED BY <3>1 DEF Entries, Node, Range
  <2> QED BY <1>t, <1>2, <2>1 DEF PlainTypes, SeedFrontier, step, fiber
<1>3. CASE AdvanceJoin
  <2>1. faults' \in 0 .. MaxFaults /\ disp' \in -1 .. 3
    BY <1>t, <1>f, <1>3 DEF PlainTypes, AdvanceJoin
  <2>2. conflicts' \in Nat
    BY <1>t, <1>3 DEF PlainTypes, AdvanceJoin
  <2>3. raised' \in {"none", "queued", "applied"} /\ frontier' \in (SUBSET Node) \cup {None}
    BY <1>t, <1>3 DEF PlainTypes, AdvanceJoin
  <2> QED BY <1>t, <1>3, <2>1, <2>2, <2>3 DEF PlainTypes, AdvanceJoin
<1>20. CASE JoinPause
  <2>1. faults' \in 0 .. MaxFaults /\ disp' \in -1 .. 3
    BY <1>t, <1>f, <1>20 DEF PlainTypes, JoinPause
  <2>2. conflicts' \in Nat
    BY <1>t, <1>20 DEF PlainTypes, JoinPause
  <2> QED BY <1>t, <1>20, <2>1, <2>2 DEF PlainTypes, JoinPause
<1>19. CASE EnterConflict
  <2>1. faults' \in 0 .. MaxFaults /\ disp' \in -1 .. 3
    BY <1>t, <1>f, <1>19 DEF PlainTypes, EnterConflict, Conflicted, ConsumeFold
  <2>2. conflicts' \in Nat
    BY <1>t, <1>19 DEF PlainTypes, EnterConflict, Conflicted, ConsumeFold
  <2> QED BY <1>t, <1>19, <2>1, <2>2 DEF PlainTypes, EnterConflict, Conflicted, ConsumeFold
<1>4. CASE JoinBreach
  <2>1. batch'.rank \in {2, 3}
    BY <1>4 DEF JoinBreach
  <2> QED BY <1>t, <1>f, <1>4, <2>1 DEF PlainTypes, JoinBreach, log, fiber
<1>5. CASE EnterPool
  <2> DEFINE d == Dispatch(EmptyPool, frontier, loops)
  <2>1. frontier \in SUBSET Node
    <3>1. Live # {}
      BY <1>5 DEF EnterPool
    <3>2. frontier \in (SUBSET Node) \cup {None}
      BY <1>t DEF PlainTypes
    <3>3. frontier # None
      BY <3>1 DEF Live
    <3> QED BY <3>2, <3>3
  <2>2. d.loops \in 0 .. MaxLoops /\ d.rank \in {-1, 1}
    BY <1>t, <2>1, DispatchAdds DEF PlainTypes, EmptyPool
  <2>3. loops' = d.loops /\ disp' = d.rank /\ noted' = {d.rank} \ {-1}
    BY <1>5 DEF EnterPool
  <2>4. last' = [n \in Node |-> IF n \in Aborted THEN "started" ELSE last[n]]
    BY <1>5 DEF EnterPool
  <2>5. last' \in [Node -> {"none", "started", "aborted", "completed"}]
    BY <1>t, <2>4 DEF PlainTypes
  <2>6. raised' \in {"none", "queued", "applied"} /\ fold' \in BOOLEAN
    BY <1>t, <1>5 DEF PlainTypes, EnterPool
  <2>7. /\ pc' = "pool" /\ bailed' = FALSE /\ tripped' = FALSE
        /\ UNCHANGED <<status, cur, frontier, done, conflicts, streak, faults>>
    BY <1>5 DEF EnterPool
  <2> HIDE DEF d
  <2>8. disp' \in -1 .. 3 /\ noted' \in SUBSET (0 .. 3)
    BY <2>2, <2>3
  <2> QED BY <1>t, <2>2, <2>3, <2>5, <2>6, <2>7, <2>8 DEF PlainTypes
<1>6. ASSUME NEW n \in Node, Acquire(n) PROVE PlainTypes'
  BY <1>t, <1>6 DEF PlainTypes, Acquire, fiber
<1>7. ASSUME NEW n \in Node, NEW o \in Outcomes, Finish(n, o) PROVE PlainTypes'
  BY <1>t, <1>f, <1>7 DEF PlainTypes, Finish, log, fiber
<1>9. ASSUME NEW n \in Node, SettleHalts(n) PROVE PlainTypes'
  BY <1>t, <1>9 DEF PlainTypes, SettleHalts, log, fiber
<1>10. ASSUME NEW n \in Node, SettleConflicts(n) PROVE PlainTypes'
  <2>1. faults' \in 0 .. MaxFaults /\ disp' \in -1 .. 3
    BY <1>t, <1>f, <1>10 DEF PlainTypes, SettleConflicts, ConsumeFold
  <2>2. conflicts' \in Nat
    BY <1>t, <1>10 DEF PlainTypes, SettleConflicts, ConsumeFold
  <2> QED BY <1>t, <1>10, <2>1, <2>2 DEF PlainTypes, SettleConflicts, ConsumeFold
<1>11. ASSUME NEW n \in Node, SettleThrows(n) PROVE PlainTypes'
  <2>1. faults' \in 0 .. MaxFaults /\ disp' \in -1 .. 3
    BY <1>t, <1>f, <1>11 DEF PlainTypes, SettleThrows, FiberEnds
  <2>2. conflicts' \in Nat
    BY <1>t, <1>11 DEF PlainTypes, SettleThrows, FiberEnds
  <2> QED BY <1>t, <1>11, <2>1, <2>2 DEF PlainTypes, SettleThrows, FiberEnds
<1>12. CASE Drain
  BY <1>t, <1>f, <1>12 DEF PlainTypes, Drain, fiber
<1>13. CASE Bail
  <2>1. noted' \in SUBSET (0 .. 3)
    <3>1. \A n \in Settled : Rank(pool[n].st) \in -1 .. 3
      BY RankType DEF Settled, InState
    <3> QED BY <1>t, <1>13, <3>1 DEF PlainTypes, Bail
  <2> QED BY <1>t, <1>f, <1>13, <2>1 DEF PlainTypes, Bail, log, fiber
<1>14. CASE PoolEmpty
  <2>1. noted' \in SUBSET (0 .. 3)
    <3>1. CASE pc' = "commit"
      <4>1. batch'.rank \in 0 .. 3
        BY <1>t, <1>14, <3>1 DEF PlainTypes, PoolEmpty
      <4> QED BY <1>t, <1>14, <3>1, <4>1 DEF PlainTypes, PoolEmpty
    <3> QED BY <1>t, <1>14, <3>1 DEF PlainTypes, PoolEmpty
  <2>2. pc' \in {"idle", "commit"} /\ faults' \in 0 .. MaxFaults
    BY <1>t, <1>f, <1>14 DEF PlainTypes, PoolEmpty
  <2> QED BY <1>t, <1>14, <2>1, <2>2 DEF PlainTypes, PoolEmpty, log, fiber
<1>15. CASE Recommit
  BY <1>t, <1>15 DEF PlainTypes, Recommit, log, fiber
<1>16. CASE CommitLands
  <2>1. faults' \in 0 .. MaxFaults /\ disp' \in -1 .. 3
    BY <1>t, <1>f, <1>16 DEF PlainTypes, CommitLands, StatusOf, TakeFold
  <2>2. conflicts' \in Nat
    BY <1>t, <1>16 DEF PlainTypes, CommitLands, StatusOf, TakeFold
  <2> QED BY <1>t, <1>16, <2>1, <2>2 DEF PlainTypes, CommitLands, StatusOf, TakeFold
<1>17. CASE CommitConflicts
  <2>1. faults' \in 0 .. MaxFaults /\ disp' \in -1 .. 3
    BY <1>t, <1>f, <1>17 DEF PlainTypes, CommitConflicts, ConsumeFold
  <2>2. conflicts' \in Nat
    BY <1>t, <1>17 DEF PlainTypes, CommitConflicts, ConsumeFold
  <2> QED BY <1>t, <1>17, <2>1, <2>2 DEF PlainTypes, CommitConflicts, ConsumeFold
<1>18. CASE UNCHANGED vars
  BY <1>t, <1>18 DEF PlainTypes, vars, log, step, fiber
<1>8. ASSUME NEW n \in Node, SettleLands(n) PROVE PlainTypes'
  <2>1. PICK breach \in {-1, 2, 3}, T \in SUBSET Node, rank \in {-1, 1} : LandsAs(n, breach, T, rank)
    BY <1>8, LandsUnfolds
  <2>2. loops' \in 0 .. MaxLoops /\ faults' \in 0 .. MaxFaults
    BY <1>8, LandsUnfolds
  <2>3. Landing(n) \in Outcomes /\ Rank(Landing(n)) \in -1 .. 3
    BY <1>8, RankType DEF SettleLands, Settled, InState, Landing
  <2>4. SlotAfter(n, breach) \in -1 .. 3
    BY <1>t, <2>3, RankType DEF PlainTypes, SlotAfter
  <2>5. disp' \in -1 .. 3
    BY <2>1, <2>4, RankType DEF LandsAs
  <2>6. noted' \in SUBSET (0 .. 3)
    BY <1>t, <2>1, <2>3 DEF PlainTypes, LandsAs
  <2>7. pc' \in {"pool", "bail"} /\ bailed' \in BOOLEAN
    BY <1>t, <2>1, <1>8 DEF PlainTypes, LandsAs, SettleLands
  <2>8. Follows(n) \in Node \cup {None}
    BY SuccessorType DEF Follows
  <2>9. /\ frontier' = IF Landing(n) \in Finished THEN FrontierAfter(n, Follows(n)) ELSE frontier
        /\ last' = LastAfter(n, Landing(n), Follows(n))
        /\ done' \in {done, done \cup {n}}
        /\ TakeFold
        /\ streak' \in {streak, [streak EXCEPT ![n] = @ + 1], [streak EXCEPT ![n] = 0]}
        /\ UNCHANGED <<status, cur, tripped, conflicts>>
    BY <1>8, Zenon DEF SettleLands, Landing, Follows
  <2>10. frontier' \in (SUBSET Node) \cup {None}
    <3>1. frontier \in SUBSET Node
      BY <1>t, <1>8 DEF PlainTypes, PhaseInv, SettleLands
    <3> QED BY <2>8, <2>9, <3>1 DEF FrontierAfter
  <2>11. last' \in [Node -> {"none", "started", "aborted", "completed"}]
    BY <1>t, <2>9 DEF PlainTypes, LastAfter
  <2>12. streak' \in [Node -> Nat]
    BY <1>t, <2>9 DEF PlainTypes
  <2> QED BY <1>t, <2>2, <2>5, <2>6, <2>7, <2>9, <2>10, <2>11, <2>12 DEF PlainTypes, TakeFold
<1> QED BY <1>1, <1>2, <1>3, <1>4, <1>5, <1>6, <1>7, <1>8, <1>9, <1>10, <1>11, <1>12, <1>13,
          <1>14, <1>15, <1>16, <1>17, <1>18, <1>19, <1>20 DEF Next, Progress, Handlers, Trouble, Ended

\* The totals and the losses stay typed.
LEMMA CountType == ASSUME SpendTypes, NEW X PROVE Count(X) \in [Inv -> Nat]
BY DEF SpendTypes, Count

LEMMA LoseType ==
    ASSUME SpendTypes, NEW X \in SUBSET Inv,
           NEW why \in {"crash", "thrown", "drained", "abandoned", "dropped"}, Lose(X, why)
    PROVE  lost' \in SUBSET [inv : Inv, why : {"crash", "thrown", "drained", "abandoned", "dropped"}]
BY DEF SpendTypes, Lose

\* A step that starts no invocation need only keep what there is well typed.
LEMMA SpendStep ==
    ASSUME SpendTypes, ninv' = ninv, counted' \in [Inv -> Nat],
           lost' \in SUBSET [inv : Inv, why : {"crash", "thrown", "drained", "abandoned", "dropped"}],
           pool' \in [Node -> Handler \cup {None}],
           batch' \in Batch \cup {None}, parked' \in Batch \cup {None}
    PROVE  SpendTypes'
BY SameInvs DEF SpendTypes

\* The part that speaks of invocations survives every step.
LEMMA NextSpendTypes == RegionAssumption /\ TypeOK /\ PhaseInv /\ [Next]_vars => SpendTypes'
<1> SUFFICES ASSUME RegionAssumption, TypeOK, PhaseInv, [Next]_vars PROVE SpendTypes'
  OBVIOUS
<1>t. SpendTypes
  BY TypeParts
<1>e. EmptyPool \in [Node -> Handler \cup {None}]
  BY DEF EmptyPool
<1>o. /\ counted \in [Inv -> Nat] /\ pool \in [Node -> Handler \cup {None}]
      /\ batch \in Batch \cup {None} /\ parked \in Batch \cup {None}
      /\ lost \in SUBSET [inv : Inv, why : {"crash", "thrown", "drained", "abandoned", "dropped"}]
  BY <1>t DEF SpendTypes
<1>i. /\ Spending \in SUBSET Inv
      /\ SpendOf(batch) \in SUBSET Inv /\ SpendOf(parked) \in SUBSET Inv
      /\ \A n \in Running \cup Settled : pool[n].inv \in Inv
  BY <1>t, SpendingStarted
<1>1. CASE Claim \/ Raise \/ Wake \/ SeedFrontier \/ AdvanceJoin \/ JoinPause \/ UNCHANGED vars
  <2>1. ninv' = ninv /\ counted' = counted /\ lost' = lost /\ pool' = pool /\ batch' = batch
    BY <1>1 DEF Claim, Raise, Wake, SeedFrontier, AdvanceJoin, JoinPause, vars, log, step, fiber
  <2>2. parked' \in {parked, None}
    BY <1>1 DEF Claim, Raise, Wake, SeedFrontier, AdvanceJoin, JoinPause, vars, log, step, fiber
  <2> QED BY <1>t, <1>o, <2>1, <2>2, SpendStep
<1>2. CASE EnterConflict
  BY <1>t, <1>o, <1>2, SpendStep DEF EnterConflict, Conflicted
<1>3. CASE OperatorPause
  <2>1. lost' \in SUBSET [inv : Inv, why : {"crash", "thrown", "drained", "abandoned", "dropped"}]
    BY <1>t, <1>i, <1>3, LoseType DEF OperatorPause
  <2> QED BY <1>t, <1>o, <1>e, <1>3, <2>1, SpendStep DEF OperatorPause, FiberEnds
<1>4. CASE Crash
  <2>1. lost' \in SUBSET [inv : Inv, why : {"crash", "thrown", "drained", "abandoned", "dropped"}]
    BY <1>t, <1>i, <1>4, LoseType DEF Crash
  <2> QED BY <1>t, <1>o, <1>e, <1>4, <2>1, SpendStep DEF Crash, FiberEnds
<1>5. CASE JoinBreach
  <2>1. batch' \in Batch
    BY <1>5 DEF JoinBreach, Batch
  <2> QED BY <1>t, <1>o, <1>5, <2>1, SpendStep DEF JoinBreach, log, fiber
<1>6. CASE EnterPool
  <2>1. PICK T \in SUBSET frontier :
           pool' = [n \in Node |-> IF n \in T THEN [inv |-> 0, st |-> "wait"] ELSE None]
    BY <1>6, EnterUnfolds
  <2>2. [inv |-> 0, st |-> "wait"] \in Handler
    BY DEF Handler
  <2>5. pool' \in [Node -> Handler \cup {None}]
    BY <2>1, <2>2
  <2> QED BY <1>t, <1>o, <1>6, <2>5, SpendStep DEF EnterPool
<1>7. ASSUME NEW n \in Node, Acquire(n) PROVE SpendTypes'
  <2>1. CASE bailed
    BY <1>t, <1>o, <1>7, <2>1, SpendStep DEF Acquire, fiber
  <2>2. CASE ~bailed
    <3>1. ninv' = ninv + 1 /\ ninv \in Nat /\ Inv' = 1 .. ninv + 1 /\ Inv = 1 .. ninv
      BY <1>t, <1>7, <2>2 DEF Acquire, SpendTypes, Inv
    <3>2. Inv \subseteq Inv' /\ ninv + 1 \in Inv'
      BY <3>1
    <3>3. Handler \subseteq Handler' /\ Batch \subseteq Batch'
      BY <3>2 DEF Handler, Batch
    <3>4. [inv |-> ninv + 1, st |-> "run"] \in Handler'
      BY <3>2 DEF Handler
    <3>5. pool' = [pool EXCEPT ![n] = [inv |-> ninv + 1, st |-> "run"]]
      BY <1>7, <2>2 DEF Acquire
    <3>6. pool' \in [Node -> Handler' \cup {None}]
      BY <1>o, <3>3, <3>4, <3>5
    <3>7. counted' \in [Inv' -> Nat]
      BY <1>o, <3>1, <1>7, <2>2 DEF Acquire
    <3>8. lost' \in SUBSET [inv : Inv', why : {"crash", "thrown", "drained", "abandoned", "dropped"}]
      BY <1>o, <3>2, <1>7 DEF Acquire
    <3>9. batch' \in Batch' \cup {None} /\ parked' \in Batch' \cup {None}
      BY <1>o, <3>3, <1>7 DEF Acquire, fiber
    <3> QED BY <3>1, <3>6, <3>7, <3>8, <3>9 DEF SpendTypes
  <2> QED BY <2>1, <2>2
<1>8. ASSUME NEW n \in Node, NEW o \in Outcomes, Finish(n, o) PROVE SpendTypes'
  <2>1. pool[n] \in Handler /\ pool[n].inv \in Inv
    BY <1>o, <1>i, <1>8 DEF Finish, Running, InState, Members
  <2>2. pool' = [pool EXCEPT ![n].st = o]
    BY <1>8 DEF Finish
  <2>3. [pool[n] EXCEPT !.st = o] \in Handler
    BY <2>1 DEF Handler
  <2>4. pool' \in [Node -> Handler \cup {None}]
    BY <1>o, <2>2, <2>3
  <2> QED BY <1>t, <1>o, <1>8, <2>4, SpendStep DEF Finish, log, fiber
<1>9. ASSUME NEW n \in Node, SettleLands(n) PROVE SpendTypes'
  <2>1. PICK breach \in {-1, 2, 3}, T \in SUBSET Node, rank \in {-1, 1} : LandsAs(n, breach, T, rank)
    BY <1>9, LandsUnfolds
  <2>2. [inv |-> 0, st |-> "wait"] \in Handler
    BY DEF Handler
  <2>3. pool' \in [Node -> Handler \cup {None}]
    BY <1>o, <2>1, <2>2 DEF LandsAs, PoolAfter
  <2>4. batch' \in Batch \cup {None}
    BY <1>o, <2>1 DEF LandsAs, Batch
  <2>5. counted' = Count({pool[n].inv}) /\ UNCHANGED <<lost, parked, ninv>>
    BY <1>9 DEF SettleLands
  <2> QED BY <1>t, <1>o, <2>3, <2>4, <2>5, CountType, SpendStep
<1>10. ASSUME NEW n \in Node, SettleHalts(n) PROVE SpendTypes'
  <2>1. batch' \in Batch
    BY <1>i, <1>10 DEF SettleHalts, Batch
  <2>2. pool' \in [Node -> Handler \cup {None}]
    BY <1>o, <1>10 DEF SettleHalts
  <2> QED BY <1>t, <1>o, <1>10, <2>1, <2>2, SpendStep DEF SettleHalts, log, fiber
<1>11. ASSUME NEW n \in Node, SettleConflicts(n) PROVE SpendTypes'
  <2>1. pool[n].inv \in Inv /\ ninv' = ninv
    BY <1>i, <1>11 DEF SettleConflicts
  <2>2. CASE conflicts + 1 < OccCeiling
    <3>1. batch' \in Batch
      BY <1>11, <2>1, <2>2 DEF SettleConflicts, Batch
    <3>2. pool' \in [Node -> Handler \cup {None}]
      BY <1>o, <1>11, <2>2 DEF SettleConflicts
    <3> QED BY <1>t, <1>o, <1>11, <2>1, <2>2, <3>1, <3>2, SpendStep DEF SettleConflicts
  <2>3. CASE ~(conflicts + 1 < OccCeiling)
    <3>1. \/ counted' = Count({pool[n].inv}) /\ Lose(Spending \ {pool[n].inv}, "drained")
          \/ counted' = counted /\ Lose(Spending, "abandoned")
      BY <1>11, <2>3 DEF SettleConflicts
    <3>2. counted' \in [Inv -> Nat]
      BY <1>t, <1>o, <3>1, CountType
    <3>3. Spending \ {pool[n].inv} \in SUBSET Inv
      BY <1>i
    <3>4. lost' \in SUBSET [inv : Inv, why : {"crash", "thrown", "drained", "abandoned", "dropped"}]
      BY <1>t, <1>i, <3>1, <3>3, LoseType
    <3>5. pool' = EmptyPool /\ batch' = None /\ parked' = None
      BY <1>11, <2>3 DEF SettleConflicts
    <3> QED BY <1>t, <1>e, <2>1, <3>2, <3>4, <3>5, SpendStep
  <2> QED BY <2>2, <2>3
<1>12. ASSUME NEW n \in Node, SettleThrows(n) PROVE SpendTypes'
  <2>1. counted' \in [Inv -> Nat]
    BY <1>t, <1>12, CountType DEF SettleThrows
  <2>2. Spending \ {pool[n].inv} \in SUBSET Inv
    BY <1>i
  <2>3. lost' \in SUBSET [inv : Inv, why : {"crash", "thrown", "drained", "abandoned", "dropped"}]
    BY <1>t, <1>12, <2>2, LoseType DEF SettleThrows
  <2> QED BY <1>t, <1>e, <1>12, <2>1, <2>3, SpendStep DEF SettleThrows, FiberEnds
<1>13. CASE Drain
  <2>1. counted' \in [Inv -> Nat]
    BY <1>t, <1>o, <1>13, CountType DEF Drain
  <2>2. Lose(Spending, "drained") \/ Lose(Spending \cup SpendOf(batch), "drained")
    BY <1>13 DEF Drain, SpendOf, PhaseInv
  <2>3. Spending \cup SpendOf(batch) \in SUBSET Inv
    BY <1>i
  <2>4. lost' \in SUBSET [inv : Inv, why : {"crash", "thrown", "drained", "abandoned", "dropped"}]
    BY <1>t, <1>i, <2>2, <2>3, LoseType
  <2> QED BY <1>t, <1>o, <1>e, <1>13, <2>1, <2>4, SpendStep DEF Drain, fiber
<1>14. CASE Bail
  <2>1. batch \in Batch
    BY <1>o, <1>14 DEF Bail, PhaseInv
  <2>2. batch' = [batch EXCEPT !.spend = batch.spend \cup Spending]
    BY <1>14 DEF Bail
  <2>3. batch' \in Batch
    BY <1>i, <2>1, <2>2 DEF Batch
  <2> QED BY <1>t, <1>o, <1>e, <1>14, <2>3, SpendStep DEF Bail, log, fiber
<1>15. CASE PoolEmpty
  <2>1. batch' \in Batch \cup {None}
    <3>1. disp \in -1 .. 3
      BY DEF TypeOK
    <3> QED BY <1>o, <1>15, <3>1 DEF PoolEmpty, Batch
  <2> QED BY <1>t, <1>o, <1>15, <2>1, SpendStep DEF PoolEmpty, log, fiber
<1>16. CASE Recommit
  BY <1>t, <1>o, <1>16, SpendStep DEF Recommit, log, fiber
<1>17. CASE CommitLands
  BY <1>t, <1>o, <1>17, CountType, SpendStep DEF CommitLands
<1>18. CASE CommitConflicts
  <2>1. batch \in Batch
    BY <1>o, <1>18 DEF CommitConflicts, PhaseInv
  <2>2. lost' = lost \/ Lose(SpendOf(batch), "abandoned")
    BY <1>18, <2>1 DEF CommitConflicts, PhaseInv, SpendOf
  <2>3. lost' \in SUBSET [inv : Inv, why : {"crash", "thrown", "drained", "abandoned", "dropped"}]
    BY <1>t, <1>o, <1>i, <2>2, LoseType
  <2>4. counted' \in [Inv -> Nat]
    BY <1>t, <1>o, <1>18, CountType DEF CommitConflicts
  <2> QED BY <1>t, <1>o, <1>18, <2>3, <2>4, SpendStep DEF CommitConflicts
<1> QED BY <1>1, <1>2, <1>3, <1>4, <1>5, <1>6, <1>7, <1>8, <1>9, <1>10, <1>11, <1>12, <1>13,
          <1>14, <1>15, <1>16, <1>17, <1>18 DEF Next, Progress, Handlers, Trouble, Ended

LEMMA NextTypeOK == RegionAssumption /\ TypeOK /\ PhaseInv /\ [Next]_vars => TypeOK'
BY NextPlainTypes, NextSpendTypes, TypeParts, PTL

-----------------------------------------------------------------------------
(* Phases.                                                                  *)

\* A pool without members is the empty pool.
LEMMA NoMembers == ASSUME SpendTypes, Members = {} PROVE pool = EmptyPool
BY DEF SpendTypes, Members, EmptyPool

\* A batch carries a spend and a rank; None does not count as one.
LEMMA BatchHeld == ASSUME RegionAssumption, SpendTypes, batch # None PROVE batch \in Batch
BY DEF SpendTypes

LEMMA NextPhaseInv == RegionAssumption /\ TypeOK /\ PhaseInv /\ [Next]_vars => PhaseInv'
<1> SUFFICES ASSUME RegionAssumption, TypeOK, PhaseInv, [Next]_vars PROVE PhaseInv'
  OBVIOUS
<1>t. PlainTypes /\ SpendTypes
  BY TypeParts
<1>n. /\ \A S \in SUBSET Inv, r \in -1 .. 3 : [spend |-> S, rank |-> r] # None
      /\ \A b \in Batch : b # None
  BY <1>t, NoneApart DEF Batch, SpendTypes
<1>0. EmptyPool' = EmptyPool
  BY DEF EmptyPool
<1>m. \A n \in Members : pool # EmptyPool
  BY DEF Members, EmptyPool
<1>1. CASE Claim \/ Raise \/ Wake \/ UNCHANGED vars
  BY <1>0, <1>1 DEF PhaseInv, Claim, Raise, Wake, vars, log, step, fiber
<1>2. CASE SeedFrontier
  <2>1. Entries # None
    <3>1. \A p \in Paths : Head(p) = p[1] /\ 1 \in DOMAIN p
      BY DEF RegionAssumption
    <3>2. Entries \in SUBSET Node
      BY <3>1 DEF Entries, Node, Range
    <3> QED BY <3>2 DEF RegionAssumption
  <2> QED BY <1>0, <1>2, <2>1 DEF PhaseInv, SeedFrontier, Enter, Fresh, step, fiber
<1>3. CASE AdvanceJoin \/ JoinPause
  BY <1>0, <1>3 DEF PhaseInv, AdvanceJoin, JoinPause, Enter, Fresh
<1>4. CASE EnterConflict
  BY <1>0, <1>4 DEF PhaseInv, EnterConflict, Conflicted, Enter, Fresh
<1>5. CASE OperatorPause \/ Crash
  BY <1>0, <1>5 DEF PhaseInv, OperatorPause, Crash, FiberEnds
<1>6. CASE JoinBreach
  <2>1. batch' # None
    BY <1>n, <1>6 DEF JoinBreach
  <2> QED BY <1>0, <1>6, <2>1 DEF PhaseInv, JoinBreach, Enter, Fresh, log, fiber
<1>7. CASE EnterPool
  <2>1. frontier # None
    BY <1>7 DEF EnterPool, Live
  <2>2. /\ pc = "idle" /\ pc' = "pool" /\ parked = None
        /\ UNCHANGED <<status, cur, frontier, batch, parked>>
    BY <1>7 DEF EnterPool, Enter, Fresh
  <2> QED BY <2>1, <2>2 DEF PhaseInv
<1>8. ASSUME NEW n \in Node, Acquire(n) \/ \E o \in Outcomes : Finish(n, o) PROVE PhaseInv'
  <2>1. n \in Members
    BY <1>8 DEF Acquire, Finish, Waiting, Running, InState
  <2>2. UNCHANGED <<status, cur, frontier, pc, batch, parked>>
    BY <1>8 DEF Acquire, Finish, log, fiber
  <2>3. pc \notin {"off", "idle", "commit"}
    BY <1>m, <2>1 DEF PhaseInv
  <2> QED BY <2>2, <2>3 DEF PhaseInv
<1>9. ASSUME NEW n \in Node, SettleLands(n) PROVE PhaseInv'
  <2>1. PICK breach \in {-1, 2, 3}, T \in SUBSET Node, rank \in {-1, 1} : LandsAs(n, breach, T, rank)
    BY <1>9, LandsUnfolds
  <2>2. pc = "pool" /\ UNCHANGED <<status, cur, parked>>
    BY <1>9 DEF SettleLands
  <2>3. \/ pc' = "bail" /\ batch' = [spend |-> {}, rank |-> 3]
        \/ UNCHANGED <<pc, batch>>
    BY <2>1 DEF LandsAs
  <2>4. frontier' # None
    <3>1. frontier \in SUBSET Node
      BY <1>t, <2>2 DEF PlainTypes, PhaseInv
    <3>2. SuccessorOf(n, pool[n].st) \in Node \cup {None}
      BY SuccessorType
    <3>3. frontier' \in SUBSET Node
      BY <1>9, <3>1, <3>2 DEF SettleLands, FrontierAfter
    <3> QED BY <3>3 DEF RegionAssumption
  <2>5. [spend |-> {}, rank |-> 3] # None
    BY <1>n
  <2> QED BY <2>2, <2>3, <2>4, <2>5 DEF PhaseInv
<1>10. ASSUME NEW n \in Node, SettleHalts(n) PROVE PhaseInv'
  <2>1. pool[n].inv \in Inv
    BY <1>t, <1>10, SpendingStarted DEF SettleHalts
  <2>2. batch' # None /\ batch'.rank = 3
    BY <1>n, <1>10, <2>1 DEF SettleHalts
  <2> QED BY <1>10, <2>2 DEF PhaseInv, SettleHalts, log, fiber
<1>11. ASSUME NEW n \in Node, SettleConflicts(n) PROVE PhaseInv'
  <2>1. CASE conflicts + 1 < OccCeiling
    <3>1. pool[n].inv \in Inv
      BY <1>t, <1>11, SpendingStarted DEF SettleConflicts
    <3>2. batch' # None
      BY <1>n, <1>11, <2>1, <3>1 DEF SettleConflicts
    <3> QED BY <1>11, <2>1, <3>2 DEF PhaseInv, SettleConflicts
  <2>2. CASE ~(conflicts + 1 < OccCeiling)
    BY <1>0, <1>11, <2>2 DEF PhaseInv, SettleConflicts
  <2> QED BY <2>1, <2>2
<1>12. ASSUME NEW n \in Node, SettleThrows(n) PROVE PhaseInv'
  BY <1>0, <1>12 DEF PhaseInv, SettleThrows, FiberEnds
<1>13. CASE Drain
  BY <1>0, <1>13 DEF PhaseInv, Drain, fiber
<1>14. CASE Bail
  <2>1. batch \in Batch
    BY <1>t, <1>14, BatchHeld DEF Bail, PhaseInv
  <2>2. batch' = [batch EXCEPT !.spend = batch.spend \cup Spending] /\ Spending \in SUBSET Inv
    BY <1>t, <1>14, SpendingStarted DEF Bail
  <2>3. batch' \in Batch
    BY <2>1, <2>2 DEF Batch
  <2> QED BY <1>0, <1>n, <1>14, <2>3 DEF PhaseInv, Bail, log, fiber
<1>15. CASE PoolEmpty
  <2>1. pool' = EmptyPool
    BY <1>t, <1>15, NoMembers DEF PoolEmpty
  <2>2. \/ pc' = "idle" /\ batch' = batch
        \/ pc' = "commit" /\ \E r \in 0 .. 3 : batch' = [spend |-> {}, rank |-> r]
    <3>1. disp \in -1 .. 3
      BY <1>t DEF PlainTypes
    <3> QED BY <1>15, <3>1 DEF PoolEmpty
  <2>3. pc' = "commit" => batch' # None
    BY <1>n, <2>2
  <2> QED BY <1>0, <1>15, <2>1, <2>2, <2>3 DEF PhaseInv, PoolEmpty, log, fiber
<1>16. CASE Recommit
  BY <1>0, <1>16 DEF PhaseInv, Recommit, Enter, Fresh, log, fiber
<1>17. CASE CommitLands \/ CommitConflicts
  BY <1>0, <1>17 DEF PhaseInv, CommitLands, CommitConflicts
<1> QED BY <1>1, <1>2, <1>3, <1>4, <1>5, <1>6, <1>7, <1>8, <1>9, <1>10, <1>11, <1>12, <1>13,
          <1>14, <1>15, <1>16, <1>17 DEF Next, Progress, Handlers, Trouble, Ended

-----------------------------------------------------------------------------
(* One token per branch.                                                    *)

\* the token of p stands before its i-th node: what is before i is done, and nothing after it
AtPlace(p, i) ==
    \A j \in DOMAIN p : (p[j] \in done <=> j < i) /\ (p[j] \in frontier <=> j = i)

StrayedOff(p) == Strayed(p) /\ \A j \in DOMAIN p : p[j] \notin frontier

TokenInv ==
    /\ frontier # None => \A p \in Paths : StrayedOff(p) \/ \E i \in 1 .. Len(p) + 1 : AtPlace(p, i)
    /\ frontier = None /\ cur = "fan" => done = {}
    /\ cur = "join" => \A p \in Paths : Strayed(p) \/ Range(p) \subseteq done
    /\ pc = "pool" => Members \subseteq frontier

\* A step that moves no token keeps them, whatever it does to the pool.
LEMMA TokenKept ==
    ASSUME TokenInv, UNCHANGED <<frontier, done, cur>>,
           \A n \in Node : last[n] = "completed" => last'[n] = "completed",
           pc' = "pool" => Members' \subseteq frontier
    PROVE  TokenInv'
<1>1. ASSUME NEW p \in Paths, Strayed(p) PROVE Strayed(p)'
  BY <1>1 DEF Strayed, Node
<1>2. ASSUME NEW p \in Paths, StrayedOff(p) PROVE StrayedOff(p)'
  BY <1>1, <1>2 DEF StrayedOff
<1>3. ASSUME NEW p \in Paths, NEW i, AtPlace(p, i) PROVE AtPlace(p, i)'
  BY <1>3 DEF AtPlace
<1>4. frontier' # None => \A p \in Paths : StrayedOff(p)' \/ \E i \in 1 .. Len(p) + 1 : AtPlace(p, i)'
  BY <1>2, <1>3 DEF TokenInv
<1>5. cur' = "join" => \A p \in Paths : Strayed(p)' \/ Range(p) \subseteq done'
  BY <1>1 DEF TokenInv
<1> QED BY <1>4, <1>5 DEF TokenInv

\* A branch the step does not touch keeps its token.
LEMMA BranchKept ==
    ASSUME NEW p \in Paths,
           \A j \in DOMAIN p : last'[p[j]] = last[p[j]],
           \A j \in DOMAIN p : p[j] \in done' <=> p[j] \in done,
           \A j \in DOMAIN p : p[j] \in frontier' <=> p[j] \in frontier,
           StrayedOff(p) \/ \E i \in 1 .. Len(p) + 1 : AtPlace(p, i)
    PROVE  StrayedOff(p)' \/ \E i \in 1 .. Len(p) + 1 : AtPlace(p, i)'
<1>1. CASE StrayedOff(p)
  <2>1. PICK n \in Range(p) : last[n] = "completed" /\ n \notin done
    BY <1>1 DEF StrayedOff, Strayed
  <2>2. PICK j \in DOMAIN p : n = p[j]
    BY DEF Range
  <2>3. last'[n] = "completed" /\ n \notin done'
    BY <2>1, <2>2
  <2>4. Strayed(p)'
    BY <2>3 DEF Strayed
  <2> QED BY <1>1, <2>4 DEF StrayedOff
<1>2. CASE \E i \in 1 .. Len(p) + 1 : AtPlace(p, i)
  <2>1. PICK i \in 1 .. Len(p) + 1 : AtPlace(p, i)
    BY <1>2
  <2>2. AtPlace(p, i)'
    BY <2>1 DEF AtPlace
  <2> QED BY <2>2
<1> QED BY <1>1, <1>2

\* A landing moves the token of its own branch, and no other.
LEMMA LandingMovesOne ==
    ASSUME RegionAssumption, TypeOK, PhaseInv, TokenInv, NEW n \in Node, SettleLands(n)
    PROVE  /\ \A p \in Paths : StrayedOff(p)' \/ \E i \in 1 .. Len(p) + 1 : AtPlace(p, i)'
           /\ \A m \in frontier : m # n => m \in frontier'
           /\ Landing(n) \in Finished /\ Follows(n) # None => Follows(n) \in frontier'
           /\ Landing(n) \in Finished => Follows(n) = n \/ Follows(n) \notin frontier
<1> DEFINE o == Landing(n)
           s == Follows(n)
<1>1. /\ n \in Settled /\ pc = "pool" /\ o \in Outcomes
      /\ frontier' = IF o \in Finished THEN (frontier \ {n}) \cup (IF s = None THEN {} ELSE {s}) ELSE frontier
      /\ last' = [m \in Node |-> IF m = s THEN "started" ELSE IF m # n THEN last[m]
                                 ELSE IF o \in Finished THEN "completed" ELSE "aborted"]
      /\ done' = IF o = "ok" THEN done \cup {n} ELSE done
  BY Zenon DEF SettleLands, Landing, Follows, FrontierAfter, LastAfter, Settled, InState
<1>2. frontier # None /\ frontier \in SUBSET Node /\ n \in frontier
  BY <1>1 DEF PhaseInv, TypeOK, TokenInv, Settled, InState
<1>a. PICK p \in Paths : \E k \in DOMAIN p : n = p[k]
  BY NodeInBranch
<1>3. PICK k \in DOMAIN p : n = p[k]
  BY <1>a
<1>4. s = IF o \in {"again", "held"} THEN n ELSE IF o = "ok" /\ k < Len(p) THEN p[k + 1] ELSE None
  BY <1>3, SuccessorFacts DEF Follows
<1>5. p \in Seq(Node) /\ DOMAIN p = 1 .. Len(p) /\ Len(p) \in Nat
  BY DEF RegionAssumption
<1>6. \A q \in Paths : \A i \in DOMAIN p, j \in DOMAIN q : p[i] = q[j] => p = q /\ i = j
  BY DEF RegionAssumption
<1>7. None \notin Node /\ \A q \in Paths : \A j \in DOMAIN q : q[j] \in Node
  BY DEF RegionAssumption, Node, Range
<1>8. AtPlace(p, k)
  <2>1. ~StrayedOff(p)
    BY <1>2, <1>3 DEF StrayedOff
  <2>2. PICK i \in 1 .. Len(p) + 1 : AtPlace(p, i)
    BY <1>2, <2>1 DEF TokenInv
  <2>3. k = i
    BY <1>2, <1>3, <2>2 DEF AtPlace
  <2> QED BY <2>2, <2>3
<1>9. s \in {None, n} \/ (k + 1 \in DOMAIN p /\ s = p[k + 1] /\ s \notin frontier)
  <2>1. k < Len(p) => k + 1 \in DOMAIN p /\ p[k + 1] \notin frontier
    BY <1>5, <1>8 DEF AtPlace
  <2> QED BY <1>4, <2>1
<1>10. ASSUME NEW q \in Paths, q # p
       PROVE  StrayedOff(q)' \/ \E i \in 1 .. Len(q) + 1 : AtPlace(q, i)'
  <2>1. \A j \in DOMAIN q : q[j] # n /\ q[j] # s /\ q[j] \in Node
    BY <1>3, <1>6, <1>7, <1>9, <1>10
  <2>2. \A j \in DOMAIN q : /\ last'[q[j]] = last[q[j]]
                            /\ (q[j] \in done' <=> q[j] \in done)
                            /\ (q[j] \in frontier' <=> q[j] \in frontier)
    BY <1>1, <2>1
  <2>3. StrayedOff(q) \/ \E i \in 1 .. Len(q) + 1 : AtPlace(q, i)
    BY <1>2 DEF TokenInv
  <2> QED BY <2>2, <2>3, BranchKept
<1>11. StrayedOff(p)' \/ \E i \in 1 .. Len(p) + 1 : AtPlace(p, i)'
  <2>a. \A j \in DOMAIN p : p[j] = n <=> j = k
    BY <1>3, <1>6
  <2>1. CASE o = "ok"
    <3>1. \A j \in DOMAIN p : p[j] \in done' <=> j < k + 1
      BY <1>1, <1>5, <1>8, <2>a, <2>1 DEF AtPlace
    <3>2. \A j \in DOMAIN p : p[j] \in frontier' <=> j = k + 1
      <4>1. \A j \in DOMAIN p : p[j] \in frontier \ {n} <=> FALSE
        BY <1>8, <2>a DEF AtPlace
      <4>2. \A j \in DOMAIN p : (s # None /\ p[j] = s) <=> j = k + 1
        <5>1. CASE k < Len(p)
          BY <1>4, <1>5, <1>6, <1>7, <2>1, <5>1
        <5>2. CASE ~(k < Len(p))
          BY <1>4, <1>5, <2>1, <5>2
        <5> QED BY <5>1, <5>2
      <4> QED BY <1>1, <2>1, <4>1, <4>2 DEF Finished
    <3>3. k + 1 \in 1 .. Len(p) + 1
      BY <1>5
    <3> QED BY <3>1, <3>2, <3>3 DEF AtPlace
  <2>2. CASE o \in {"again", "held"}
    <3>1. s = n /\ n # None
      BY <1>4, <1>7, <2>2
    <3>2. frontier' = frontier /\ done' = done
      BY <1>1, <1>2, <2>2, <3>1 DEF Finished
    <3>3. k \in 1 .. Len(p) + 1
      BY <1>5
    <3> QED BY <1>8, <3>2, <3>3 DEF AtPlace
  <2>3. CASE o = "stray"
    <3>1. s = None /\ n # None
      BY <1>4, <1>7, <2>3
    <3>2. frontier' = frontier \ {n} /\ done' = done /\ last'[n] = "completed"
      BY <1>1, <1>7, <2>3, <3>1 DEF Finished
    <3>3. n \in Range(p) /\ n \notin done'
      <4>1. k < k <=> FALSE
        BY <1>5
      <4>2. n \notin done
        BY <1>3, <1>8, <4>1 DEF AtPlace
      <4> QED BY <1>3, <3>2, <4>2 DEF Range
    <3>4. \A j \in DOMAIN p : p[j] \notin frontier'
      BY <1>8, <2>a, <3>2 DEF AtPlace
    <3> QED BY <3>2, <3>3, <3>4 DEF StrayedOff, Strayed
  <2>4. CASE o \notin Finished
    <3>1. frontier' = frontier /\ done' = done
      BY <1>1, <2>4 DEF Finished
    <3>2. k \in 1 .. Len(p) + 1
      BY <1>5
    <3> QED BY <1>8, <3>1, <3>2 DEF AtPlace
  <2> QED BY <2>1, <2>2, <2>3, <2>4 DEF Finished
<1>12. \A m \in frontier : m # n => m \in frontier'
  BY <1>1
<1>13. (o \in Finished /\ s # None => s \in frontier') /\ (o \in Finished => s = n \/ s \notin frontier)
  BY <1>1, <1>2, <1>7, <1>9
<1> HIDE DEF o, s
<1>14. \A q \in Paths : StrayedOff(q)' \/ \E i \in 1 .. Len(q) + 1 : AtPlace(q, i)'
  BY <1>10, <1>11
<1> QED BY <1>12, <1>13, <1>14 DEF o, s

LEMMA NextTokenInv ==
    RegionAssumption /\ TypeOK /\ PhaseInv /\ TokenInv /\ [Next]_vars => TokenInv'
<1> SUFFICES ASSUME RegionAssumption, TypeOK, PhaseInv, TokenInv, [Next]_vars PROVE TokenInv'
  OBVIOUS
<1>t. /\ pool \in [Node -> Handler \cup {None}] /\ last \in [Node -> {"none", "started", "aborted", "completed"}]
      /\ frontier \in (SUBSET Node) \cup {None}
  BY DEF TypeOK
<1>1. CASE Claim \/ Raise \/ OperatorPause \/ Wake \/ Crash \/ JoinBreach \/ JoinPause \/ UNCHANGED vars
  <2>1. UNCHANGED <<frontier, done, cur, last>>
    BY <1>1 DEF Claim, Raise, OperatorPause, Wake, Crash, JoinBreach, JoinPause, vars, log
  <2>2. pc' = "pool" => Members' \subseteq frontier
    BY <1>1 DEF Claim, Raise, OperatorPause, Wake, Crash, JoinBreach, JoinPause, FiberEnds, vars, step,
                TokenInv, Members
  <2> QED BY <2>1, <2>2, TokenKept
<1>2. CASE EnterConflict \/ Drain \/ Bail \/ PoolEmpty \/ Recommit \/ CommitLands \/ CommitConflicts
  <2>1. UNCHANGED <<frontier, done, cur, last>>
    BY <1>2 DEF EnterConflict, Conflicted, Drain, Bail, PoolEmpty, Recommit, CommitLands, CommitConflicts, log
  <2>2. pc' # "pool"
    BY <1>2 DEF EnterConflict, Conflicted, Drain, Bail, PoolEmpty, Recommit, CommitLands, CommitConflicts
  <2> QED BY <2>1, <2>2, TokenKept
<1>3. CASE SeedFrontier
  <2>1. frontier = None /\ cur = "fan" /\ done = {} /\ frontier' = Entries /\ pc' = "idle"
        /\ UNCHANGED <<last, done, cur>>
    BY <1>3 DEF SeedFrontier, Enter, TokenInv, step
  <2>2. ASSUME NEW p \in Paths PROVE AtPlace(p, 1)' /\ 1 \in 1 .. Len(p) + 1
    <3>1. /\ \A q \in Paths : DOMAIN q = 1 .. Len(q) /\ Len(q) \in Nat /\ 1 \in DOMAIN q /\ Head(q) = q[1]
          /\ \A i \in DOMAIN p : \A q \in Paths : \A j \in DOMAIN q : p[i] = q[j] => p = q /\ i = j
      BY DEF RegionAssumption
    <3>2. \A j \in DOMAIN p : p[j] \in Entries <=> j = 1
      BY <3>1 DEF Entries
    <3>3. \A j \in DOMAIN p : ~(j < 1)
      BY <3>1
    <3> QED BY <2>1, <3>1, <3>2, <3>3 DEF AtPlace
  <2>3. frontier' # None
    <3>1. \A p \in Paths : Head(p) = p[1] /\ 1 \in DOMAIN p
      BY DEF RegionAssumption
    <3>2. Entries \in SUBSET Node
      BY <3>1 DEF Entries, Node, Range
    <3> QED BY <2>1, <3>2 DEF RegionAssumption
  <2> QED BY <2>1, <2>2, <2>3 DEF TokenInv
<1>4. CASE AdvanceJoin
  <2>1. frontier = {} /\ frontier' = None /\ cur' = "join" /\ pc' = "off" /\ UNCHANGED <<done, last>>
    BY <1>4 DEF AdvanceJoin
  <2>2. frontier # None
    BY <2>1 DEF RegionAssumption
  <2>3. ASSUME NEW p \in Paths, ~Strayed(p) PROVE Range(p) \subseteq done
    <3>1. PICK i \in 1 .. Len(p) + 1 : AtPlace(p, i)
      BY <2>2, <2>3 DEF TokenInv, StrayedOff
    <3>2. DOMAIN p = 1 .. Len(p) /\ Len(p) \in Nat
      BY DEF RegionAssumption
    <3>3. \A j \in DOMAIN p : j < i
      BY <2>1, <3>1, <3>2 DEF AtPlace
    <3> QED BY <3>1, <3>3 DEF AtPlace, Range
  <2>4. \A p \in Paths : Strayed(p)' <=> Strayed(p)
    BY <2>1 DEF Strayed
  <2> QED BY <2>1, <2>3, <2>4 DEF TokenInv
<1>5. CASE EnterPool
  <2>1. /\ UNCHANGED <<frontier, done, cur>>
        /\ last' = [n \in Node |-> IF n \in Aborted THEN "started" ELSE last[n]]
    BY <1>5 DEF EnterPool
  <2>2. \A n \in Node : last[n] = "completed" => last'[n] = "completed"
    BY <2>1 DEF Aborted
  <2>3. PICK T \in SUBSET frontier :
           pool' = [n \in Node |-> IF n \in T THEN [inv |-> 0, st |-> "wait"] ELSE None]
    BY <1>5, EnterUnfolds
  <2>4. Members' \subseteq frontier
    BY <2>3 DEF Members
  <2> QED BY <2>1, <2>2, <2>4, TokenKept
<1>6. ASSUME NEW n \in Node, Acquire(n) \/ \E o \in Outcomes : Finish(n, o) PROVE TokenInv'
  <2>1. UNCHANGED <<frontier, done, cur, last, pc>>
    BY <1>6 DEF Acquire, Finish, log
  <2>2. n \in Members /\ \A m \in Node : m # n => pool'[m] = pool[m]
    BY <1>t, <1>6 DEF Acquire, Finish, Waiting, Running, InState
  <2>3. Members' \subseteq Members
    BY <2>2 DEF Members
  <2> QED BY <2>1, <2>3, TokenKept DEF TokenInv
<1>7. ASSUME NEW n \in Node, SettleHalts(n) \/ SettleConflicts(n) \/ SettleThrows(n) PROVE TokenInv'
  <2>1. UNCHANGED <<frontier, done, cur, last>>
    BY <1>7 DEF SettleHalts, SettleConflicts, SettleThrows, log
  <2>2. pc' # "pool"
    BY <1>7 DEF SettleHalts, SettleConflicts, SettleThrows, FiberEnds
  <2> QED BY <2>1, <2>2, TokenKept
<1>8. ASSUME NEW n \in Node, SettleLands(n) PROVE TokenInv'
  <2>1. PICK breach \in {-1, 2, 3}, T \in SUBSET Node, rank \in {-1, 1} : LandsAs(n, breach, T, rank)
    BY <1>8, LandsUnfolds
  <2>2. pc = "pool" /\ UNCHANGED cur /\ frontier # None /\ Members \subseteq frontier /\ cur # "join"
    BY <1>8 DEF SettleLands, PhaseInv, TokenInv
  <2>4. Members' \subseteq Members \cup T
    BY <2>1 DEF LandsAs, PoolAfter, Members
  <2>5. \A m \in Members' : m # n \/ m \in T
    BY <2>1 DEF LandsAs, PoolAfter, Members
  <2>6. T \subseteq frontier'
    BY <1>8, <2>1, LandingMovesOne DEF LandsAs
  <2>7. Members' \subseteq frontier'
    BY <1>8, <2>2, <2>4, <2>5, <2>6, LandingMovesOne
  <2>8. \A p \in Paths : StrayedOff(p)' \/ \E i \in 1 .. Len(p) + 1 : AtPlace(p, i)'
    BY <1>8, LandingMovesOne
  <2>9. frontier' # None
    <3>1. frontier' \in SUBSET Node
      BY <1>8, <1>t, <2>2, SuccessorType DEF SettleLands, FrontierAfter
    <3> QED BY <3>1 DEF RegionAssumption
  <2> QED BY <2>2, <2>7, <2>8, <2>9 DEF TokenInv
<1> QED BY <1>1, <1>2, <1>3, <1>4, <1>5, <1>6, <1>7, <1>8
     DEF Next, Progress, Handlers, Trouble, Ended

-----------------------------------------------------------------------------
(* No disposition behind a weaker one.                                      *)

\* What the branches have reported so far is never above what the superstep will commit:
\* the slot while the pool is open, the batch once it is built, the batch that is parked.
NotedInv ==
    /\ pc = "pool" => \A r \in noted : r <= disp
    /\ pc = "commit" => \A r \in noted : r <= batch.rank
    /\ parked # None => \A r \in noted : r <= parked.rank

LEMMA NextNotedInv ==
    RegionAssumption /\ TypeOK /\ PhaseInv /\ NotedInv /\ [Next]_vars => NotedInv'
<1> SUFFICES ASSUME RegionAssumption, TypeOK, PhaseInv, NotedInv, [Next]_vars PROVE NotedInv'
  OBVIOUS
<1>t. /\ disp \in -1 .. 3 /\ noted \in SUBSET (0 .. 3) /\ noted \in SUBSET Int
      /\ TypeOK' /\ PhaseInv'
  BY NextTypeOK, NextPhaseInv DEF TypeOK
<1>1. CASE Claim \/ OperatorPause \/ Crash
  BY <1>1 DEF NotedInv, Claim, OperatorPause, Crash, FiberEnds
<1>2. CASE Raise \/ Wake \/ SeedFrontier \/ UNCHANGED vars
  BY <1>2 DEF NotedInv, Raise, Wake, SeedFrontier, vars, step, fiber
<1>3. CASE AdvanceJoin \/ JoinPause \/ EnterConflict
  BY <1>3 DEF NotedInv, AdvanceJoin, JoinPause, EnterConflict, Conflicted, Enter, Fresh
<1>4. CASE JoinBreach
  <2>1. /\ pc' = "commit" /\ parked' = None /\ noted' = {batch'.rank} /\ batch'.rank \in {2, 3}
    BY <1>4 DEF JoinBreach, Fresh, fiber
  <2> QED BY <2>1 DEF NotedInv
<1>5. CASE EnterPool
  <2>1. PICK rank \in {-1, 1} : disp' = rank /\ noted' = {rank} \ {-1}
    BY <1>5, EnterUnfolds
  <2>2. pc' = "pool" /\ parked' = None
    BY <1>5 DEF EnterPool, Fresh
  <2> QED BY <2>1, <2>2 DEF NotedInv
<1>6. ASSUME NEW n \in Node, Acquire(n) \/ \E o \in Outcomes : Finish(n, o) PROVE NotedInv'
  BY <1>6 DEF NotedInv, Acquire, Finish, fiber
<1>7. ASSUME NEW n \in Node, SettleLands(n) PROVE NotedInv'
  <2>1. PICK breach \in {-1, 2, 3}, T \in SUBSET Node, rank \in {-1, 1} : LandsAs(n, breach, T, rank)
    BY <1>7, LandsUnfolds
  <2>2. pc = "pool" /\ parked' = None /\ Landing(n) \in Outcomes
    BY <1>7 DEF SettleLands, PhaseInv, Settled, InState, Landing
  <2> DEFINE a == Rank(Landing(n))
             slot == SlotAfter(n, breach)
  <2>3. a \in -1 .. 3
    BY <2>2, RankType
  <2>4. NoteDisposition(disp, a) \in -1 .. 3 /\ NoteDisposition(disp, a) >= disp /\ NoteDisposition(disp, a) >= a
    BY <1>t, <2>3, RankType
  <2>5. slot \in -1 .. 3 /\ slot >= NoteDisposition(disp, a) /\ slot >= breach
    BY <2>4, RankType DEF SlotAfter
  <2>6. disp' \in -1 .. 3 /\ disp' >= slot /\ disp' >= rank
    BY <2>1, <2>5, RankType DEF LandsAs
  <2>7. noted' \subseteq noted \cup {a, breach, rank}
    BY <2>1 DEF LandsAs
  <2>8. disp' >= disp /\ disp' >= a /\ disp' >= breach /\ disp' >= rank
    <3> HIDE DEF a, slot
    <3> QED BY <1>t, <2>3, <2>4, <2>5, <2>6
  <2>9. \A r \in noted' : r <= disp'
    <3> HIDE DEF a, slot
    <3>1. \A r \in noted : r <= disp
      BY <2>2 DEF NotedInv
    <3> QED BY <1>t, <2>3, <2>6, <2>7, <2>8, <3>1
  <2>10. pc' \in {"pool", "bail"}
    BY <2>1, <2>2 DEF LandsAs
  <2> QED BY <2>2, <2>9, <2>10 DEF NotedInv
<1>8. ASSUME NEW n \in Node, SettleHalts(n) PROVE NotedInv'
  BY <1>8 DEF NotedInv, SettleHalts, PhaseInv, fiber
<1>9. ASSUME NEW n \in Node, SettleConflicts(n) \/ SettleThrows(n) PROVE NotedInv'
  <2>1. pc' \in {"drain", "off"}
    BY <1>9 DEF SettleConflicts, SettleThrows, FiberEnds
  <2>2. parked' = None
    BY <1>t, <2>1 DEF PhaseInv
  <2> QED BY <2>1, <2>2 DEF NotedInv
<1>10. CASE Drain
  BY <1>10 DEF NotedInv, Drain, PhaseInv, fiber
<1>11. CASE Bail
  <2>1. pc' = "commit" /\ parked' = None
    BY <1>11 DEF Bail, PhaseInv, fiber
  <2>2. batch'.rank = 3
    <3>1. batch \in Batch
      BY <1>11, TypeParts, BatchHeld DEF Bail, PhaseInv
    <3> QED BY <1>11, <3>1 DEF Bail, PhaseInv, Batch
  <2>3. noted' \in SUBSET (0 .. 3)
    BY <1>t DEF TypeOK
  <2> QED BY <2>1, <2>2, <2>3 DEF NotedInv
<1>12. CASE PoolEmpty
  <2>1. parked' = None /\ pc = "pool"
    BY <1>12 DEF PoolEmpty, PhaseInv, fiber
  <2>2. CASE pc' = "commit"
    <3>1. noted' = noted \cup {batch'.rank} /\ batch'.rank \in 0 .. 3
      BY <1>t, <1>12, <2>2 DEF PoolEmpty
    <3>2. disp # -1 => batch'.rank = disp
      BY <1>12, <2>2 DEF PoolEmpty
    <3>3. disp = -1 => noted = {}
      BY <1>t, <2>1 DEF NotedInv
    <3>4. \A r \in noted : r <= batch'.rank
      BY <2>1, <3>2, <3>3 DEF NotedInv
    <3> QED BY <2>1, <2>2, <3>1, <3>4 DEF NotedInv
  <2>3. CASE pc' # "commit"
    BY <1>12, <2>1, <2>3 DEF NotedInv, PoolEmpty
  <2> QED BY <2>2, <2>3
<1>13. CASE Recommit
  BY <1>13 DEF NotedInv, Recommit, Fresh, fiber
<1>14. CASE CommitLands \/ CommitConflicts
  BY <1>14 DEF NotedInv, CommitLands, CommitConflicts
<1> QED BY <1>1, <1>2, <1>3, <1>4, <1>5, <1>6, <1>7, <1>8, <1>9, <1>10, <1>11, <1>12, <1>13,
          <1>14 DEF Next, Progress, Handlers, Trouble, Ended

-----------------------------------------------------------------------------
(* The spend of every invocation.                                           *)

\* the members that have an invocation, and the invocations whose spend is still in memory
Active   == Running \cup Settled
InFlight == Spending \cup SpendOf(batch) \cup SpendOf(parked)

\* What is in memory is not on the totals yet, no two members share an invocation, and a
\* drain never holds the same spend in the batch and in the pool.
FlightInv ==
    /\ \A i \in InFlight : counted[i] = 0
    /\ \A m, n \in Active : pool[m].inv = pool[n].inv => m = n
    /\ pc \in {"drain", "bail"} => Spending \cap SpendOf(batch) = {}

SpendInv == SpendOnce /\ SpendAccounted /\ FlightInv

\* The members that have an invocation are those that do not wait.
LEMMA ActiveMembers ==
    ASSUME SpendTypes
    PROVE  /\ Active = {n \in Node : pool[n] # None /\ pool[n].st # "wait"}
           /\ Spending = {pool[n].inv : n \in Active}
BY DEF SpendTypes, Active, Spending, InvsOf, Running, Settled, InState, Members, Handler,
       Outcomes, Finished, Exits

\* An empty pool and no batch hold no spend.
LEMMA NothingActive ==
    /\ pool = EmptyPool => Active = {} /\ Spending = {}
    /\ SpendOf(None) = {}
BY DEF EmptyPool, Active, Spending, InvsOf, Running, Settled, InState, Members, SpendOf

\* A step that puts some of the spend in flight on the totals, and drops nothing that it
\* does not record as lost, keeps every invocation settled once.
LEMMA SpendMoves ==
    ASSUME RegionAssumption, SpendTypes, SpendInv, ninv' = ninv, NEW paid \in SUBSET InFlight,
           counted' = Count(paid), InFlight' \subseteq InFlight \ paid, lost \subseteq lost',
           \A i \in InFlight \ paid : i \in InFlight' \/ \E l \in lost' : l.inv = i
    PROVE  SpendOnce' /\ SpendAccounted' /\ \A i \in InFlight' : counted'[i] = 0
<1>1. Inv' = Inv /\ InFlight \in SUBSET Inv
  BY SameInvs, SpendingStarted DEF InFlight
<1>2. \A i \in Inv : /\ counted[i] \in Nat
                     /\ counted'[i] = IF i \in paid THEN counted[i] + 1 ELSE counted[i]
  BY DEF SpendTypes, Count
<1>3. \A i \in InFlight : counted[i] = 0
  BY DEF SpendInv, FlightInv
<1>4. SpendOnce'
  BY <1>1, <1>2, <1>3 DEF SpendInv, SpendOnce
<1>5. \A i \in InFlight' : counted'[i] = 0
  BY <1>1, <1>2, <1>3
<1>6. ASSUME NEW i \in Inv PROVE counted'[i] = 1 \/ i \in InFlight' \/ \E l \in lost' : l.inv = i
  <2>1. counted[i] = 1 \/ i \in InFlight \/ \E l \in lost : l.inv = i
    BY DEF SpendInv, SpendAccounted, InFlight
  <2>2. CASE counted[i] = 1
    BY <1>2, <1>3, <2>2
  <2>3. CASE i \in paid
    BY <1>1, <1>2, <1>3, <2>3
  <2>4. CASE i \in InFlight \ paid
    BY <2>4
  <2>5. CASE \E l \in lost : l.inv = i
    BY <2>5
  <2> QED BY <2>1, <2>2, <2>3, <2>4, <2>5
<1>7. SpendAccounted'
  BY <1>1, <1>6 DEF SpendAccounted, InFlight
<1> QED BY <1>4, <1>5, <1>7

\* ... and a step that puts nothing on the totals likewise.
LEMMA SpendStays ==
    ASSUME RegionAssumption, SpendTypes, SpendInv, ninv' = ninv, counted' = counted,
           InFlight' \subseteq InFlight, lost \subseteq lost',
           \A i \in InFlight : i \in InFlight' \/ \E l \in lost' : l.inv = i
    PROVE  SpendOnce' /\ SpendAccounted' /\ \A i \in InFlight' : counted'[i] = 0
<1>1. counted' = Count({})
  BY DEF SpendTypes, Count
<1> QED BY <1>1, SpendMoves

\* Members that leave or finish do not come to share an invocation.
LEMMA MembersLeave ==
    ASSUME SpendInv, Active' \subseteq Active,
           \A n \in Active' : pool'[n].inv = pool[n].inv
    PROVE  /\ \A m, n \in Active' : pool'[m].inv = pool'[n].inv => m = n
           /\ Spending' \subseteq Spending
<1>1. Spending = {pool[n].inv : n \in Active} /\ Spending' = {pool'[n].inv : n \in Active'}
  BY DEF Spending, InvsOf, Active
<1> QED BY <1>1 DEF SpendInv, FlightInv

LEMMA NextSpendInv ==
    RegionAssumption /\ TypeOK /\ PhaseInv /\ TokenInv /\ SpendInv /\ [Next]_vars => SpendInv'
<1> SUFFICES ASSUME RegionAssumption, TypeOK, PhaseInv, TokenInv, SpendInv, [Next]_vars PROVE SpendInv'
  OBVIOUS
<1>t. PlainTypes /\ SpendTypes /\ TypeOK' /\ PhaseInv'
  BY TypeParts, NextTypeOK, NextPhaseInv
<1>p. pool \in [Node -> Handler \cup {None}] /\ pool' \in [Node -> Handler' \cup {None}]
  BY <1>t DEF TypeOK
<1>a. /\ Active = {n \in Node : pool[n] # None /\ pool[n].st # "wait"}
      /\ Spending = {pool[n].inv : n \in Active}
      /\ Spending' = {pool'[n].inv : n \in Active'}
  BY <1>t, ActiveMembers DEF Spending, InvsOf, Active
<1>b. Active' = {n \in Node : pool'[n] # None /\ pool'[n].st # "wait"}
  BY <1>p DEF Active, Running, Settled, InState, Members, Handler, Outcomes, Finished, Exits
<1>e. /\ pool = EmptyPool => Active = {} /\ Spending = {}
      /\ pool' = EmptyPool => Active' = {} /\ Spending' = {}
      /\ SpendOf(None) = {} /\ \A b : b # None => SpendOf(b) = b.spend
  BY <1>a, <1>b, NothingActive DEF EmptyPool, SpendOf
<1>f. InFlight' = Spending' \cup SpendOf(batch') \cup SpendOf(parked')
  BY DEF InFlight, SpendOf
<1>s. InFlight = Spending \cup SpendOf(batch) \cup SpendOf(parked)
  BY DEF InFlight
<1>l. ASSUME NEW X, NEW why, Lose(X, why)
      PROVE  lost \subseteq lost' /\ \A i \in X : \E l \in lost' : l.inv = i
  <2>1. lost' = lost \cup {[inv |-> i, why |-> why] : i \in X}
    BY <1>l DEF Lose
  <2>2. ASSUME NEW i \in X PROVE \E l \in lost' : l.inv = i
    <3>1. [inv |-> i, why |-> why] \in lost'
      BY <2>1
    <3> QED BY <3>1
  <2> QED BY <2>1, <2>2
<1> HIDE DEF InFlight
<1>1. CASE Claim \/ Raise \/ Wake \/ SeedFrontier \/ AdvanceJoin \/ JoinPause \/ EnterConflict \/ UNCHANGED vars
  <2>1. UNCHANGED <<ninv, counted, lost, pool, batch>>
    BY <1>1 DEF Claim, Raise, Wake, SeedFrontier, AdvanceJoin, JoinPause, EnterConflict, Conflicted,
                vars, log, step, fiber
  <2>2. parked' = parked
    BY <1>1 DEF Claim, Raise, Wake, SeedFrontier, AdvanceJoin, JoinPause, EnterConflict, Conflicted,
                vars, log, step, fiber, PhaseInv
  <2>3. pc' \in {"drain", "bail"} => pc' = pc
    BY <1>1 DEF Claim, Raise, Wake, SeedFrontier, AdvanceJoin, JoinPause, EnterConflict, Conflicted,
                vars, log, step, fiber
  <2>4. Active' = Active /\ Spending' = Spending
    BY <1>a, <1>b, <2>1
  <2>5. InFlight' = InFlight
    BY <1>f, <1>s, <2>1, <2>2, <2>4
  <2>6. SpendOnce' /\ SpendAccounted' /\ \A i \in InFlight' : counted'[i] = 0
    BY <1>t, <2>1, <2>5, SpendStays
  <2> QED BY <2>1, <2>3, <2>4, <2>6 DEF SpendInv, FlightInv
<1>2. CASE OperatorPause
  <2>1. Active' = {} /\ Spending' = {} /\ InFlight' = {} /\ InFlight = SpendOf(parked)
    BY <1>e, <1>f, <1>s, <1>2 DEF OperatorPause, FiberEnds, PhaseInv
  <2>2. ninv' = ninv /\ counted' = counted /\ Lose(InFlight, "dropped") /\ pc' = "off"
    BY <1>2, <2>1 DEF OperatorPause, FiberEnds
  <2>3. SpendOnce' /\ SpendAccounted' /\ \A i \in InFlight' : counted'[i] = 0
    BY <1>t, <1>l, <2>1, <2>2, SpendStays
  <2> QED BY <2>1, <2>2, <2>3 DEF SpendInv, FlightInv
<1>3. CASE Crash
  <2>1. Active' = {} /\ Spending' = {} /\ InFlight' = {}
    BY <1>e, <1>f, <1>3 DEF Crash, FiberEnds
  <2>2. ninv' = ninv /\ counted' = counted /\ Lose(InFlight, "crash") /\ pc' = "off"
    BY <1>3, <1>s DEF Crash, FiberEnds
  <2>3. SpendOnce' /\ SpendAccounted' /\ \A i \in InFlight' : counted'[i] = 0
    BY <1>t, <1>l, <2>1, <2>2, SpendStays
  <2> QED BY <2>1, <2>2, <2>3 DEF SpendInv, FlightInv
<1>4. CASE JoinBreach \/ EnterPool
  <2>1. pc = "idle" /\ Active = {} /\ InFlight = {}
    BY <1>e, <1>s, <1>4 DEF JoinBreach, EnterPool, Enter, Fresh, PhaseInv
  <2>2. Active' = {}
    <3>1. CASE JoinBreach
      BY <1>a, <1>b, <2>1, <3>1 DEF JoinBreach
    <3>2. CASE EnterPool
      <4>1. PICK T \in SUBSET frontier :
               pool' = [n \in Node |-> IF n \in T THEN [inv |-> 0, st |-> "wait"] ELSE None]
        BY <3>2, EnterUnfolds
      <4> QED BY <1>b, <4>1
    <3> QED BY <1>4, <3>1, <3>2
  <2>3. Spending' = {} /\ SpendOf(batch') = {} /\ parked' = None
    <3>1. batch' = None \/ (batch' # None /\ batch'.spend = {})
      BY <1>4, <1>t DEF JoinBreach, EnterPool, PhaseInv, Enter
    <3> QED BY <1>a, <1>e, <1>4, <2>2, <3>1 DEF JoinBreach, EnterPool, Fresh, fiber
  <2>4. InFlight' = {} /\ UNCHANGED <<ninv, counted, lost>> /\ pc' \in {"pool", "commit"}
    BY <1>e, <1>f, <1>4, <2>3 DEF JoinBreach, EnterPool, log
  <2>5. SpendOnce' /\ SpendAccounted' /\ \A i \in InFlight' : counted'[i] = 0
    BY <1>t, <2>1, <2>4, SpendStays
  <2> QED BY <2>2, <2>4, <2>5 DEF SpendInv, FlightInv
<1>5. ASSUME NEW n \in Node, NEW o \in Outcomes, Finish(n, o) PROVE SpendInv'
  <2>1. n \in Active /\ pool' = [pool EXCEPT ![n].st = o] /\ o # "wait" /\ pool[n] \in Handler
    BY <1>p, <1>5 DEF Finish, Active, Outcomes, Finished, Exits, Running, InState, Members
  <2>2. pool'[n] # None /\ pool'[n].st = o /\ pool'[n].inv = pool[n].inv
    <3>1. pool'[n] = [pool[n] EXCEPT !.st = o]
      BY <1>p, <2>1
    <3>2. [pool[n] EXCEPT !.st = o] \in Handler
      BY <2>1, <1>a DEF Handler
    <3>3. None \notin Handler
      BY <1>t, NoneApart DEF SpendTypes
    <3> QED BY <2>1, <3>1, <3>2, <3>3 DEF Handler
  <2>3. \A m \in Node : m # n => pool'[m] = pool[m]
    BY <1>p, <2>1
  <2>4. Active' = Active /\ \A m \in Active : pool'[m].inv = pool[m].inv
    BY <1>a, <1>b, <2>1, <2>2, <2>3
  <2>5. Spending' = Spending
    BY <1>a, <2>4
  <2>6. UNCHANGED <<ninv, counted, lost, batch, parked, pc>>
    BY <1>5 DEF Finish, log, fiber
  <2>7. InFlight' = InFlight
    BY <1>f, <1>s, <2>5, <2>6
  <2>8. SpendOnce' /\ SpendAccounted' /\ \A i \in InFlight' : counted'[i] = 0
    BY <1>t, <2>6, <2>7, SpendStays
  <2>9. \A m, k \in Active' : pool'[m].inv = pool'[k].inv => m = k
    BY <2>4, MembersLeave
  <2> QED BY <2>5, <2>6, <2>8, <2>9 DEF SpendInv, FlightInv
<1>6. ASSUME NEW n \in Node, Acquire(n) PROVE SpendInv'
  <2>1. n \notin Active /\ pool[n] # None
    BY <1>a, <1>6 DEF Acquire, Waiting, InState, Members
  <2>2. UNCHANGED <<lost, batch, parked, pc>>
    BY <1>6 DEF Acquire, fiber
  <2>3. CASE bailed
    <3>1. pool' = [pool EXCEPT ![n] = None] /\ ninv' = ninv /\ counted' = counted
      BY <1>6, <2>3 DEF Acquire
    <3>2. Active' = Active /\ \A m \in Active : pool'[m] = pool[m]
      BY <1>p, <1>a, <1>b, <2>1, <3>1
    <3>3. Spending' = Spending
      BY <1>a, <3>2
    <3>4. InFlight' = InFlight
      BY <1>f, <1>s, <2>2, <3>3
    <3>5. SpendOnce' /\ SpendAccounted' /\ \A i \in InFlight' : counted'[i] = 0
      BY <1>t, <2>2, <3>1, <3>4, SpendStays
    <3>6. \A m, k \in Active' : pool'[m].inv = pool'[k].inv => m = k
      BY <3>2, MembersLeave
    <3> QED BY <2>2, <3>3, <3>5, <3>6 DEF SpendInv, FlightInv
  <2>4. CASE ~bailed
    <3> DEFINE i == ninv + 1
    <3>1. /\ ninv' = i /\ pool' = [pool EXCEPT ![n] = [inv |-> i, st |-> "run"]]
          /\ counted' = [j \in 1 .. i |-> IF j \in Inv THEN counted[j] ELSE 0]
      BY <1>6, <2>4 DEF Acquire
    <3>2. ninv \in Nat /\ Inv = 1 .. ninv /\ i \notin Inv /\ Inv' = Inv \cup {i} /\ Inv' = 1 .. i
      BY <1>t, <3>1 DEF SpendTypes, Inv
    <3>3. [inv |-> i, st |-> "run"] # None
      <4>1. [inv |-> i, st |-> "run"] \in [inv : Nat, st : Outcomes \cup {"wait", "run"}]
        BY <3>2
      <4> QED BY <4>1 DEF RegionAssumption
    <3>4. /\ Active' = Active \cup {n} /\ \A m \in Active : pool'[m] = pool[m]
          /\ pool'[n].inv = i
      BY <1>p, <1>a, <1>b, <2>1, <3>1, <3>3
    <3>5. Spending' = Spending \cup {i}
      BY <1>a, <2>1, <3>4
    <3>6. InFlight' = InFlight \cup {i}
      BY <1>f, <1>s, <2>2, <3>5
    <3>7. InFlight \in SUBSET Inv /\ SpendOf(batch) \in SUBSET Inv /\ \A m \in Active : pool[m].inv \in Inv
      BY <1>t, <1>s, SpendingStarted DEF Active
    <3>8. counted'[i] = 0 /\ \A j \in Inv : counted'[j] = counted[j]
      BY <3>1, <3>2
    <3> HIDE DEF i
    <3>9. SpendOnce'
      BY <3>2, <3>8 DEF SpendInv, SpendOnce
    <3>10. SpendAccounted'
      <4>1. ASSUME NEW j \in Inv' PROVE counted'[j] = 1 \/ j \in InFlight' \/ \E l \in lost' : l.inv = j
        BY <1>s, <2>2, <3>2, <3>6, <3>8 DEF SpendInv, SpendAccounted
      <4> QED BY <1>f, <4>1 DEF SpendAccounted, SpendOf
    <3>11. \A j \in InFlight' : counted'[j] = 0
      BY <3>6, <3>7, <3>8 DEF SpendInv, FlightInv
    <3>12. \A m, k \in Active' : pool'[m].inv = pool'[k].inv => m = k
      BY <3>2, <3>4, <3>7 DEF SpendInv, FlightInv
    <3>13. pc' \in {"drain", "bail"} => Spending' \cap SpendOf(batch') = {}
      BY <2>2, <3>2, <3>5, <3>7 DEF SpendInv, FlightInv
    <3>14. SpendOf(batch)' = SpendOf(batch')
      BY DEF SpendOf
    <3> QED BY <3>9, <3>10, <3>11, <3>12, <3>13, <3>14 DEF SpendInv, FlightInv
  <2> QED BY <2>3, <2>4
<1>7. ASSUME NEW n \in Settled PROVE /\ n \in Active /\ pool[n].inv \in Spending
                                      /\ \A m \in Active : m = n \/ pool[m].inv # pool[n].inv
  <2>1. n \in Active /\ \A m \in Active : m = n \/ pool[m].inv # pool[n].inv
    BY <1>7 DEF Active, SpendInv, FlightInv
  <2> QED BY <1>a, <2>1
<1>8. ASSUME NEW n \in Node, n \in Settled, pool' = [pool EXCEPT ![n] = None]
      PROVE  /\ Spending' = Spending \ {pool[n].inv}
             /\ \A m, k \in Active' : pool'[m].inv = pool'[k].inv => m = k
  <2>1. Active' = Active \ {n} /\ \A m \in Active' : pool'[m] = pool[m]
    BY <1>p, <1>a, <1>b, <1>8
  <2>2. Spending' = {pool[m].inv : m \in Active \ {n}}
    BY <1>a, <2>1
  <2>3. \A m, k \in Active' : pool'[m].inv = pool'[k].inv => m = k
    BY <2>1, MembersLeave
  <2>4. n \in Active /\ \A m \in Active : m = n \/ pool[m].inv # pool[n].inv
    BY <1>7, <1>8
  <2>5. Spending' = Spending \ {pool[n].inv}
    BY <1>a, <2>2, <2>4
  <2> QED BY <2>3, <2>5
<1>9. ASSUME NEW n \in Node, SettleLands(n) PROVE SpendInv'
  <2>1. PICK breach \in {-1, 2, 3}, T \in SUBSET Node, rank \in {-1, 1} : LandsAs(n, breach, T, rank)
    BY <1>9, LandsUnfolds
  <2>2. n \in Settled /\ pc = "pool" /\ counted' = Count({pool[n].inv}) /\ UNCHANGED <<lost, parked, ninv>>
    BY <1>9 DEF SettleLands
  <2>3. batch = None /\ parked = None /\ Members \subseteq frontier
    BY <2>2 DEF PhaseInv, TokenInv
  <2>4. \A m \in T : m = n \/ m \notin Members
    BY <1>9, <2>1, <2>3, LandingMovesOne DEF LandsAs
  <2>5. pool' = PoolAfter(n, T)
    BY <2>1 DEF LandsAs
  <2>6. Active' = Active \ {n} /\ \A m \in Active' : pool'[m] = pool[m]
    <3>1. \A m \in Node : m \in T => pool'[m].st = "wait" /\ m \notin Active \ {n}
      BY <1>a, <2>4, <2>5 DEF PoolAfter, Members
    <3>2. \A m \in Node : m \notin T => pool'[m] = IF m = n THEN None ELSE pool[m]
      BY <2>5 DEF PoolAfter
    <3> QED BY <1>a, <1>b, <3>1, <3>2
  <2>7. Spending' = Spending \ {pool[n].inv} /\ pool[n].inv \in Spending
    <3>1. Spending' = {pool[m].inv : m \in Active \ {n}}
      BY <1>a, <2>6
    <3>2. n \in Active /\ \A m \in Active : m = n \/ pool[m].inv # pool[n].inv
      BY <1>7, <2>2
    <3> QED BY <1>a, <3>1, <3>2
  <2>8. SpendOf(batch') = {}
    <3>1. batch' = None \/ batch'.spend = {}
      BY <2>1, <2>3 DEF LandsAs
    <3> QED BY <3>1 DEF SpendOf
  <2>9. InFlight' = InFlight \ {pool[n].inv} /\ {pool[n].inv} \in SUBSET InFlight
    BY <1>e, <1>f, <1>s, <2>2, <2>3, <2>7, <2>8
  <2>10. SpendOnce' /\ SpendAccounted' /\ \A i \in InFlight' : counted'[i] = 0
    BY <1>t, <2>2, <2>9, SpendMoves
  <2>11. \A m, k \in Active' : pool'[m].inv = pool'[k].inv => m = k
    BY <2>6, MembersLeave
  <2>12. Spending' \cap SpendOf(batch)' = {}
    BY <2>8 DEF SpendOf
  <2> QED BY <2>10, <2>11, <2>12 DEF SpendInv, FlightInv
<1>10. ASSUME NEW n \in Node, n \in Settled, pc = "pool", pool' = [pool EXCEPT ![n] = None],
              batch' # None, batch'.spend = {pool[n].inv}, UNCHANGED <<counted, lost, parked, ninv>>
       PROVE  SpendInv'
  <2>1. batch = None /\ parked = None
    BY <1>10 DEF PhaseInv
  <2>2. Spending' = Spending \ {pool[n].inv} /\ pool[n].inv \in Spending
    BY <1>7, <1>8, <1>10
  <2>3. SpendOf(batch') = {pool[n].inv} /\ SpendOf(batch)' = SpendOf(batch')
    BY <1>10 DEF SpendOf
  <2>4. InFlight' = InFlight
    BY <1>e, <1>f, <1>s, <1>10, <2>1, <2>2, <2>3
  <2>5. SpendOnce' /\ SpendAccounted' /\ \A i \in InFlight' : counted'[i] = 0
    BY <1>t, <1>10, <2>4, SpendStays
  <2> QED BY <1>8, <1>10, <2>2, <2>3, <2>5 DEF SpendInv, FlightInv
<1>11. ASSUME NEW n \in Node, SettleHalts(n) PROVE SpendInv'
  BY <1>t, <1>10, <1>11 DEF SettleHalts, log, fiber, PhaseInv
<1>12. ASSUME NEW n \in Node, SettleConflicts(n) PROVE SpendInv'
  <2>1. n \in Settled /\ pc = "pool" /\ ninv' = ninv
    BY <1>12 DEF SettleConflicts
  <2>2. CASE conflicts + 1 < OccCeiling
    <3>1. /\ pc' = "drain" /\ batch' = [spend |-> {pool[n].inv}, rank |-> -1]
          /\ pool' = [pool EXCEPT ![n] = None] /\ UNCHANGED <<counted, lost, parked>>
      BY <1>12, <2>2 DEF SettleConflicts
    <3>2. batch' # None
      BY <1>t, <3>1 DEF PhaseInv
    <3> QED BY <1>10, <2>1, <3>1, <3>2
  <2>3. CASE ~(conflicts + 1 < OccCeiling)
    <3>1. /\ \/ counted' = Count({pool[n].inv}) /\ Lose(Spending \ {pool[n].inv}, "drained")
             \/ counted' = counted /\ Lose(Spending, "abandoned")
          /\ pc' = "off" /\ pool' = EmptyPool /\ batch' = None /\ parked' = None
      BY <1>12, <2>3 DEF SettleConflicts
    <3>2. InFlight = Spending /\ InFlight' = {} /\ Active' = {} /\ pool[n].inv \in InFlight
      BY <1>e, <1>f, <1>s, <1>7, <2>1, <3>1 DEF PhaseInv
    <3>3. SpendOnce' /\ SpendAccounted' /\ \A i \in InFlight' : counted'[i] = 0
      <4>1. CASE counted' = Count({pool[n].inv}) /\ Lose(Spending \ {pool[n].inv}, "drained")
        BY <1>t, <1>l, <2>1, <3>2, <4>1, SpendMoves
      <4>2. CASE counted' = counted /\ Lose(Spending, "abandoned")
        BY <1>t, <1>l, <2>1, <3>2, <4>2, SpendStays
      <4> QED BY <3>1, <4>1, <4>2
    <3> QED BY <3>1, <3>2, <3>3 DEF SpendInv, FlightInv
  <2> QED BY <2>2, <2>3
<1>13. ASSUME NEW n \in Node, SettleThrows(n) PROVE SpendInv'
  <2>1. /\ n \in Settled /\ pc = "pool" /\ ninv' = ninv /\ pc' = "off" /\ pool' = EmptyPool
        /\ batch' = None /\ parked' = None
        /\ counted' = Count({pool[n].inv}) /\ Lose(Spending \ {pool[n].inv}, "thrown")
    BY <1>13 DEF SettleThrows, FiberEnds
  <2>2. InFlight = Spending /\ InFlight' = {} /\ Active' = {} /\ pool[n].inv \in InFlight
    BY <1>e, <1>f, <1>s, <1>7, <2>1 DEF PhaseInv
  <2>3. SpendOnce' /\ SpendAccounted' /\ \A i \in InFlight' : counted'[i] = 0
    BY <1>t, <1>l, <2>1, <2>2, SpendMoves
  <2> QED BY <2>1, <2>2, <2>3 DEF SpendInv, FlightInv
<1>14. CASE Drain
  <2>1. /\ ninv' = ninv /\ pool' = EmptyPool /\ batch' = None /\ parked' = parked /\ pc' = "idle"
        /\ batch # None /\ parked = None
    BY <1>14 DEF Drain, fiber, PhaseInv
  <2>2. SpendOf(batch) = batch.spend /\ InFlight = Spending \cup batch.spend /\ InFlight' = {} /\ Active' = {}
    BY <1>e, <1>f, <1>s, <2>1
  <2>3. SpendOnce' /\ SpendAccounted' /\ \A i \in InFlight' : counted'[i] = 0
    <3>1. CASE counted' = Count(batch.spend) /\ Lose(Spending, "drained")
      BY <1>t, <1>l, <2>1, <2>2, <3>1, SpendMoves
    <3>2. CASE counted' = counted /\ Lose(Spending \cup batch.spend, "drained")
      BY <1>t, <1>l, <2>1, <2>2, <3>2, SpendStays
    <3> QED BY <1>14, <3>1, <3>2 DEF Drain
  <2> QED BY <2>1, <2>2, <2>3 DEF SpendInv, FlightInv
<1>15. CASE Bail
  <2>1. /\ batch # None /\ batch' = [batch EXCEPT !.spend = batch.spend \cup Spending]
        /\ pool' = EmptyPool /\ pc' = "commit" /\ UNCHANGED <<counted, lost, parked, ninv>>
    BY <1>15 DEF Bail, log, fiber, PhaseInv
  <2>2. batch'.spend = batch.spend \cup Spending /\ batch' # None
    <3>1. batch \in Batch
      BY <1>t, <2>1, BatchHeld
    <3> QED BY <1>t, <2>1, <3>1 DEF Batch, PhaseInv
  <2>3. InFlight' = InFlight /\ Active' = {}
    BY <1>e, <1>f, <1>s, <2>1, <2>2
  <2>4. SpendOnce' /\ SpendAccounted' /\ \A i \in InFlight' : counted'[i] = 0
    BY <1>t, <2>1, <2>3, SpendStays
  <2> QED BY <2>1, <2>3, <2>4 DEF SpendInv, FlightInv
<1>16. CASE PoolEmpty
  <2>1. pool' = EmptyPool /\ pool = EmptyPool /\ pc' \in {"idle", "commit"} /\ batch = None
    BY <1>t, <1>16, NoMembers DEF PoolEmpty, PhaseInv
  <2>2. UNCHANGED <<counted, lost, parked, ninv>>
    BY <1>16 DEF PoolEmpty, log, fiber
  <2>3. SpendOf(batch') = {}
    <3>1. batch' = None \/ batch'.spend = {}
      BY <1>16, <2>1 DEF PoolEmpty
    <3> QED BY <3>1 DEF SpendOf
  <2>4. InFlight' = InFlight /\ Active' = {}
    BY <1>e, <1>f, <1>s, <2>1, <2>2, <2>3
  <2>5. SpendOnce' /\ SpendAccounted' /\ \A i \in InFlight' : counted'[i] = 0
    BY <1>t, <2>2, <2>4, SpendStays
  <2> QED BY <2>1, <2>4, <2>5 DEF SpendInv, FlightInv
<1>17. CASE Recommit
  <2>1. /\ batch' = parked /\ batch = None /\ pc' = "commit" /\ pool = EmptyPool
        /\ UNCHANGED <<pool, counted, lost, parked, ninv>>
    BY <1>17 DEF Recommit, Enter, PhaseInv, log, fiber
  <2>2. InFlight' = InFlight /\ Active' = {}
    BY <1>e, <1>f, <1>s, <2>1
  <2>3. SpendOnce' /\ SpendAccounted' /\ \A i \in InFlight' : counted'[i] = 0
    BY <1>t, <2>1, <2>2, SpendStays
  <2> QED BY <2>1, <2>2, <2>3 DEF SpendInv, FlightInv
<1>18. CASE CommitLands \/ CommitConflicts
  <2>1. /\ pc = "commit" /\ batch # None /\ pool = EmptyPool /\ parked \in {None, batch}
        /\ pool' = pool /\ ninv' = ninv /\ batch' = None /\ pc' \in {"off", "idle"}
    BY <1>18 DEF CommitLands, CommitConflicts, PhaseInv
  <2>2. InFlight = batch.spend /\ Active' = {} /\ InFlight' = SpendOf(parked')
    BY <1>e, <1>f, <1>s, <2>1
  <2>3. SpendOnce' /\ SpendAccounted' /\ \A i \in InFlight' : counted'[i] = 0
    <3>1. CASE counted' = Count(batch.spend) /\ lost' = lost /\ parked' = None
      BY <1>t, <1>e, <2>1, <2>2, <3>1, SpendMoves
    <3>2. CASE counted' = counted /\ lost' = lost /\ parked' = batch
      BY <1>t, <1>e, <2>1, <2>2, <3>2, SpendStays
    <3>3. CASE counted' = counted /\ Lose(batch.spend, "abandoned") /\ parked' = None
      BY <1>t, <1>e, <1>l, <2>1, <2>2, <3>3, SpendStays
    <3> QED BY <1>18, <3>1, <3>2, <3>3 DEF CommitLands, CommitConflicts
  <2> QED BY <2>1, <2>2, <2>3 DEF SpendInv, FlightInv
<1> QED BY <1>1, <1>2, <1>3, <1>4, <1>5, <1>6, <1>9, <1>11, <1>12, <1>13, <1>14, <1>15, <1>16,
          <1>17, <1>18 DEF Next, Progress, Handlers, Trouble, Ended

-----------------------------------------------------------------------------
(* The theorems.                                                            *)

RegionInv == TypeOK /\ PhaseInv /\ TokenInv /\ NotedInv /\ SpendInv

LEMMA InitRegionInv == RegionAssumption /\ Init => RegionInv
<1> SUFFICES ASSUME RegionAssumption, Init PROVE RegionInv
  OBVIOUS
<1>1. Inv = {} /\ pool = EmptyPool /\ Spending = {} /\ batch = None /\ parked = None
  BY NothingActive DEF Init, Inv
<1>2. TypeOK
  <2>1. MaxLoops \in Nat /\ MaxFaults \in Nat
    BY DEF RegionAssumption
  <2>2. counted \in [Inv -> Nat]
    BY DEF Init
  <2>3. pool \in [Node -> Handler \cup {None}]
    BY DEF Init, EmptyPool
  <2>4. SpendTypes
    BY <1>1, <2>2, <2>3 DEF Init, SpendTypes
  <2>5. streak \in [Node -> Nat] /\ last \in [Node -> {"none", "started", "aborted", "completed"}]
    BY DEF Init
  <2>6. loops \in 0 .. MaxLoops /\ faults \in 0 .. MaxFaults /\ disp \in -1 .. 3 /\ conflicts \in Nat
    BY <2>1 DEF Init
  <2>7. PlainTypes
    BY <2>5, <2>6 DEF Init, PlainTypes
  <2> QED BY <2>4, <2>7, TypeParts
<1>3. PhaseInv
  BY DEF Init, PhaseInv
<1>4. TokenInv
  BY DEF Init, TokenInv
<1>5. NotedInv
  BY DEF Init, NotedInv
<1>6. SpendInv
  <2>1. SpendOnce /\ SpendAccounted
    BY <1>1 DEF SpendOnce, SpendAccounted
  <2>2. FlightInv
    BY <1>1, NothingActive DEF FlightInv, InFlight, Init
  <2> QED BY <2>1, <2>2 DEF SpendInv
<1> QED BY <1>2, <1>3, <1>4, <1>5, <1>6 DEF RegionInv

LEMMA NextRegionInv == RegionAssumption /\ RegionInv /\ [Next]_vars => RegionInv'
BY NextTypeOK, NextPhaseInv, NextTokenInv, NextNotedInv, NextSpendInv DEF RegionInv

LEMMA RegionInvHolds == ASSUME RegionAssumption PROVE Spec => []RegionInv
<1>1. Init => RegionInv
  BY InitRegionInv
<1>2. RegionInv /\ [Next]_vars => RegionInv'
  BY NextRegionInv
<1> QED BY <1>1, <1>2, PTL DEF Spec

\* Every variable of a region keeps its type, for every set of disjoint branches and every
\* bound: in particular no dispatch passes the loop ceiling (poolDispatch in fanout.ts).
THEOREM RegionTypeCorrect == ASSUME RegionAssumption PROVE Spec => []TypeOK
<1>1. RegionInv => TypeOK
  BY DEF RegionInv
<1> QED BY <1>1, RegionInvHolds, PTL

\* The spend of every handler that started is on the run's totals once, on its way there,
\* or among the losses the code is known to have, whatever conflicts, parks, bails and
\* re-commits its facts went through (occ-append.ts, fanout.ts).
THEOREM SpendSettledHolds == ASSUME RegionAssumption PROVE Spec => []SpendSettled
<1>1. RegionInv => SpendSettled
  BY DEF RegionInv, SpendInv, SpendSettled
<1> QED BY <1>1, RegionInvHolds, PTL

\* No branch is lost or doubled across conflicts, pauses and crashes, the join opens when
\* every branch has reached it and none runs, and what a superstep commits ranks at least
\* as high as all its branches reported (fanout-planner.ts, store/src/reducers.ts).
THEOREM RegionSafeHolds == ASSUME RegionAssumption PROVE Spec => []RegionSafe
<1>1. RegionInv => RegionSafe
  <2> SUFFICES ASSUME RegionInv PROVE RegionSafe
    OBVIOUS
  <2>1. OneTokenPerBranch
    <3>1. ASSUME frontier # None, NEW p \in Paths, ~Strayed(p)
          PROVE  \E i \in 1 .. Len(p) + 1 :
                    /\ done \cap Range(p) = {p[j] : j \in 1 .. i - 1}
                    /\ frontier \cap Range(p) = IF i <= Len(p) THEN {p[i]} ELSE {}
      <4>1. PICK i \in 1 .. Len(p) + 1 : AtPlace(p, i)
        BY <3>1 DEF RegionInv, TokenInv, StrayedOff
      <4>2. DOMAIN p = 1 .. Len(p) /\ Len(p) \in Nat
        BY DEF RegionAssumption
      <4>3. done \cap Range(p) = {p[j] : j \in 1 .. i - 1}
        <5>1. \A j \in DOMAIN p : p[j] \in done <=> j \in 1 .. i - 1
          BY <4>1, <4>2 DEF AtPlace
        <5>2. 1 .. i - 1 \subseteq DOMAIN p
          BY <4>1, <4>2
        <5> QED BY <5>1, <5>2 DEF Range
      <4>4. frontier \cap Range(p) = IF i <= Len(p) THEN {p[i]} ELSE {}
        <5>1. \A j \in DOMAIN p : p[j] \in frontier <=> j = i
          BY <4>1 DEF AtPlace
        <5>2. i <= Len(p) <=> i \in DOMAIN p
          BY <4>1, <4>2
        <5> QED BY <5>1, <5>2 DEF Range
      <4> QED BY <4>1, <4>3, <4>4
    <3> QED BY <3>1 DEF OneTokenPerBranch
  <2>2. JoinIsBarrier
    <3>1. cur = "join" => pool = EmptyPool /\ frontier = None
      BY DEF RegionInv, PhaseInv
    <3>2. pool = EmptyPool => Running = {}
      BY DEF EmptyPool, Running, InState, Members
    <3> QED BY <3>1, <3>2 DEF RegionInv, TokenInv, JoinIsBarrier
  <2>3. NothingMasked
    BY DEF RegionInv, NotedInv, NothingMasked
  <2> QED BY <2>1, <2>2, <2>3 DEF RegionSafe
<1> QED BY <1>1, RegionInvHolds, PTL

\* While the operator's fold is pending its cap raise is known to the run, a drain has given
\* it up, and no pause is reached with it unapplied.
FoldInv ==
    /\ fold => raised # "none"
    /\ pc = "drain" => ~fold
    /\ fold /\ status \in {"auto", "paused"} => raised = "applied"

\* What a step with a pending fold owes.
FoldStep ==
    fold /\ status' # "halted" /\ ((\E i \in Inv : counted'[i] # counted[i]) \/ status' \in {"auto", "paused"})
        => raised' = "applied"

LEMMA NextFold == RegionAssumption /\ RegionInv /\ FoldInv /\ [Next]_vars => FoldInv' /\ FoldStep
<1> SUFFICES ASSUME RegionAssumption, RegionInv, FoldInv, [Next]_vars PROVE FoldInv' /\ FoldStep
  OBVIOUS
<1>t. /\ pc # "off" => status = "running"
      /\ fold \in BOOLEAN /\ raised \in {"none", "queued", "applied"} /\ counted \in [Inv -> Nat]
  BY DEF RegionInv, PhaseInv, TypeOK
<1>1. CASE Claim \/ Raise \/ SeedFrontier \/ AdvanceJoin \/ UNCHANGED vars
  BY <1>t, <1>1 DEF FoldInv, FoldStep, Claim, Raise, SeedFrontier, AdvanceJoin, Enter, vars, log, step
<1>2. CASE Wake
  BY <1>t, <1>2 DEF FoldInv, FoldStep, Wake, step
<1>3. CASE OperatorPause \/ JoinPause
  BY <1>t, <1>3 DEF FoldInv, FoldStep, OperatorPause, JoinPause, FiberEnds, Enter
<1>4. CASE Crash
  BY <1>t, <1>4 DEF FoldInv, FoldStep, Crash, FiberEnds
<1>5. CASE EnterConflict
  BY <1>t, <1>5 DEF FoldInv, FoldStep, EnterConflict, Conflicted, ConsumeFold, Enter
<1>6. CASE JoinBreach
  BY <1>t, <1>6 DEF FoldInv, FoldStep, JoinBreach, Enter, log
<1>7. CASE EnterPool
  <2>1. /\ pc' = "pool" /\ UNCHANGED <<status, counted>> /\ status = "running"
        /\ \/ raised' = "applied" /\ fold' = FALSE
           \/ fold' = (raised = "queued") /\ UNCHANGED raised
    BY <1>7 DEF EnterPool, Enter
  <2> QED BY <1>t, <2>1 DEF FoldInv, FoldStep
<1>8. ASSUME NEW n \in Node, Acquire(n) PROVE FoldInv' /\ FoldStep
  <2>1. UNCHANGED <<fold, raised, status, pc>> /\ \A i \in Inv : counted'[i] = counted[i]
    BY <1>8 DEF Acquire, Inv, RegionInv, TypeOK
  <2> QED BY <1>t, <2>1 DEF FoldInv, FoldStep
<1>9. ASSUME NEW n \in Node, NEW o \in Outcomes, Finish(n, o) PROVE FoldInv' /\ FoldStep
  BY <1>t, <1>9 DEF FoldInv, FoldStep, Finish, log
<1>10. ASSUME NEW n \in Node, SettleLands(n) PROVE FoldInv' /\ FoldStep
  <2>1. TakeFold /\ status' = "running"
    BY <1>t, <1>10 DEF SettleLands
  <2> QED BY <1>t, <2>1 DEF FoldInv, FoldStep, TakeFold
<1>11. ASSUME NEW n \in Node, SettleHalts(n) PROVE FoldInv' /\ FoldStep
  BY <1>t, <1>11 DEF FoldInv, FoldStep, SettleHalts, log
<1>12. ASSUME NEW n \in Node, SettleConflicts(n) PROVE FoldInv' /\ FoldStep
  <2>1. /\ fold' = FALSE /\ raised' = raised
        /\ status' = "halted" \/ (status' \in {"running", "queued"} /\ counted' = counted)
    BY <1>t, <1>12 DEF SettleConflicts, ConsumeFold
  <2> QED BY <2>1 DEF FoldInv, FoldStep
<1>13. ASSUME NEW n \in Node, SettleThrows(n) PROVE FoldInv' /\ FoldStep
  BY <1>13 DEF FoldInv, FoldStep, SettleThrows, FiberEnds
<1>14. CASE Drain
  BY <1>t, <1>14 DEF FoldInv, FoldStep, Drain
<1>15. CASE Bail \/ Recommit
  BY <1>t, <1>15 DEF FoldInv, FoldStep, Bail, Recommit, Enter, log
<1>16. CASE PoolEmpty
  <2>1. UNCHANGED <<status, raised, counted, fold>> /\ pc' \in {"idle", "commit"} /\ status = "running"
    BY <1>t, <1>16 DEF PoolEmpty, log
  <2> QED BY <1>t, <2>1 DEF FoldInv, FoldStep
<1>17. CASE CommitLands
  BY <1>t, <1>17 DEF FoldInv, FoldStep, CommitLands, TakeFold
<1>18. CASE CommitConflicts
  <2>1. /\ fold' = FALSE /\ raised' = raised
        /\ status' = "halted" \/ (status' \in {"running", "queued"} /\ counted' = counted)
    BY <1>t, <1>18 DEF CommitConflicts, ConsumeFold
  <2> QED BY <2>1 DEF FoldInv, FoldStep
<1> QED BY <1>1, <1>2, <1>3, <1>4, <1>5, <1>6, <1>7, <1>8, <1>9, <1>10, <1>11, <1>12, <1>13,
          <1>14, <1>15, <1>16, <1>17, <1>18 DEF Next, Progress, Handlers, Trouble, Ended

\* The operator's cap raise lands with the first commit of the superstep that read it, and no
\* pause is entered over it (takeFold and consumeFold in fanout.ts and fanout-commit.ts).
THEOREM FoldRidesHolds == ASSUME RegionAssumption PROVE Spec => FoldRides
<1>1. Init => FoldInv
  BY DEF Init, FoldInv
<1>2. RegionInv /\ FoldInv /\ [Next]_vars => FoldInv'
  BY NextFold
<1>3. RegionInv /\ FoldInv /\ [Next]_vars => [FoldStep]_vars
  BY NextFold
<1>4. [FoldStep]_vars <=>
      [fold /\ status' # "halted"
         /\ ((\E i \in Inv : counted'[i] # counted[i]) \/ status' \in {"auto", "paused"})
       => raised' = "applied"]_vars
  BY DEF FoldStep
<1> QED BY <1>1, <1>2, <1>3, <1>4, RegionInvHolds, PTL DEF Spec, FoldRides
=============================================================================
