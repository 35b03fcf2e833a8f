--------------------------- MODULE Delivery_proofs ---------------------------
(***************************************************************************)
(* Proofs about what operators say to a run on its way and what they are   *)
(* shown of it: an answer, from its commit to the gate it was given to     *)
(* (Console); a steer, from the log to a model's transcript (Steering,     *)
(* here as the instance S); and the page that follows a run live           *)
(* (RunStream, here as the instance R).                                    *)
(***************************************************************************)
EXTENDS Console, FiniteSetTheorems, SequenceTheorems, WellFoundedInduction, TLAPS

CONSTANTS Stages, LlmNodes, BufferCap, MaxSteers, MaxCuts,
          MaxLog, BatchSize, MaxBreaks, MaxReads, MaxFetches
VARIABLES pc, stage, frontier, issued, folded, pending, upTo, given, agent, queue, buffer, seen,
          heard, missed, waived, cuts,
          log, total, conn, es, snap, req, live, msgs, got

S == INSTANCE Steering WITH applied <- folded, faults <- cuts, MaxFaults <- MaxCuts

R == INSTANCE RunStream WITH heard <- got

----------------------------------------------------------------------------
(* Steers: the inductive invariant.                                        *)

\* The steps a turn dispatches.
Dispatched == IF S!Parallel(stage) THEN frontier ELSE Stages[stage]

\* Handlers run in a busy turn only, each for a step of that turn.
InTurn ==
    /\ pc = "queued" => folded = 0
    /\ pc # "ended" => stage \in DOMAIN Stages
    /\ pc # "busy" => S!InFlight = {}
    /\ pc = "busy" => S!InFlight \subseteq Dispatched /\ (S!Parallel(stage) => frontier \subseteq S!Nodes)

\* A handler in flight was given all that waits in routing and all that its
\* commit applies; a live agent has it in its transcript.
Handed ==
    /\ upTo <= issued
    /\ \A n \in S!InFlight : pending \subseteq given[n] /\ folded + 1 .. upTo \subseteq given[n]
    /\ \A n \in S!Live : given[n] \subseteq heard[n]

SteerInv == S!TypeOK /\ InTurn /\ Handed /\ S!SteerAccounted

\* S!SteerAccounted, of one steer.
Accounted(s) == (\E n \in S!Nodes : s \in heard[n]) \/ s \in pending \/ s \in waived

LEMMA AccountedEach ==
    /\ S!SteerAccounted <=> \A s \in 1 .. folded : Accounted(s)
    /\ S!SteerAccounted' <=> \A s \in 1 .. folded' : Accounted(s)'
<1>1. S!SteerAccounted <=> \A s \in 1 .. folded : Accounted(s)
  BY DEF S!SteerAccounted, S!Heard, Accounted
<1>2. S!SteerAccounted' <=> \A s \in 1 .. folded' : Accounted(s)'
  BY DEF S!SteerAccounted, S!Heard, Accounted
<1> QED BY <1>1, <1>2

LEMMA InitSteer == ASSUME S!SteeringAssumption, S!Init PROVE SteerInv
<1>1. S!InFlight = {} /\ S!Live = {}
  BY DEF S!Init, S!InFlight, S!Live
<1>2. S!TypeOK
  BY DEF S!Init, S!TypeOK, S!SteeringAssumption, S!Empty, S!AgentStates, S!NoFrontier, S!Steers
<1>3. InTurn
  BY <1>1 DEF InTurn, S!Init, S!SteeringAssumption
<1>4. Handed
  BY <1>1 DEF Handed, S!Init
<1>5. S!SteerAccounted
  BY DEF S!Init, S!SteerAccounted
<1> QED BY <1>2, <1>3, <1>4, <1>5 DEF SteerInv


----------------------------------------------------------------------------
(* Steers: the steps.                                                      *)

\* A steer that some transcript holds, or that is waived, stays so.
LEMMA AccountedStays ==
  ASSUME SteerInv, \A n \in S!Nodes : heard[n] \subseteq heard'[n], waived \subseteq waived',
         NEW s \in 1 .. folded, s \in pending => Accounted(s)'
  PROVE  Accounted(s)'
<1>1. Accounted(s)
  BY AccountedEach DEF SteerInv
<1> QED BY <1>1 DEF Accounted

LEMMA IssueStep == ASSUME S!SteeringAssumption, SteerInv, S!Issue PROVE SteerInv'
<1>1. /\ issued' = issued + 1 /\ issued < MaxSteers
      /\ UNCHANGED <<pc, stage, frontier, folded, pending, upTo, given, agent, queue, buffer, seen,
                     heard, missed, waived, cuts>>
  BY DEF S!Issue, S!run, S!turn, S!registry
<1>2. S!TypeOK'
  BY <1>1 DEF SteerInv, S!TypeOK, S!SteeringAssumption
<1>3. InTurn'
  BY <1>1 DEF SteerInv, InTurn, Dispatched, S!InFlight, S!Parallel
<1>4. Handed'
  BY <1>1 DEF SteerInv, S!TypeOK, S!SteeringAssumption, Handed, S!InFlight, S!Live
<1>5. S!SteerAccounted'
  BY <1>1 DEF SteerInv, S!SteerAccounted, S!Heard
<1> QED BY <1>2, <1>3, <1>4, <1>5 DEF SteerInv

\* The buffer keeps steers, however many it drops.
LEMMA BufferedType ==
  ASSUME S!SteeringAssumption, S!TypeOK, NEW lo \in 1 .. issued PROVE S!Buffered(lo) \in Seq(S!Steers)
<1> DEFINE more == [i \in 1 .. issued + 1 - lo |-> lo + i - 1]
           all == buffer \o more
           first == IF Len(all) > BufferCap THEN Len(all) + 1 - BufferCap ELSE 1
<1>1. issued \in 0 .. MaxSteers /\ issued \in Nat /\ lo \in Nat /\ lo >= 1 /\ MaxSteers \in Nat /\ BufferCap \in Nat
  BY DEF S!TypeOK, S!SteeringAssumption
<1>2. more \in Seq(S!Steers)
  <2>1. issued + 1 - lo \in Nat
    BY <1>1
  <2>2. \A i \in 1 .. issued + 1 - lo : lo + i - 1 \in S!Steers
    BY <1>1 DEF S!Steers
  <2> QED BY <2>1, <2>2
<1>3. all \in Seq(S!Steers)
  BY <1>2 DEF S!TypeOK
<1> HIDE DEF more, all
<1>4. Len(all) \in Nat /\ \A i \in 1 .. Len(all) : all[i] \in S!Steers
  BY <1>3
<1>5. first \in 1 .. Len(all) + 1
  BY <1>1, <1>4
<1> HIDE DEF first
<1>6. first \in Int /\ Len(all) \in Int /\ \A i \in first .. Len(all) : all[i] \in S!Steers
  BY <1>4, <1>5
<1>7. SubSeq(all, first, Len(all)) \in Seq(S!Steers)
  BY <1>6, SubSeqProperties
<1> QED BY <1>7 DEF S!Buffered, all, first, more

LEMMA SuperviseStep == ASSUME S!SteeringAssumption, SteerInv, S!Supervise PROVE SteerInv'
<1> DEFINE lo == 1 + (IF seen > folded THEN seen ELSE folded)
<1>1. /\ lo <= issued /\ seen' = issued
      /\ \/ /\ queue' = [n \in S!Nodes |-> IF n \in S!Live THEN queue[n] \union lo .. issued ELSE queue[n]]
            /\ missed' = [n \in S!Nodes |-> IF n \in LlmNodes /\ agent[n] = "preparing"
                                            THEN missed[n] \union lo .. issued ELSE missed[n]]
            /\ buffer' = buffer
         \/ buffer' = S!Buffered(lo) /\ UNCHANGED <<queue, missed>>
      /\ UNCHANGED <<pc, stage, frontier, issued, folded, pending, upTo, given, agent, heard, waived, cuts>>
  BY DEF S!Supervise, S!run, S!log, S!turn
<1>2. lo \in 1 .. issued /\ lo .. issued \subseteq S!Steers
  BY <1>1 DEF SteerInv, S!TypeOK, S!SteeringAssumption, S!Steers
<1> HIDE DEF lo
<1>3. buffer' \in Seq(S!Steers)
  BY <1>1, <1>2, BufferedType DEF SteerInv, S!TypeOK
<1>4. queue' \in [S!Nodes -> SUBSET S!Steers] /\ missed' \in [S!Nodes -> SUBSET S!Steers]
  BY <1>1, <1>2 DEF SteerInv, S!TypeOK
<1>5. S!TypeOK'
  BY <1>1, <1>3, <1>4 DEF SteerInv, S!TypeOK, S!SteeringAssumption
<1>6. InTurn'
  BY <1>1 DEF SteerInv, InTurn, Dispatched, S!InFlight, S!Parallel
<1>7. Handed'
  BY <1>1 DEF SteerInv, Handed, S!InFlight, S!Live
<1>8. S!SteerAccounted'
  BY <1>1 DEF SteerInv, S!SteerAccounted, S!Heard
<1> QED BY <1>5, <1>6, <1>7, <1>8 DEF SteerInv


LEMMA RunStartStep == ASSUME S!SteeringAssumption, SteerInv, S!RunStart PROVE SteerInv'
<1>1. /\ pc = "queued" /\ pc' = "turn" /\ folded' = issued /\ pending' = folded + 1 .. issued
      /\ UNCHANGED <<stage, frontier, issued, upTo, given, agent, queue, buffer, seen, heard, missed, waived, cuts>>
  BY DEF S!RunStart, S!Unapplied, S!turn, S!registry
<1>2. folded = 0 /\ S!InFlight = {} /\ S!Live = {} /\ stage \in DOMAIN Stages
  BY <1>1 DEF SteerInv, InTurn, S!InFlight, S!Live
<1>3. S!InFlight' = {} /\ S!Live' = {}
  BY <1>1, <1>2 DEF S!InFlight, S!Live
<1>4. S!TypeOK'
  BY <1>1, <1>2 DEF SteerInv, S!TypeOK, S!SteeringAssumption, S!Steers
<1>5. InTurn'
  BY <1>1, <1>2, <1>3 DEF InTurn
<1>6. Handed'
  BY <1>1, <1>3 DEF SteerInv, Handed
<1>7. S!SteerAccounted'
  BY <1>1, <1>2, AccountedEach DEF Accounted
<1> QED BY <1>4, <1>5, <1>6, <1>7 DEF SteerInv

LEMMA DispatchStep == ASSUME S!SteeringAssumption, SteerInv, S!Dispatch PROVE SteerInv'
<1>1. /\ pc = "turn" /\ pc' = "busy" /\ upTo' = issued
      /\ S!Parallel(stage) => frontier # S!NoFrontier
      /\ given' = [n \in S!Nodes |-> IF n \in Dispatched THEN pending \union (folded + 1 .. issued) ELSE {}]
      /\ agent' = [n \in S!Nodes |-> IF n \in Dispatched THEN "preparing" ELSE "out"]
      /\ UNCHANGED <<stage, frontier, issued, folded, pending, queue, buffer, seen, heard, missed, waived, cuts>>
  BY DEF S!Dispatch, S!Unapplied, S!log, S!registry, Dispatched
<1>2. S!TypeOK'
  <2>1. pending \union (folded + 1 .. issued) \subseteq S!Steers
    BY DEF SteerInv, S!TypeOK, S!SteeringAssumption, S!Steers
  <2>2. given' \in [S!Nodes -> SUBSET S!Steers] /\ agent' \in [S!Nodes -> S!AgentStates]
    BY <1>1, <2>1 DEF S!AgentStates
  <2>3. upTo' \in 0 .. MaxSteers
    BY <1>1 DEF SteerInv, S!TypeOK, S!SteeringAssumption
  <2> QED BY <1>1, <2>2, <2>3 DEF SteerInv, S!TypeOK
<1>3. S!InFlight' \subseteq Dispatched /\ S!Live' = {} /\ Dispatched' = Dispatched
  BY <1>1 DEF S!InFlight, S!Live, Dispatched, S!Parallel
<1>4. InTurn'
  <2>1. stage \in DOMAIN Stages
    BY <1>1 DEF SteerInv, InTurn
  <2>2. S!Parallel(stage) => frontier \subseteq S!Nodes
    BY <1>1 DEF SteerInv, S!TypeOK
  <2> QED BY <1>1, <1>3, <2>1, <2>2 DEF InTurn, S!Parallel
<1>5. Handed'
  BY <1>1, <1>3 DEF SteerInv, S!TypeOK, S!SteeringAssumption, Handed, S!InFlight
<1>6. S!SteerAccounted'
  BY <1>1 DEF SteerInv, S!SteerAccounted, S!Heard
<1> QED BY <1>2, <1>4, <1>5, <1>6 DEF SteerInv

\* What pending_steer held is waived when the fold replaces it.
LEMMA SeedFrontierStep == ASSUME S!SteeringAssumption, SteerInv, S!SeedFrontier PROVE SteerInv'
<1> DEFINE fold == folded + 1 .. issued
<1>1. /\ pc = "turn" /\ S!Parallel(stage) /\ frontier' = Stages[stage] /\ folded' = issued
      /\ pending' = (IF fold = {} THEN pending ELSE fold)
      /\ waived' = waived \union (IF fold = {} THEN {} ELSE pending)
      /\ UNCHANGED <<pc, stage, issued, upTo, given, agent, queue, buffer, seen, heard, missed, cuts>>
  BY DEF S!SeedFrontier, S!Unapplied, S!turn, S!registry
<1>2. S!InFlight' = {} /\ S!Live' = {} /\ stage \in DOMAIN Stages
  BY <1>1 DEF SteerInv, InTurn, S!InFlight, S!Live
<1>3. S!TypeOK'
  <2>1. fold \subseteq S!Steers
    BY DEF SteerInv, S!TypeOK, S!SteeringAssumption, S!Steers
  <2>2. frontier' \subseteq S!Nodes
    BY <1>1, <1>2 DEF S!Nodes
  <2>3. folded' \in 0 .. issued'
    BY <1>1 DEF SteerInv, S!TypeOK, S!SteeringAssumption
  <2> QED BY <1>1, <2>1, <2>2, <2>3 DEF SteerInv, S!TypeOK
<1>4. InTurn'
  BY <1>1, <1>2 DEF InTurn
<1>5. Handed'
  BY <1>1, <1>2 DEF SteerInv, Handed
<1>6. S!SteerAccounted'
  <2>1. ASSUME NEW s \in 1 .. folded' PROVE Accounted(s)'
    <3>1. CASE s \in 1 .. folded
      BY <1>1, <3>1, AccountedStays DEF Accounted
    <3>2. CASE s \notin 1 .. folded
      <4>1. s \in fold
        BY <1>1, <3>2 DEF SteerInv, S!TypeOK, S!SteeringAssumption
      <4> QED BY <1>1, <4>1 DEF Accounted
    <3> QED BY <3>1, <3>2
  <2> QED BY <2>1, AccountedEach
<1> QED BY <1>3, <1>4, <1>5, <1>6 DEF SteerInv

LEMMA StageAfter ==
  ASSUME S!SteeringAssumption, stage \in DOMAIN Stages
  PROVE  stage + 1 \in 1 .. Len(Stages) + 1 /\ (stage # Len(Stages) => stage + 1 \in DOMAIN Stages)
<1> DEFINE last == Len(Stages)
<1>1. last \in Nat /\ stage \in 1 .. last
  BY DEF S!SteeringAssumption
<1>2. DOMAIN Stages = 1 .. last
  BY DEF S!SteeringAssumption
<1> HIDE DEF last
<1>3. stage + 1 \in 1 .. last + 1 /\ (stage # last => stage + 1 \in 1 .. last)
  BY <1>1
<1> QED BY <1>2, <1>3 DEF last

LEMMA AdvanceJoinStep == ASSUME S!SteeringAssumption, SteerInv, S!AdvanceJoin PROVE SteerInv'
<1>1. /\ pc = "turn" /\ frontier' = S!NoFrontier /\ stage' = stage + 1 /\ folded' = issued
      /\ pc' = (IF stage = Len(Stages) THEN "ended" ELSE "turn")
      /\ waived' = waived \union (folded + 1 .. issued)
      /\ UNCHANGED <<issued, pending, upTo, given, agent, queue, buffer, seen, heard, missed, cuts>>
  BY DEF S!AdvanceJoin, S!Unapplied, S!turn, S!registry
<1>2. S!InFlight' = {} /\ S!Live' = {} /\ stage \in DOMAIN Stages
  BY <1>1 DEF SteerInv, InTurn, S!InFlight, S!Live
<1>7. stage + 1 \in 1 .. Len(Stages) + 1 /\ (stage # Len(Stages) => stage + 1 \in DOMAIN Stages)
  BY <1>2, StageAfter
<1>8. issued \in Nat /\ folded \in Nat /\ folded <= issued
  BY DEF SteerInv, S!TypeOK, S!SteeringAssumption
<1>3. S!TypeOK'
  <2>1. folded + 1 .. issued \subseteq S!Steers
    BY DEF SteerInv, S!TypeOK, S!SteeringAssumption, S!Steers
  <2>2. folded' \in 0 .. issued'
    BY <1>1, <1>8
  <2>3. stage' \in 1 .. Len(Stages) + 1
    BY <1>1, <1>7
  <2> QED BY <1>1, <2>1, <2>2, <2>3 DEF SteerInv, S!TypeOK
<1>4. InTurn'
  <2>1. pc' # "ended" => stage' \in DOMAIN Stages
    BY <1>1, <1>7
  <2> QED BY <1>1, <1>2, <2>1 DEF InTurn
<1>5. Handed'
  BY <1>1, <1>2 DEF SteerInv, Handed
<1>6. S!SteerAccounted'
  <2>1. ASSUME NEW s \in 1 .. folded' PROVE Accounted(s)'
    <3>1. CASE s \in 1 .. folded
      BY <1>1, <3>1, AccountedStays DEF Accounted
    <3>2. CASE s \notin 1 .. folded
      <4>1. s \in folded + 1 .. issued
        BY <1>1, <1>8, <3>2
      <4> QED BY <1>1, <4>1 DEF Accounted
    <3> QED BY <3>1, <3>2
  <2> QED BY <2>1, AccountedEach
<1> QED BY <1>3, <1>4, <1>5, <1>6 DEF SteerInv

LEMMA CrashOfDaemonStep == ASSUME S!SteeringAssumption, SteerInv, S!Crash PROVE SteerInv'
<1>1. /\ pc \in {"turn", "busy"} /\ pc' = "turn" /\ cuts' = cuts + 1 /\ cuts < MaxCuts
      /\ upTo' = 0 /\ given' = S!Empty /\ agent' = [n \in S!Nodes |-> "out"]
      /\ queue' = S!Empty /\ buffer' = <<>> /\ seen' = 0
      /\ UNCHANGED <<stage, frontier, issued, folded, pending, heard, missed, waived>>
  BY DEF S!Crash, S!log
<1>2. S!InFlight' = {} /\ S!Live' = {} /\ stage \in DOMAIN Stages
  BY <1>1 DEF SteerInv, InTurn, S!InFlight, S!Live
<1>3. S!TypeOK'
  BY <1>1 DEF SteerInv, S!TypeOK, S!SteeringAssumption, S!Empty, S!AgentStates
<1>4. InTurn'
  BY <1>1, <1>2 DEF InTurn
<1>5. Handed'
  BY <1>1, <1>2 DEF SteerInv, S!TypeOK, S!SteeringAssumption, Handed
<1>6. S!SteerAccounted'
  BY <1>1 DEF SteerInv, S!SteerAccounted, S!Heard
<1> QED BY <1>3, <1>4, <1>5, <1>6 DEF SteerInv


----------------------------------------------------------------------------
(* Steers: the handlers.                                                   *)

LEMMA PromptStep ==
  ASSUME S!SteeringAssumption, SteerInv, NEW n \in S!Nodes, S!Prompt(n) PROVE SteerInv'
<1>1. /\ agent[n] = "preparing" /\ agent' = [agent EXCEPT ![n] = "live"]
      /\ queue' = [queue EXCEPT ![n] = S!Drained(n)]
      /\ heard' = [heard EXCEPT ![n] = @ \union given[n]]
      /\ UNCHANGED <<pc, stage, frontier, issued, folded, pending, upTo, given, buffer, seen, missed, waived, cuts>>
  BY DEF S!Prompt, S!run, S!log, S!turn
<1>2. S!InFlight' = S!InFlight /\ S!Live' = S!Live \union {n}
  BY <1>1 DEF SteerInv, S!TypeOK, S!InFlight, S!Live
<1>3. S!TypeOK'
  <2>1. S!Drained(n) \subseteq S!Steers
    BY DEF SteerInv, S!TypeOK, S!Drained
  <2>2. agent' \in [S!Nodes -> S!AgentStates]
    BY <1>1 DEF SteerInv, S!TypeOK, S!AgentStates
  <2> QED BY <1>1, <2>1, <2>2 DEF SteerInv, S!TypeOK
<1>4. \A m \in S!Nodes : heard[m] \subseteq heard'[m]
  BY <1>1 DEF SteerInv, S!TypeOK
<1>5. given[n] \subseteq heard'[n]
  BY <1>1 DEF SteerInv, S!TypeOK
<1>6. InTurn'
  BY <1>1, <1>2 DEF SteerInv, InTurn, Dispatched, S!Parallel
<1>7. Handed'
  <2>1. S!Live \subseteq S!Nodes
    BY DEF S!Live
  <2> QED BY <1>1, <1>2, <1>4, <1>5, <2>1 DEF SteerInv, Handed
<1>8. S!SteerAccounted'
  BY <1>1, <1>4, AccountedStays, AccountedEach DEF Accounted
<1> QED BY <1>3, <1>6, <1>7, <1>8 DEF SteerInv

LEMMA PollStep ==
  ASSUME S!SteeringAssumption, SteerInv, NEW n \in S!Nodes, S!Poll(n) PROVE SteerInv'
<1>1. /\ heard' = [heard EXCEPT ![n] = @ \union queue[n]] /\ queue' = [queue EXCEPT ![n] = {}]
      /\ UNCHANGED <<pc, stage, frontier, issued, folded, pending, upTo, given, agent, buffer, seen,
                     missed, waived, cuts>>
  BY DEF S!Poll, S!run, S!log, S!turn
<1>2. S!InFlight' = S!InFlight /\ S!Live' = S!Live /\ S!Live \subseteq S!Nodes
  BY <1>1 DEF S!InFlight, S!Live
<1>3. S!TypeOK'
  BY <1>1 DEF SteerInv, S!TypeOK
<1>4. \A m \in S!Nodes : heard[m] \subseteq heard'[m]
  BY <1>1 DEF SteerInv, S!TypeOK
<1>5. InTurn'
  BY <1>1, <1>2 DEF SteerInv, InTurn, Dispatched, S!Parallel
<1>6. Handed'
  BY <1>1, <1>2, <1>4 DEF SteerInv, Handed
<1>7. S!SteerAccounted'
  BY <1>1, <1>4, AccountedStays, AccountedEach DEF Accounted
<1> QED BY <1>3, <1>5, <1>6, <1>7 DEF SteerInv

\* FiniteSets, as Steering instantiates it, is FiniteSets.
LEMMA SameFiniteSets ==
  ASSUME NEW X PROVE (S!IsFiniteSet(X) <=> IsFiniteSet(X)) /\ S!Cardinality(X) = Cardinality(X)
<1>1. S!IsFiniteSet(X) <=> IsFiniteSet(X)
  BY Zenon DEF S!IsFiniteSet, IsFiniteSet
<1>2. S!Cardinality(X) = Cardinality(X)
  BY Zenon DEF S!Cardinality, Cardinality
<1> QED BY <1>1, <1>2

\* A turn outside a region has one handler.
LEMMA OneHandler ==
  ASSUME S!SteeringAssumption, SteerInv, NEW n \in S!InFlight, ~S!Parallel(stage)
  PROVE  S!InFlight = {n}
<1> DEFINE who == Stages[stage]
<1>1. pc = "busy"
  BY DEF SteerInv, InTurn
<1>2. S!InFlight \subseteq who /\ n \in who /\ IsFiniteSet(who)
  BY <1>1, SameFiniteSets DEF SteerInv, InTurn, Dispatched, S!SteeringAssumption
<1>3. ~(Cardinality(who) > 1)
  BY SameFiniteSets DEF S!Parallel
<1> HIDE DEF who
<1>4. IsFiniteSet(who \ {n}) /\ Cardinality(who \ {n}) = Cardinality(who) - 1 /\ Cardinality(who) \in Nat
  BY <1>2, FS_RemoveElement, FS_CardinalityType
<1>5. Cardinality(who \ {n}) \in Nat
  BY <1>4, FS_CardinalityType
<1>6. Cardinality(who \ {n}) = 0
  BY <1>3, <1>4, <1>5
<1>7. who \ {n} = {}
  BY <1>4, <1>6, FS_EmptySet
<1> QED BY <1>2, <1>7


\* The commit of a handler applies what the turn folded, all of which the
\* handler was given: a transcript holds it, or the commit waived it.
LEMMA SettleStep ==
  ASSUME S!SteeringAssumption, SteerInv, NEW n \in S!Nodes, NEW ok \in BOOLEAN, S!Settle(n, ok)
  PROVE  SteerInv'
<1>1. /\ agent[n] = "live" \/ (agent[n] = "preparing" /\ (n \notin LlmNodes \/ ~ok))
      /\ cuts' = (IF ok THEN cuts ELSE cuts + 1) /\ (ok \/ cuts < MaxCuts)
      /\ agent' = [agent EXCEPT ![n] = "done"] /\ queue' = [queue EXCEPT ![n] = {}]
      /\ buffer' \in {buffer, <<>>}
      /\ waived' = waived \union (IF agent[n] = "live" THEN {} ELSE given[n])
      /\ folded' = (IF upTo > folded THEN upTo ELSE folded)
      /\ pending' = (IF ok /\ n \in LlmNodes THEN {} ELSE pending)
      /\ UNCHANGED <<issued, upTo, given, seen, heard, missed>>
  BY DEF S!Settle, S!AfterEnd, S!AppliedAfter, S!PendingAfter
<1>2. /\ S!Parallel(stage) =>
           /\ frontier' = (IF ok THEN frontier \ {n} ELSE frontier) /\ stage' = stage
           /\ pc' = (IF S!InFlight = {n} THEN "turn" ELSE pc)
      /\ ~S!Parallel(stage) =>
           /\ stage' = (IF ok THEN stage + 1 ELSE stage) /\ frontier' = frontier
           /\ pc' = (IF ok /\ stage = Len(Stages) THEN "ended" ELSE "turn")
  BY DEF S!Settle
<1>3. n \in S!InFlight /\ pc = "busy" /\ stage \in DOMAIN Stages
  BY <1>1 DEF SteerInv, InTurn, S!InFlight
<1>4. S!InFlight' = S!InFlight \ {n} /\ S!Live' \subseteq S!Live
  BY <1>1 DEF SteerInv, S!TypeOK, S!InFlight, S!Live
<1>5. issued \in Nat /\ folded \in Nat /\ upTo \in Nat /\ folded <= issued /\ upTo <= issued /\ issued <= MaxSteers
  BY DEF SteerInv, S!TypeOK, S!SteeringAssumption, Handed
<1>6. folded' \in Nat /\ folded <= folded' /\ upTo <= folded' /\ folded' <= issued
  BY <1>1, <1>5
<1>7. stage + 1 \in 1 .. Len(Stages) + 1 /\ (stage # Len(Stages) => stage + 1 \in DOMAIN Stages)
  BY <1>3, StageAfter
<1>8. S!TypeOK'
  <2>1. stage' \in 1 .. Len(Stages) + 1
    BY <1>2, <1>7 DEF SteerInv, S!TypeOK
  <2>2. frontier' = S!NoFrontier \/ frontier' \subseteq S!Nodes
    BY <1>2, <1>3 DEF SteerInv, S!TypeOK, InTurn
  <2>3. folded' \in 0 .. issued' /\ cuts' \in 0 .. MaxCuts
    BY <1>1, <1>5, <1>6 DEF SteerInv, S!TypeOK, S!SteeringAssumption
  <2>4. waived' \subseteq S!Steers /\ pending' \subseteq S!Steers
    BY <1>1 DEF SteerInv, S!TypeOK
  <2>5. agent' \in [S!Nodes -> S!AgentStates] /\ queue' \in [S!Nodes -> SUBSET S!Steers] /\ buffer' \in Seq(S!Steers)
    <3>1. agent' = [agent EXCEPT ![n] = "done"] /\ queue' = [queue EXCEPT ![n] = {}]
      BY <1>1
    <3>2. buffer' = buffer \/ buffer' = <<>>
      BY <1>1
    <3>3. buffer \in Seq(S!Steers) /\ <<>> \in Seq(S!Steers)
      BY DEF SteerInv, S!TypeOK
    <3>4. agent' \in [S!Nodes -> S!AgentStates] /\ queue' \in [S!Nodes -> SUBSET S!Steers]
      BY <3>1 DEF SteerInv, S!TypeOK, S!AgentStates
    <3> QED BY <3>2, <3>3, <3>4
  <2>6. pc' \in {"queued", "turn", "busy", "ended"}
    BY <1>2, <1>3
  <2> QED BY <1>1, <2>1, <2>2, <2>3, <2>4, <2>5, <2>6 DEF SteerInv, S!TypeOK
<1>9. InTurn'
  <2>1. CASE S!Parallel(stage)
    <3>1. S!InFlight \subseteq frontier /\ frontier \subseteq S!Nodes
      BY <1>3, <2>1 DEF SteerInv, InTurn, Dispatched
    <3>2. S!InFlight' \subseteq frontier' /\ frontier' \subseteq S!Nodes
      BY <1>2, <1>4, <2>1, <3>1
    <3>3. Dispatched' = frontier'
      BY <1>2, <2>1 DEF Dispatched, S!Parallel
    <3>4. pc' # "busy" => S!InFlight' = {}
      BY <1>2, <1>3, <1>4, <2>1
    <3> QED BY <1>2, <1>3, <2>1, <3>2, <3>3, <3>4 DEF InTurn
  <2>2. CASE ~S!Parallel(stage)
    <3>1. S!InFlight' = {}
      BY <1>3, <1>4, <2>2, OneHandler
    <3>2. pc' \in {"turn", "ended"} /\ (pc' # "ended" => stage' \in DOMAIN Stages)
      BY <1>2, <1>3, <1>7, <2>2
    <3> QED BY <3>1, <3>2 DEF InTurn
  <2> QED BY <2>1, <2>2
<1>10. Handed'
  <2>1. pending' \subseteq pending /\ folded' + 1 .. upTo' \subseteq folded + 1 .. upTo
    BY <1>1, <1>5, <1>6
  <2> QED BY <1>1, <1>4, <2>1 DEF SteerInv, Handed
<1>11. ASSUME NEW s \in given[n] PROVE Accounted(s)'
  <2>1. CASE agent[n] = "live"
    <3>1. s \in heard'[n]
      BY <1>1, <2>1 DEF SteerInv, Handed, S!Live
    <3> QED BY <3>1 DEF Accounted
  <2>2. CASE agent[n] # "live"
    BY <1>1, <2>2 DEF Accounted
  <2> QED BY <2>1, <2>2
<1>12. S!SteerAccounted'
  <2>1. ASSUME NEW s \in 1 .. folded' PROVE Accounted(s)'
    <3>1. pending \subseteq given[n] /\ folded + 1 .. upTo \subseteq given[n]
      BY <1>3 DEF SteerInv, Handed
    <3>2. CASE s \in 1 .. folded
      <4>1. s \in pending => Accounted(s)'
        BY <1>11, <3>1
      <4> QED BY <1>1, <3>2, <4>1, AccountedStays
    <3>3. CASE s \notin 1 .. folded
      <4>1. s \in folded + 1 .. upTo
        BY <1>1, <1>5, <3>3
      <4> QED BY <1>11, <3>1, <4>1
    <3> QED BY <3>2, <3>3
  <2> QED BY <2>1, AccountedEach
<1> QED BY <1>8, <1>9, <1>10, <1>12 DEF SteerInv

----------------------------------------------------------------------------
(* Steers: the theorems.                                                   *)

LEMMA SteerStep == ASSUME S!SteeringAssumption, SteerInv, [S!Next]_(S!vars) PROVE SteerInv'
<1>1. CASE S!Issue \/ S!Supervise
  BY <1>1, IssueStep, SuperviseStep
<1>2. CASE S!RunStart \/ S!Dispatch \/ S!SeedFrontier \/ S!AdvanceJoin
  BY <1>2, RunStartStep, DispatchStep, SeedFrontierStep, AdvanceJoinStep
<1>3. ASSUME NEW n \in S!Nodes, S!Prompt(n) \/ S!Poll(n) PROVE SteerInv'
  BY <1>3, PromptStep, PollStep
<1>4. ASSUME NEW n \in S!Nodes, NEW ok \in BOOLEAN, S!Settle(n, ok) PROVE SteerInv'
  BY <1>4, SettleStep
<1>5. CASE S!Crash
  BY <1>5, CrashOfDaemonStep
<1>6. CASE UNCHANGED S!vars
  <2>1. UNCHANGED <<pc, stage, frontier, issued, folded, pending, upTo, given, agent, queue, buffer, seen,
                    heard, missed, waived, cuts>>
    BY <1>6 DEF S!vars, S!run, S!log, S!turn, S!registry
  <2>2. S!TypeOK' /\ S!SteerAccounted'
    BY <2>1 DEF SteerInv, S!TypeOK, S!SteerAccounted, S!Heard
  <2>3. InTurn' /\ Handed'
    BY <2>1 DEF SteerInv, InTurn, Handed, Dispatched, S!InFlight, S!Live, S!Parallel
  <2> QED BY <2>2, <2>3 DEF SteerInv
<1> QED BY <1>1, <1>2, <1>3, <1>4, <1>5, <1>6 DEF S!Next

LEMMA SteerInvariant == ASSUME S!SteeringAssumption PROVE S!Spec => []SteerInv
<1>1. S!Init => SteerInv
  BY InitSteer
<1>2. SteerInv /\ [S!Next]_(S!vars) => SteerInv'
  BY SteerStep
<1> QED BY <1>1, <1>2, PTL DEF S!Spec

\* The turn, the registry, the log and the transcripts of a run under steering
\* keep their types, for every shape of its stages.
THEOREM SteerTypeCorrect == ASSUME S!SteeringAssumption PROVE S!Spec => []S!TypeOK
<1>1. SteerInv => S!TypeOK
  BY DEF SteerInv
<1> QED BY <1>1, SteerInvariant, PTL

\* No steer the log counts as applied is lost between the fold, the dispatches
\* of a turn and its commits, for any stages, regions, crashes and failures: it
\* is in a transcript, waits in pending_steer, or the commit that applied it is
\* one of those that have nobody to hand it to (advanceAppliedTo applies what
\* the turn folded, and every handler of the turn was given that).
THEOREM SteerAccountedHolds == ASSUME S!SteeringAssumption PROVE S!Spec => []S!SteerAccounted
<1>1. SteerInv => S!SteerAccounted
  BY DEF SteerInv
<1> QED BY <1>1, SteerInvariant, PTL


----------------------------------------------------------------------------
(* Answers: the inductive invariant.                                       *)

IsLog == \E X : intents \in Seq(X)

\* An answer, committed or on its way, presupposes that a gate was opened.
Posts ==
    /\ DOMAIN terminal = Terminals
    /\ \A t \in Terminals : terminal[t] # None /\ terminal[t].step = "pick" => gate > 0
    /\ page.status = "paused_human" => gate > 0
    /\ request # None =>
          /\ DOMAIN request = {"kind", "arg", "then", "gate", "checked"}
          /\ request.then \in {None, "resume"} /\ (request.kind = "human" => gate > 0)

GateShown ==
    /\ status = "paused_human" => gate > 0 /\ Routes # {}
    /\ \A s \in Answers : gate > 0

\* The answer a turn has folded is one the watermark has not passed.
Folds ==
    /\ turn # None => turn.human \in 0 .. turn.upTo
    /\ turn # None /\ turn.human # 0 => turn.human > applied /\ intents[turn.human].kind = "human"
    /\ \A c \in settled : c.answer <= applied

\* While an answer to an open gate is not applied, the run stands at that gate
\* or is cancelled, and a turn in flight has folded it or a later one.
Stands(s) ==
    /\ intents[s].gate = gate /\ Routes # {}
    /\ status \in {"paused_human", "queued", "running", "cancelled"}
    /\ turn # None => s <= turn.human

Meets(s) ==
    /\ intents[s].gate \in 1 .. gate
    /\ s > applied => Stands(s)
    /\ s <= applied => Settled(intents[s].gate) \/ status = "cancelled"
    /\ \A c \in settled : c.answer = s => c.gate = intents[s].gate

AllMeet == \A s \in OpenAnswers : Meets(s)

AnswerInv == IsLog /\ TypeOK /\ Posts /\ GateShown /\ Folds /\ AllMeet

----------------------------------------------------------------------------
(* Answers: choosing from the log.                                         *)

LEMMA FirstIs ==
  ASSUME NEW T \in SUBSET Nat, T # {} PROVE First(T) \in T /\ \A x \in T : First(T) <= x
<1>1. PICK m \in T : \A y \in T : ~(<<y, m>> \in OpToRel(<, Nat))
  BY NatLessThanWellFounded, WFMin
<1>2. ASSUME NEW y \in T PROVE m <= y
  <2>1. ~(y < m)
    <3>1. y < m => <<y, m>> \in OpToRel(<, Nat)
      BY Zenon DEF OpToRel
    <3> QED BY <1>1, <3>1
  <2> QED BY <2>1
<1>3. ASSUME NEW z \in T, \A x \in T : z <= x PROVE z = m
  BY <1>2, <1>3
<1> QED BY <1>2, <1>3 DEF First

LEMMA LastIs ==
  ASSUME NEW n \in Nat, NEW T \in SUBSET (0 .. n), T # {} PROVE Last(T) \in T /\ \A x \in T : x <= Last(T)
<1> DEFINE D == {n - x : x \in T}
<1>1. D \in SUBSET Nat /\ D # {}
  <2>1. \A x \in T : x \in Int /\ x <= n /\ n - x \in Nat
    OBVIOUS
  <2> QED BY <2>1
<1>2. First(D) \in D /\ \A y \in D : First(D) <= y
  BY <1>1, FirstIs
<1>3. PICK m \in T : First(D) = n - m
  BY <1>2
<1>4. \A x \in T : n - m <= n - x
  BY <1>2, <1>3
<1>5. \A x \in T : x <= m
  BY <1>4
<1> QED BY <1>5 DEF Last


LEMMA LogGrows ==
  ASSUME IsLog, NEW i, intents' = Append(intents, i)
  PROVE  /\ IsLog' /\ Len(intents) \in Nat /\ Len(intents') = Len(intents) + 1
         /\ \A s \in 1 .. Len(intents) : intents'[s] = intents[s]
         /\ intents'[Len(intents) + 1] = i
<1>1. PICK X : intents \in Seq(X)
  BY DEF IsLog
<1>2. intents \in Seq(X \union {i})
  <2>1. X \subseteq X \union {i}
    OBVIOUS
  <2> QED BY <1>1, <2>1, SeqMonotonic
<1>3. /\ Append(intents, i) \in Seq(X \union {i})
      /\ Len(Append(intents, i)) = Len(intents) + 1
      /\ \A s \in 1 .. Len(intents) : Append(intents, i)[s] = intents[s]
      /\ Append(intents, i)[Len(intents) + 1] = i
  BY <1>2, AppendProperties
<1> QED BY <1>2, <1>3, LenProperties DEF IsLog

LEMMA InitAnswers == ASSUME ConsoleAssumption, Init PROVE AnswerInv
<1>1. IsLog /\ Len(intents) = 0
  <2>1. <<>> \in Seq({})
    OBVIOUS
  <2> QED BY <2>1 DEF Init, IsLog
<1>2. TypeOK
  BY <1>1 DEF Init, TypeOK, ConsoleAssumption
<1>3. Posts
  BY DEF Init, Posts, View
<1>4. Answers = {}
  BY <1>1 DEF Answers
<1>5. GateShown /\ AllMeet
  BY <1>4 DEF Init, GateShown, AllMeet, OpenAnswers
<1>6. Folds
  BY DEF Init, Folds
<1> QED BY <1>1, <1>2, <1>3, <1>5, <1>6 DEF AnswerInv

----------------------------------------------------------------------------
(* Answers: operators and pages.                                           *)

\* A step that touches neither the log nor the run nor a turn.
LEMMA AsideStep ==
  ASSUME AnswerInv, UNCHANGED <<status, pos, gate, intents, applied, turn, settled>>, Posts'
  PROVE  AnswerInv'
<1>1. Answers' = Answers /\ OpenAnswers' = OpenAnswers /\ Routes' = Routes
  BY DEF Answers, OpenAnswers, Routes
<1>2. IsLog' /\ TypeOK' /\ GateShown' /\ Folds'
  BY <1>1 DEF AnswerInv, IsLog, TypeOK, GateShown, Folds
<1>3. AllMeet'
  BY <1>1 DEF AnswerInv, AllMeet, Meets, Stands, Settled
<1> QED BY <1>2, <1>3 DEF AnswerInv

\* A commit: whoever answers has seen a gate.
LEMMA CommitStep ==
  ASSUME ConsoleAssumption, AnswerInv, NEW kind, NEW arg, NEW g, Commit(Intent(kind, arg, g)),
         kind = "human" => gate > 0,
         UNCHANGED <<status, pos, gate, applied, turn, settled>>, Posts'
  PROVE  AnswerInv'
<1> DEFINE i == Intent(kind, arg, g)
           n == Len(intents)
<1>1. /\ IsLog' /\ n \in Nat /\ Len(intents') = n + 1 /\ n + 1 <= MaxIntents
      /\ \A s \in 1 .. n : intents'[s] = intents[s]
      /\ intents'[n + 1] = i
  BY LogGrows DEF AnswerInv, Commit, ConsoleAssumption
<1>2. i.kind = kind /\ i.gate = g /\ (i.open => status = "paused_human" /\ gate = g)
  BY DEF Intent, GateOpen
<1> HIDE DEF i, n
<1>3. Routes' = Routes
  BY DEF Routes
<1>4. applied \in 0 .. n /\ applied \in Nat /\ gate \in Nat
  BY <1>1 DEF n, AnswerInv, TypeOK, ConsoleAssumption
<1>5. TypeOK'
  BY <1>1, <1>4 DEF n, AnswerInv, TypeOK, ConsoleAssumption
<1>6. \A s \in Answers' : s \in Answers \/ (s = n + 1 /\ kind = "human")
  BY <1>1, <1>2 DEF n, Answers
<1>7. GateShown'
  BY <1>3, <1>6 DEF AnswerInv, GateShown
<1>8. Folds'
  <2>1. turn # None => turn.human \in 0 .. turn.upTo /\ turn.upTo \in 0 .. n
    BY <1>4 DEF n, AnswerInv, Folds, TypeOK
  <2>2. turn # None /\ turn.human # 0 => turn.human \in 1 .. n
    BY <2>1, <1>1
  <2>3. turn # None /\ turn.human # 0 => intents'[turn.human] = intents[turn.human]
    BY <2>2, <1>1
  <2> QED BY <2>3 DEF AnswerInv, Folds
<1>9. ASSUME NEW s \in OpenAnswers' PROVE Meets(s)'
  <2>1. CASE s \in 1 .. n
    <3>1. s \in OpenAnswers /\ intents'[s] = intents[s]
      BY <2>1, <1>1, <1>9 DEF OpenAnswers, Answers, n
    <3> QED BY <3>1, <1>3 DEF AnswerInv, AllMeet, Meets, Stands, Settled
  <2>2. CASE s = n + 1
    <3>1. intents'[s] = i /\ i.open
      BY <2>2, <1>1, <1>9 DEF OpenAnswers
    <3>2. status = "paused_human" /\ gate = g /\ i.gate = g
      BY <3>1, <1>2
    <3>3. gate > 0 /\ Routes # {} /\ turn = None
      BY <3>2 DEF AnswerInv, GateShown, TypeOK
    <3>4. s > applied /\ ~(s <= applied)
      BY <2>2, <1>4, <1>1
    <3>5. Stands(s)'
      BY <3>1, <3>2, <3>3, <1>3 DEF Stands
    <3>6. \A c \in settled : c.answer # s
      BY <3>4 DEF AnswerInv, Folds
    <3>7. gate \in 1 .. gate
      BY <1>4, <3>3
    <3> QED BY <3>1, <3>2, <3>4, <3>5, <3>6, <3>7 DEF Meets
  <2> QED BY <2>1, <2>2, <1>1, <1>9 DEF OpenAnswers, Answers
<1> QED BY <1>1, <1>5, <1>7, <1>8, <1>9 DEF AnswerInv, AllMeet


\* The log has a commit more, or is as it was.
LEMMA OperatorStep == ASSUME ConsoleAssumption, AnswerInv, Operator PROVE AnswerInv'
<1> PICK t \in Terminals : WriteIntent(t) \/ ResumeAfter(t) \/ RespondRead(t) \/ RespondPick(t) \/ Abandon(t)
  BY DEF Operator
<1>1. UNCHANGED <<status, pos, gate, applied, turn, settled, page, request>>
  BY DEF WriteIntent, ResumeAfter, RespondRead, RespondPick, Abandon, run, engine, web
<1>2. Posts
  BY DEF AnswerInv
<1>3. ASSUME NEW w, terminal' = [terminal EXCEPT ![t] = w], w # None /\ w.step = "pick" => gate > 0
      PROVE  Posts'
  <2>1. DOMAIN terminal' = Terminals
    BY <1>2, <1>3 DEF Posts
  <2>2. \A u \in Terminals : terminal'[u] = IF u = t THEN w ELSE terminal[u]
    BY <1>2, <1>3 DEF Posts
  <2> QED BY <2>1, <2>2, <1>1, <1>2, <1>3 DEF Posts
<1>4. CASE WriteIntent(t)
  <2>1. PICK v \in Verbs :
           /\ Commit(Intent(v.kind, v.arg, 0))
           /\ terminal' = [terminal EXCEPT ![t] =
                  IF v.kind = "raise" /\ v.resume THEN [step |-> "resume", gate |-> 0, routes |-> {}] ELSE None]
    BY <1>4 DEF WriteIntent
  <2>2. Posts'
    BY <1>3, <2>1
  <2>3. v.kind # "human"
    BY DEF ConsoleAssumption
  <2> QED BY <2>1, <2>2, <2>3, <1>1, CommitStep
<1>5. CASE ResumeAfter(t)
  <2>1. Commit(Intent("resume", None, 0)) /\ terminal' = [terminal EXCEPT ![t] = None]
    BY <1>5 DEF ResumeAfter
  <2>2. Posts'
    BY <1>3, <2>1
  <2> QED BY <2>1, <2>2, <1>1, CommitStep
<1>6. CASE RespondRead(t)
  <2>1. gate > 0
    BY <1>6 DEF RespondRead, AnswerInv, GateShown
  <2>2. Posts'
    BY <1>3, <1>6, <2>1 DEF RespondRead
  <2>3. intents' = intents
    BY <1>6 DEF RespondRead
  <2> QED BY <2>2, <2>3, <1>1, AsideStep
<1>7. CASE RespondPick(t)
  <2>1. PICK r \in terminal[t].routes : Commit(Intent("human", r, terminal[t].gate))
    BY <1>7 DEF RespondPick
  <2>2. gate > 0
    BY <1>7, <1>2 DEF RespondPick, Posts
  <2>3. Posts'
    BY <1>3, <1>7 DEF RespondPick
  <2> QED BY <2>1, <2>2, <2>3, <1>1, CommitStep
<1>8. CASE Abandon(t)
  <2>1. Posts' /\ intents' = intents
    BY <1>3, <1>8 DEF Abandon
  <2> QED BY <2>1, <1>1, AsideStep
<1> QED BY <1>4, <1>5, <1>6, <1>7, <1>8

LEMMA PageStep == ASSUME ConsoleAssumption, AnswerInv, Page PROVE AnswerInv'
<1>1. UNCHANGED <<status, pos, gate, applied, turn, settled, terminal>>
  BY DEF Page, Render, Click, Check, Refuse, AppendIntent, LoseRequest, run, engine
<1>2. Posts
  BY DEF AnswerInv
<1>3. CASE Render
  <2>1. page' = View /\ request' = request /\ intents' = intents
    BY <1>3 DEF Render
  <2>2. page'.status = status
    BY <2>1 DEF View
  <2>3. Posts'
    BY <2>1, <2>2, <1>1, <1>2 DEF Posts, AnswerInv, GateShown
  <2> QED BY <2>1, <2>3, <1>1, AsideStep
<1>4. CASE Click
  <2>1. PICK o \in Offers(page) : request' = Request(o)
    BY <1>4 DEF Click
  <2>2. page' = page /\ intents' = intents
    BY <1>4 DEF Click
  <2>3. o.kind = "human" => page.status = "paused_human"
    BY DEF Offers, Renderers, BudgetActions, CapAdjustActions, ResumeCancelActions, Resolutions,
           RunControls, HitlStepCard, RunCapControls, Offer
  <2>4. o.then \in {None, "resume"}
    BY DEF Offers, Renderers, BudgetActions, CapAdjustActions, ResumeCancelActions, Resolutions,
           RunControls, HitlStepCard, HitlChoice, RunCapControls, Offer
  <2>5. /\ DOMAIN request' = {"kind", "arg", "then", "gate", "checked"}
        /\ request'.then = o.then /\ request'.kind = o.kind
    BY <2>1 DEF Request
  <2>6. Posts'
    BY <2>2, <2>3, <2>4, <2>5, <1>1, <1>2 DEF Posts
  <2> QED BY <2>2, <2>6, <1>1, AsideStep
<1>5. CASE Check
  <2>1. /\ request # None /\ request' = [request EXCEPT !.checked = TRUE]
        /\ page' = page /\ intents' = intents
    BY <1>5 DEF Check
  <2>2. Posts'
    BY <2>1, <1>1, <1>2 DEF Posts
  <2> QED BY <2>1, <2>2, <1>1, AsideStep
<1>6. CASE Refuse \/ LoseRequest
  <2>1. request' = None /\ page' = page /\ intents' = intents
    BY <1>6 DEF Refuse, LoseRequest, Respond
  <2>2. Posts'
    BY <2>1, <1>1, <1>2 DEF Posts
  <2> QED BY <2>1, <2>2, <1>1, AsideStep
<1>7. CASE AppendIntent
  <2>1. /\ Commit(Intent(request.kind, request.arg, IF request.kind = "human" THEN request.gate ELSE 0))
        /\ request # None /\ page' = page
    BY <1>7 DEF AppendIntent
  <2>2. \/ request' = None
        \/ /\ request.then # None
           /\ request' = [request EXCEPT !.kind = request.then, !.then = None, !.checked = FALSE]
    BY <1>7 DEF AppendIntent, Respond
  <2>3. Posts'
    <3>1. CASE request' = None
      BY <3>1, <2>1, <1>1, <1>2 DEF Posts
    <3>2. CASE request.then # None /\ request' # None
      <4>1. request.then = "resume"
        BY <3>2, <2>1, <1>2 DEF Posts
      <4>2. DOMAIN request = {"kind", "arg", "then", "gate", "checked"}
        BY <2>1, <1>2 DEF Posts
      <4>3. /\ DOMAIN request' = {"kind", "arg", "then", "gate", "checked"}
            /\ request'.kind = "resume" /\ request'.then = None
        BY <2>2, <3>2, <4>1, <4>2
      <4> QED BY <4>3, <2>1, <1>1, <1>2 DEF Posts
    <3> QED BY <2>2, <3>1, <3>2
  <2>4. request.kind = "human" => gate > 0
    BY <2>1, <1>2 DEF Posts
  <2> QED BY <2>1, <2>3, <2>4, <1>1, CommitStep
<1> QED BY <1>3, <1>4, <1>5, <1>6, <1>7 DEF Page


----------------------------------------------------------------------------
(* Answers: the engine.                                                    *)

LEMMA InRange ==
  ASSUME ConsoleAssumption, AnswerInv
  PROVE  /\ Len(intents) \in Nat /\ applied \in Nat /\ applied <= Len(intents)
         /\ gate \in Nat /\ Len(intents) <= MaxIntents /\ MaxIntents \in Nat
         /\ turn # None => turn.upTo \in Nat /\ applied <= turn.upTo /\ turn.upTo <= Len(intents)
         /\ \A kind : Pending(kind) \in SUBSET (0 .. Len(intents))
         /\ \A s \in OpenAnswers : s \in Nat /\ s <= Len(intents) /\ (s > applied => s \in Pending("human"))
<1>1. Len(intents) \in Nat
  <2>1. PICK X : intents \in Seq(X)
    BY DEF AnswerInv, IsLog
  <2> QED BY <2>1, LenProperties
<1>2. /\ applied \in Nat /\ applied <= Len(intents) /\ gate \in Nat
      /\ Len(intents) <= MaxIntents /\ MaxIntents \in Nat
      /\ turn # None => turn.upTo \in Nat /\ applied <= turn.upTo /\ turn.upTo <= Len(intents)
  BY <1>1 DEF AnswerInv, TypeOK, ConsoleAssumption
<1>3. \A kind : Pending(kind) \in SUBSET (0 .. Len(intents))
  BY <1>1, <1>2 DEF Pending
<1>4. ASSUME NEW s \in OpenAnswers
      PROVE  s \in Nat /\ s <= Len(intents) /\ (s > applied => s \in Pending("human"))
  BY <1>1, <1>2 DEF OpenAnswers, Answers, Pending
<1> QED BY <1>1, <1>2, <1>3, <1>4

LEMMA FirstPending ==
  ASSUME ConsoleAssumption, AnswerInv, NEW kind, Pending(kind) # {}
  PROVE  First(Pending(kind)) \in applied .. Len(intents)
<1>1. Pending(kind) \in SUBSET Nat /\ Pending(kind) \subseteq applied .. Len(intents)
  BY InRange DEF Pending
<1> QED BY <1>1, FirstIs

\* What a step of the engine leaves to be shown.
LEMMA EngineStep ==
  ASSUME ConsoleAssumption, AnswerInv, UNCHANGED <<intents, terminal, page, request>>,
         gate' \in Nat, gate <= gate', status' = "paused_human" => gate' > 0 /\ Routes' # {},
         TypeOK', Folds', AllMeet'
  PROVE  AnswerInv'
<1>1. Answers' = Answers
  BY DEF Answers
<1>2. gate \in Nat
  BY InRange
<1>3. IsLog' /\ Posts'
  BY <1>2 DEF AnswerInv, IsLog, Posts
<1>4. GateShown'
  BY <1>1, <1>2 DEF AnswerInv, GateShown
<1> QED BY <1>3, <1>4 DEF AnswerInv

\* No answer waits: the watermark and the gates move on freely.
LEMMA SpentStep ==
  ASSUME ConsoleAssumption, AnswerInv, \A s \in OpenAnswers : ~(s > applied /\ Stands(s)),
         UNCHANGED <<intents, settled>>, applied' \in Nat, applied <= applied',
         gate' \in Nat, gate <= gate', status = "cancelled" => status' = "cancelled"
  PROVE  AllMeet'
<1>1. OpenAnswers' = OpenAnswers
  BY DEF OpenAnswers, Answers
<1>2. ASSUME NEW s \in OpenAnswers PROVE Meets(s)'
  <2>1. s \in Nat /\ applied \in Nat /\ gate \in Nat
    BY InRange
  <2>2. Meets(s)
    BY DEF AnswerInv, AllMeet
  <2>3. s <= applied
    BY <2>1, <2>2 DEF Meets
  <2>4. s <= applied' /\ ~(s > applied') /\ intents[s].gate \in 1 .. gate'
    BY <2>1, <2>2, <2>3 DEF Meets
  <2>5. Settled(intents[s].gate)' \/ status' = "cancelled"
    BY <2>2, <2>3 DEF Meets, Settled
  <2> QED BY <2>2, <2>4, <2>5 DEF Meets
<1> QED BY <1>1, <1>2 DEF AllMeet

\* The answers that wait still do.
LEMMA HeldStep ==
  ASSUME ConsoleAssumption, AnswerInv, UNCHANGED <<intents, applied, settled, gate, pos>>,
         status # "cancelled", status' \in {"queued", "running"},
         turn' # None => \A s \in OpenAnswers : s > applied => s <= turn'.human
  PROVE  AllMeet'
<1>1. OpenAnswers' = OpenAnswers /\ Routes' = Routes
  BY DEF OpenAnswers, Answers, Routes
<1>2. ASSUME NEW s \in OpenAnswers PROVE Meets(s)'
  <2>1. Meets(s)
    BY DEF AnswerInv, AllMeet
  <2>2. s > applied => Stands(s)'
    BY <2>1, <1>1 DEF Meets, Stands
  <2> QED BY <2>1, <2>2 DEF Meets, Settled
<1> QED BY <1>1, <1>2 DEF AllMeet

\* A cancel uses up whatever was said before it.
LEMMA CancelledStep ==
  ASSUME ConsoleAssumption, AnswerInv, UNCHANGED <<intents, settled, gate, pos>>,
         status' = "cancelled", turn' = None, applied' \in Nat, applied <= applied'
  PROVE  AllMeet'
<1>1. OpenAnswers' = OpenAnswers /\ Routes' = Routes
  BY DEF OpenAnswers, Answers, Routes
<1>2. ASSUME NEW s \in OpenAnswers PROVE Meets(s)'
  <2>1. Meets(s) /\ s \in Nat /\ applied \in Nat
    BY InRange DEF AnswerInv, AllMeet
  <2>2. s > applied' => Stands(s)'
    BY <2>1, <1>1 DEF Meets, Stands
  <2> QED BY <2>1, <2>2 DEF Meets
<1> QED BY <1>1, <1>2 DEF AllMeet

\* Folds, when no turn is left and none has settled a gate.
LEMMA FoldsSpent ==
  ASSUME ConsoleAssumption, AnswerInv, turn' = None, settled' = settled, applied' \in Nat, applied <= applied'
  PROVE  Folds'
<1>1. \A c \in settled : c.answer \in Nat
  BY DEF AnswerInv, TypeOK, ConsoleAssumption
<1> QED BY <1>1, InRange DEF AnswerInv, Folds


LEMMA WakeStep == ASSUME ConsoleAssumption, AnswerInv, Wake PROVE AnswerInv'
<1>1. UNCHANGED <<pos, gate, intents, turn, settled, terminal, page, request>>
  BY DEF Wake, WakeCancel, WakeHuman, WakeResume, WakeAutoResume, WakeUnquarantine, engine, web
<1>2. turn = None
  BY DEF Wake, WakeCancel, WakeHuman, WakeResume, WakeAutoResume, WakeUnquarantine, Resting, AnswerInv, TypeOK
<1>3. gate' \in Nat /\ gate <= gate' /\ applied \in Nat
  BY <1>1, InRange
<1>4. ASSUME applied' \in applied .. Len(intents), status' \in {"queued", "cancelled"}, AllMeet'
      PROVE  AnswerInv'
  <2>1. applied' \in Nat /\ applied <= applied' /\ applied' <= Len(intents)
    BY <1>4, InRange
  <2>2. TypeOK'
    BY <2>1, <1>1, <1>2, <1>4, InRange DEF AnswerInv, TypeOK, Ended
  <2>3. Folds'
    BY <2>1, <1>1, <1>2, FoldsSpent
  <2> QED BY <2>2, <2>3, <1>1, <1>3, <1>4, EngineStep
<1>5. CASE WakeCancel
  <2>1. applied' \in applied .. Len(intents) /\ status' = "cancelled"
    BY <1>5, FirstPending DEF WakeCancel, Goto
  <2>2. applied' \in Nat /\ applied <= applied'
    BY <2>1, InRange
  <2>3. AllMeet'
    BY <2>1, <2>2, <1>1, <1>2, CancelledStep
  <2> QED BY <2>1, <2>3, <1>4
<1>6. CASE WakeHuman \/ WakeResume \/ WakeAutoResume
  <2>1. applied' = applied /\ status' = "queued" /\ status # "cancelled"
    BY <1>6 DEF WakeHuman, WakeResume, WakeAutoResume, Goto, Resting
  <2>2. AllMeet'
    BY <2>1, <1>1, <1>2, HeldStep
  <2>3. applied' \in applied .. Len(intents)
    BY <2>1, InRange
  <2> QED BY <2>1, <2>2, <2>3, <1>4
<1>7. CASE WakeUnquarantine
  <2>1. /\ status = "quarantined" /\ status' \in {"queued", "cancelled"}
        /\ applied' \in applied .. Len(intents)
    BY <1>7, FirstPending DEF WakeUnquarantine, Goto
  <2>2. \A s \in OpenAnswers : ~Stands(s)
    BY <2>1 DEF Stands
  <2>3. applied' \in Nat /\ applied <= applied'
    BY <2>1, InRange
  <2>4. AllMeet'
    BY <2>1, <2>2, <2>3, <1>1, <1>3, SpentStep
  <2> QED BY <2>1, <2>4, <1>4
<1> QED BY <1>5, <1>6, <1>7 DEF Wake

LEMMA ClaimStep == ASSUME ConsoleAssumption, AnswerInv, Claim PROVE AnswerInv'
<1>1. /\ UNCHANGED <<pos, gate, intents, applied, turn, settled, terminal, page, request>>
      /\ status = "queued" /\ status' = "running"
  BY DEF Claim, Goto, engine, web
<1>2. turn = None
  BY <1>1 DEF AnswerInv, TypeOK
<1>3. TypeOK' /\ Folds'
  BY <1>1, <1>2 DEF AnswerInv, TypeOK, Folds
<1>4. AllMeet'
  BY <1>1, <1>2, HeldStep
<1>5. gate' \in Nat /\ gate <= gate'
  BY <1>1, InRange
<1> QED BY <1>1, <1>3, <1>4, <1>5, EngineStep

LEMMA FoldStep ==
  ASSUME ConsoleAssumption, AnswerInv, FoldCancel \/ FoldPause \/ FoldProceed PROVE AnswerInv'
<1>1. /\ UNCHANGED <<pos, gate, intents, settled, terminal, page, request>>
      /\ status = "running" /\ turn = None
  BY DEF FoldCancel, FoldPause, FoldProceed, AtBoundary, engine, run, web
<1>2. gate' \in Nat /\ gate <= gate' /\ applied \in Nat /\ applied <= Len(intents) /\ Len(intents) \in Nat
  BY <1>1, InRange
<1>3. CASE FoldCancel \/ FoldPause
  <2>1. turn' = None /\ applied' = Len(intents) /\ status' \in {"cancelled", "paused"}
    BY <1>1, <1>3 DEF FoldCancel, FoldPause, Goto, engine
  <2>2. TypeOK'
    BY <2>1, <1>1, <1>2 DEF AnswerInv, TypeOK, Ended, Resting
  <2>3. Folds'
    BY <2>1, <1>1, <1>2, FoldsSpent
  <2>4. AllMeet'
    <3>1. CASE FoldCancel
      <4>1. status' = "cancelled"
        BY <3>1 DEF FoldCancel, Goto
      <4> QED BY <4>1, <2>1, <1>1, <1>2, CancelledStep
    <3>2. CASE FoldPause
      <4>1. \A s \in OpenAnswers : ~(s > applied)
        BY <3>2, InRange DEF FoldPause
      <4> QED BY <4>1, <2>1, <1>1, <1>2, SpentStep
    <3> QED BY <1>3, <3>1, <3>2
  <2> QED BY <2>1, <2>2, <2>3, <2>4, <1>1, <1>2, EngineStep
<1>4. CASE FoldProceed
  <2>1. turn' = Folded /\ UNCHANGED <<status, applied>>
    BY <1>4 DEF FoldProceed, run
  <2>2. turn'.upTo = Len(intents) /\ turn'.human = IF Pending("human") = {} THEN 0 ELSE Last(Pending("human"))
    BY <2>1 DEF Folded
  <2>3. Pending("human") # {} =>
           turn'.human \in Pending("human") /\ \A x \in Pending("human") : x <= turn'.human
    BY <2>2, InRange, LastIs
  <2>4. turn'.human \in 0 .. Len(intents)
    BY <2>2, <2>3, <1>2 DEF Pending
  <2>5. turn'.human # 0 => turn'.human > applied /\ intents[turn'.human].kind = "human"
    BY <2>2, <2>3, <1>2 DEF Pending
  <2>6. TypeOK'
    BY <2>1, <2>2, <1>1, <1>2 DEF AnswerInv, TypeOK
  <2>7. Folds'
    BY <2>1, <2>2, <2>4, <2>5, <1>1 DEF AnswerInv, Folds
  <2>8. \A s \in OpenAnswers : s > applied => s <= turn'.human
    BY <2>3, InRange
  <2>9. AllMeet'
    BY <2>1, <2>8, <1>1, HeldStep
  <2> QED BY <2>1, <2>6, <2>7, <2>9, <1>1, <1>2, EngineStep
<1> QED BY <1>3, <1>4


\* A handler's commit in a turn that folded no answer a gate waits for.
LEMMA CommitsSpent ==
  ASSUME ConsoleAssumption, AnswerInv, turn # None, Routes = {} \/ turn.human = 0,
         UNCHANGED <<intents, settled, terminal, page, request>>,
         applied' = turn.upTo, turn' = None, gate' \in gate .. MaxGates,
         pos' \in 0 .. Len(Flow), status' \in {"queued", "running"} \union Resting \union Ended,
         status' = "paused_human" => gate' > 0 /\ Routes' # {}
  PROVE  AnswerInv'
<1>1. /\ applied \in Nat /\ applied' \in Nat /\ applied <= applied' /\ applied' <= Len(intents)
      /\ Len(intents) \in Nat
  BY InRange
<1>2. gate' \in Nat /\ gate <= gate' /\ gate' \in 0 .. MaxGates
  BY InRange DEF ConsoleAssumption
<1>3. status = "running"
  BY DEF AnswerInv, TypeOK
<1>4. TypeOK'
  BY <1>1, <1>2 DEF AnswerInv, TypeOK
<1>5. Folds'
  BY <1>1, FoldsSpent
<1>6. ASSUME NEW s \in OpenAnswers PROVE ~(s > applied /\ Stands(s))
  <2>1. CASE Routes = {}
    BY <2>1 DEF Stands
  <2>2. CASE turn.human = 0
    BY <2>2, <1>1, InRange DEF Stands
  <2> QED BY <2>1, <2>2
<1>7. AllMeet'
  BY <1>1, <1>2, <1>3, <1>6, SpentStep
<1> QED BY <1>2, <1>4, <1>5, <1>7, EngineStep

LEMMA HandlerStep ==
  ASSUME ConsoleAssumption, AnswerInv, StartRun \/ YieldHuman \/ StepDone \/ StepParks \/ StepAborts
  PROVE  AnswerInv'
<1>1. /\ UNCHANGED <<intents, settled, terminal, page, request>>
      /\ turn # None /\ applied' = turn.upTo /\ turn' = None
  BY DEF StartRun, YieldHuman, StepDone, StepParks, StepAborts, web, run
<1>2. status = "running" /\ pos \in 0 .. Len(Flow) /\ Len(Flow) \in Nat /\ Len(Flow) > 0 /\ gate \in 0 .. MaxGates
  BY <1>1 DEF AnswerInv, TypeOK, ConsoleAssumption
<1>3. gate \in gate .. MaxGates /\ gate \in Nat /\ MaxGates \in Nat
  BY <1>2 DEF ConsoleAssumption
<1> DEFINE Known == {"queued", "running"} \union Resting \union Ended
<1>4. CASE StartRun
  <2>1. pos = 0 /\ pos' = 1 /\ status' = status /\ gate' = gate
    BY <1>4 DEF StartRun
  <2>2. Routes = {} /\ pos' \in 0 .. Len(Flow) /\ status' # "paused_human"
    BY <2>1, <1>2 DEF Routes
  <2> QED BY <2>1, <2>2, <1>1, <1>2, <1>3, CommitsSpent
<1>5. CASE YieldHuman
  <2>1. turn.human = 0 /\ gate' = gate + 1 /\ gate < MaxGates /\ pos' = pos /\ status' = "paused_human" /\ Routes # {}
    BY <1>5 DEF YieldHuman, Goto
  <2>2. gate' \in gate .. MaxGates /\ gate' > 0 /\ Routes' # {}
    BY <2>1, <1>3 DEF Routes
  <2>3. status' \in Known
    BY <2>1 DEF Resting
  <2> QED BY <2>1, <2>2, <2>3, <1>1, <1>2, CommitsSpent
<1>6. CASE StepDone
  <2>1. Routes = {} /\ gate' = gate /\ Advance
    BY <1>6 DEF StepDone
  <2>2. pos' \in 0 .. Len(Flow)
    BY <2>1, <1>2 DEF Advance
  <2>3. status' \in {"completed", "paused", "running"}
    BY <2>1, <1>2 DEF Advance, Goto
  <2>4. status' \in Known /\ status' # "paused_human"
    BY <2>3 DEF Resting, Ended
  <2> QED BY <2>1, <2>2, <2>4, <1>1, <1>3, CommitsSpent
<1>7. CASE StepParks \/ StepAborts
  <2>1. Routes = {} /\ gate' = gate /\ pos' = pos /\ status' \in {"running", "paused", "paused_auto"}
    BY <1>7, <1>2 DEF StepParks, StepAborts, Goto, run
  <2>2. status' \in Known /\ status' # "paused_human"
    BY <2>1 DEF Resting, Ended
  <2> QED BY <2>1, <2>2, <1>1, <1>2, <1>3, CommitsSpent
<1> QED BY <1>4, <1>5, <1>6, <1>7

\* The gate takes the last answer its turn folded, and every answer that
\* waited is of this gate and no later than that one.
LEMMA TakeRouteStep == ASSUME ConsoleAssumption, AnswerInv, TakeRoute PROVE AnswerInv'
<1> DEFINE h == turn.human
           c0 == [answer |-> h, gate |-> gate]
<1>1. /\ UNCHANGED <<gate, intents, terminal, page, request>>
      /\ turn # None /\ Routes # {} /\ h # 0
      /\ settled' = settled \union {c0} /\ applied' = turn.upTo /\ turn' = None
  BY DEF TakeRoute, web
<1>2. status = "running"
  BY <1>1 DEF AnswerInv, TypeOK
<1>3. /\ applied \in Nat /\ applied' \in Nat /\ applied <= applied' /\ applied' <= Len(intents)
      /\ Len(intents) \in Nat /\ gate \in Nat /\ Len(intents) <= MaxIntents /\ MaxIntents \in Nat
  BY <1>1, InRange
<1>4. h \in Nat /\ h > applied /\ h <= applied' /\ intents[h].kind = "human"
  BY <1>1, <1>3 DEF AnswerInv, Folds
<1>5. gate > 0
  <2>1. h \in Answers
    BY <1>3, <1>4 DEF Answers
  <2> QED BY <2>1 DEF AnswerInv, GateShown
<1>6. pos' \in 0 .. Len(Flow) /\ status' \in {"completed", "paused", "running", "halted"}
  <2>1. pos \in 0 .. Len(Flow) /\ Len(Flow) \in Nat
    BY DEF AnswerInv, TypeOK, ConsoleAssumption
  <2>2. Advance \/ (status' = "halted" /\ pos' = pos)
    BY DEF TakeRoute, Goto
  <2>3. Advance => pos' \in 0 .. Len(Flow)
    BY <2>1 DEF Advance
  <2>4. Advance => status' \in {"completed", "paused", "running"}
    BY <1>2 DEF Advance, Goto
  <2> QED BY <2>1, <2>2, <2>3, <2>4
<1>7. TypeOK'
  <2>1. gate \in 1 .. MaxGates /\ h \in 1 .. MaxIntents
    BY <1>3, <1>4, <1>5 DEF AnswerInv, TypeOK, ConsoleAssumption
  <2>2. settled' \subseteq [answer : 1 .. MaxIntents, gate : 1 .. MaxGates]
    BY <2>1, <1>1 DEF AnswerInv, TypeOK
  <2>3. status' \in {"queued", "running"} \union Resting \union Ended
    BY <1>6 DEF Resting, Ended
  <2> QED BY <2>2, <2>3, <1>1, <1>3, <1>6 DEF AnswerInv, TypeOK
<1>8. Folds'
  <2>1. \A c \in settled : c.answer \in Nat /\ c.answer <= applied
    BY <1>3 DEF AnswerInv, TypeOK, Folds
  <2>2. \A c \in settled' : c.answer <= applied'
    BY <2>1, <1>1, <1>3, <1>4
  <2> QED BY <2>2, <1>1 DEF Folds
<1>9. ASSUME NEW s \in OpenAnswers PROVE Meets(s)'
  <2>1. Meets(s) /\ s \in Nat
    BY InRange DEF AnswerInv, AllMeet
  <2>2. s > applied => intents[s].gate = gate /\ s <= h
    BY <2>1, <1>1 DEF Meets, Stands
  <2>3. s <= applied'
    BY <2>1, <2>2, <1>3, <1>4
  <2>4. Settled(intents[s].gate)'
    <3>1. CASE s > applied
      <4>1. c0 \in settled' /\ c0.gate = gate
        BY <1>1
      <4> QED BY <3>1, <4>1, <2>2, <1>1 DEF Settled
    <3>2. CASE s <= applied
      <4>1. Settled(intents[s].gate)
        BY <3>2, <2>1, <1>2 DEF Meets
      <4> QED BY <4>1, <1>1 DEF Settled
    <3> QED BY <3>1, <3>2, <2>1, <1>3
  <2>5. \A c \in settled' : c.answer = s => c.gate = intents[s].gate
    BY <2>1, <2>2, <1>1, <1>4 DEF Meets
  <2>6. ~(s > applied')
    BY <2>1, <2>3, <1>3
  <2> QED BY <2>1, <2>3, <2>4, <2>5, <2>6, <1>1 DEF Meets
<1>10. AllMeet'
  <2>1. OpenAnswers' = OpenAnswers
    BY <1>1 DEF OpenAnswers, Answers
  <2> QED BY <2>1, <1>9 DEF AllMeet
<1>11. gate' \in Nat /\ gate <= gate' /\ status' # "paused_human"
  BY <1>1, <1>3, <1>6
<1> QED BY <1>1, <1>7, <1>8, <1>10, <1>11, EngineStep

LEMMA CrashStep == ASSUME ConsoleAssumption, AnswerInv, Crash PROVE AnswerInv'
<1>1. /\ UNCHANGED <<gate, intents, applied, settled, terminal, page, request>>
      /\ status = "running" /\ turn' = None
  BY DEF Crash, web
<1>2. gate' \in Nat /\ gate <= gate' /\ applied' \in Nat /\ applied <= applied'
  BY <1>1, InRange
<1>3. \/ status' = "queued" /\ pos' = pos
      \/ status' = "quarantined" /\ pos' = 0 /\ Routes = {}
  BY DEF Crash, Goto
<1>4. TypeOK'
  <2>1. pos' \in 0 .. Len(Flow)
    BY <1>3 DEF AnswerInv, TypeOK, ConsoleAssumption
  <2> QED BY <2>1, <1>1, <1>3 DEF AnswerInv, TypeOK, Resting
<1>5. Folds'
  BY <1>1, <1>2, FoldsSpent
<1>6. AllMeet'
  <2>1. CASE status' = "queued" /\ pos' = pos
    BY <2>1, <1>1, HeldStep
  <2>2. CASE status' = "quarantined" /\ Routes = {}
    <3>1. \A s \in OpenAnswers : ~Stands(s)
      BY <2>2 DEF Stands
    <3> QED BY <3>1, <1>1, <1>2, SpentStep
  <2> QED BY <1>3, <2>1, <2>2
<1> QED BY <1>1, <1>2, <1>3, <1>4, <1>5, <1>6, EngineStep


LEMMA AnswerStep == ASSUME ConsoleAssumption, AnswerInv, [Next]_vars PROVE AnswerInv'
<1>1. CASE UNCHANGED vars
  <2>1. UNCHANGED <<status, pos, gate, intents, applied, turn, settled, terminal, page, request>>
    BY <1>1 DEF vars, run, engine, web
  <2>2. Posts'
    BY <2>1 DEF AnswerInv, Posts
  <2> QED BY <2>1, <2>2, AsideStep
<1>2. CASE Operator \/ Page
  BY <1>2, OperatorStep, PageStep
<1>3. CASE Wake \/ Turn \/ Crash
  BY <1>3, WakeStep, ClaimStep, FoldStep, HandlerStep, TakeRouteStep, CrashStep DEF Turn, Handler
<1> QED BY <1>1, <1>2, <1>3 DEF Next

LEMMA AnswerInvariant == ASSUME ConsoleAssumption PROVE Spec => []AnswerInv
<1>1. Init => AnswerInv
  BY InitAnswers
<1>2. AnswerInv /\ [Next]_vars => AnswerInv'
  BY AnswerStep
<1> QED BY <1>1, <1>2, PTL DEF Spec

\* Whatever operators and pages commit and whenever the daemon dies, the state
\* keeps its types: the watermark stays within the log, a dispatch in flight
\* belongs to a running run and has folded no more than the log holds, and a
\* settled gate names an answer and a gate there were (plane.ts, wake-pending.ts).
THEOREM ConsoleTypeCorrect == ASSUME ConsoleAssumption PROVE Spec => []TypeOK
<1>1. AnswerInv => TypeOK
  BY DEF AnswerInv
<1> QED BY <1>1, AnswerInvariant, PTL

\* For any flow of gates and steps, any operators and any number of intents: an
\* answer committed while its gate is open is consumed by that gate or by none,
\* and is never used up before its gate is settled or the run cancelled. The
\* wake leaves the answer to the fold (wakeHuman), and the fold keeps a pause
\* that comes with an answer for after the dispatch (foldIntents).
THEOREM AnswerMeetsItsGateHolds == ASSUME ConsoleAssumption PROVE Spec => []AnswerMeetsItsGate
<1>1. AnswerInv => AnswerMeetsItsGate
  BY DEF AnswerInv, AllMeet, Meets, AnswerMeetsItsGate
<1> QED BY <1>1, AnswerInvariant, PTL


----------------------------------------------------------------------------
(* The page of one run: the inductive invariant.                           *)

\* Every event up to n is in the snapshot or was heard.
Seen(n) == \A i \in 1 .. n : i <= snap.seq \/ i \in got

\* Before the first snapshot nothing was heard; the stream is keyed by the
\* watermark, and what it has delivered leaves no hole above it.
Streamed ==
    /\ snap.seq = None => es.url = None /\ got = {} /\ live.frames = << >>
    /\ es.url # None => es.url = snap.seq /\ ~snap.terminal
    /\ es.lastId # None => es.url # None /\ Seen(es.lastId)
    /\ conn.pc # "off" => es.url # None /\ snap.seq <= conn.cursor /\ Seen(conn.cursor)
    /\ conn.pc = "write" => \A i \in DOMAIN conn.queue : conn.queue[i] = conn.cursor + i
    /\ snap.seq # None /\ req # None /\ req.seq # None => snap.seq <= req.seq
    /\ \A j \in got : Seen(j)

Ascending(f) == \A i, j \in DOMAIN f : i < j => f[i] < f[j]

\* The cost frames held are those heard above the watermark, in order.
Costed ==
    /\ Ascending(live.frames)
    /\ \A k \in DOMAIN live.frames :
          live.frames[k] \in got /\ log[live.frames[k]] = "cost" /\ live.frames[k] > snap.seq
    /\ \A s \in got : log[s] = "cost" /\ s > snap.seq => \E k \in DOMAIN live.frames : live.frames[k] = s

\* A row counts events that are in the log, and a snapshot's log was read after its
\* row: what the row counts is below the watermark, and is a cost.
Rowed ==
    /\ total \subseteq R!CostsUpTo(Len(log))
    /\ req # None => req.cost \subseteq R!CostsUpTo(Len(log))
    /\ req # None /\ req.seq # None => req.cost \subseteq R!CostsUpTo(req.seq)
    /\ snap.seq # None => snap.cost \subseteq R!CostsUpTo(snap.seq)

StreamInv == R!TypeOK /\ Streamed /\ Costed /\ Rowed

----------------------------------------------------------------------------
\* Of numbers with a bound the greatest is among them.
LEMMA GreatestOf ==
    ASSUME NEW b \in Nat, NEW T \in SUBSET (0 .. b), T # {}
    PROVE  R!Max(T) \in T /\ \A y \in T : y <= R!Max(T)
<1>1. \E x \in T : \A y \in T : y <= x
  BY LastIs
<1> QED BY <1>1 DEF R!Max

LEMMA InitStream == R!StreamAssumption /\ R!Init => StreamInv
<1> SUFFICES ASSUME R!StreamAssumption, R!Init PROVE StreamInv
  OBVIOUS
<1> USE DEF R!Init, R!NoConn, R!Shut, R!Loading, R!NoFrames, R!NoRows, R!StreamAssumption
<1>1. R!TypeOK
  BY DEF R!TypeOK, R!Events, R!Watermarks, R!Requests, R!Fetches
<1>2. Streamed
  BY DEF Streamed, Seen
<1>3. Costed
  BY DEF Costed, Ascending
<1>4. Rowed
  BY DEF Rowed
<1> QED BY <1>1, <1>2, <1>3, <1>4 DEF StreamInv

LEMMA RecordStep ==
    ASSUME R!StreamAssumption, StreamInv, NEW k \in R!Kinds, R!Record(k) PROVE StreamInv'
<1> USE DEF R!Record, StreamInv
<1>1. /\ log' \in Seq(R!Kinds) /\ Len(log') = Len(log) + 1 /\ Len(log') <= MaxLog
      /\ \A i \in 1 .. Len(log) : log'[i] = log[i]
      /\ R!Events \subseteq R!Events' /\ R!Watermarks \subseteq R!Watermarks'
      /\ Len(log) \in Nat
  BY DEF R!TypeOK, R!Events, R!Watermarks, R!StreamAssumption
<1>r. total' \subseteq R!CostsUpTo(Len(log))
  <2>1. CASE k \in {"done", "end"}
    <3>1. PICK new \in SUBSET (R!CostsUpTo(Len(log)) \ total) : total' = total \cup new
      BY <2>1 DEF R!Projects
    <3> QED BY <3>1 DEF Rowed
  <2>2. CASE k \notin {"done", "end"}
    BY <2>2 DEF R!Projects, Rowed
  <2> QED BY <2>1, <2>2
<1>e. R!CostsUpTo(Len(log)) \subseteq R!Events
  BY DEF R!CostsUpTo, R!Events
<1>2. R!TypeOK'
  <2>1. total' \subseteq R!Events'
    BY <1>1, <1>r, <1>e
  <2>2. snap' \in [seq : R!Watermarks' \cup {None}, terminal : BOOLEAN, cost : SUBSET R!Events', reads : 0..MaxReads]
    BY <1>1 DEF R!TypeOK
  <2>3. req' \in R!Requests' \cup {None}
    BY <1>1 DEF R!TypeOK, R!Requests
  <2> QED BY <1>1, <2>1, <2>2, <2>3 DEF R!TypeOK, R!Fetches
<1>3. Streamed'
  BY DEF Streamed, Seen
<1>4. got \subseteq 1 .. Len(log)
  BY DEF R!TypeOK, R!Events
<1>5. Costed'
  BY <1>1, <1>4 DEF Costed, Ascending
<1>6. ASSUME NEW n \in 0 .. Len(log), NEW C, C \subseteq R!CostsUpTo(n)
      PROVE  C \subseteq {i \in 1 .. n : log'[i] = "cost"} /\ C \subseteq {i \in 1 .. Len(log) + 1 : log'[i] = "cost"}
  BY <1>1, <1>6 DEF R!CostsUpTo
<1>7. Rowed'
  <2>1. total' \subseteq {i \in 1 .. Len(log') : log'[i] = "cost"}
    BY <1>1, <1>6, <1>r
  <2>2. req # None => req.cost \subseteq {i \in 1 .. Len(log') : log'[i] = "cost"}
    BY <1>1, <1>6 DEF Rowed
  <2>3. req # None /\ req.seq # None => req.cost \subseteq {i \in 1 .. req.seq : log'[i] = "cost"}
    <3>1. req # None /\ req.seq # None => req.seq \in 0 .. Len(log)
      BY DEF R!TypeOK, R!Requests, R!Watermarks
    <3> QED BY <1>6, <3>1 DEF Rowed
  <2>4. snap.seq # None => snap.cost \subseteq {i \in 1 .. snap.seq : log'[i] = "cost"}
    <3>1. snap.seq # None => snap.seq \in 0 .. Len(log)
      BY DEF R!TypeOK, R!Watermarks
    <3> QED BY <1>6, <3>1 DEF Rowed
  <2> QED BY <2>1, <2>2, <2>3, <2>4 DEF Rowed, R!CostsUpTo
<1> QED BY <1>2, <1>3, <1>5, <1>7

LEMMA ReadRowStep ==
    ASSUME R!StreamAssumption, StreamInv, R!ReadRow PROVE StreamInv'
<1> USE DEF R!ReadRow, StreamInv
<1>1. R!Settled(log) \in BOOLEAN
  BY DEF R!Settled
<1>2. R!TypeOK'
  <2>1. req' \in R!Requests
    BY <1>1 DEF R!TypeOK, R!Requests, R!Watermarks
  <2>2. snap' \in [seq : R!Watermarks \cup {None}, terminal : BOOLEAN, cost : SUBSET R!Events, reads : 0..MaxReads]
    <3>1. /\ snap \in [seq : R!Watermarks \cup {None}, terminal : BOOLEAN, cost : SUBSET R!Events, reads : 0..MaxReads]
          /\ snap' = [snap EXCEPT !.reads = snap.reads + 1] /\ snap.reads < MaxReads
      BY DEF R!TypeOK
    <3>2. snap.reads + 1 \in 0 .. MaxReads
      BY <3>1 DEF R!StreamAssumption
    <3> QED BY <3>1, <3>2
  <2> QED BY <2>1, <2>2 DEF R!TypeOK, R!Requests, R!Watermarks, R!Events, R!Fetches
<1>3. /\ snap'.seq = snap.seq /\ snap'.cost = snap.cost /\ snap'.terminal = snap.terminal
      /\ req'.seq = None /\ req'.cost = total
  BY DEF R!TypeOK
<1>4. Streamed'
  BY <1>3 DEF Streamed, Seen
<1>5. Costed'
  BY <1>3 DEF Costed, Ascending
<1>6. Rowed'
  BY <1>3 DEF Rowed, R!CostsUpTo
<1> QED BY <1>2, <1>4, <1>5, <1>6

LEMMA ReadLogStep ==
    ASSUME R!StreamAssumption, StreamInv, R!ReadLog PROVE StreamInv'
<1> USE DEF R!ReadLog, StreamInv
<1>1. req # None /\ req \in R!Requests /\ Len(log) \in R!Watermarks
  BY DEF R!TypeOK, R!Watermarks
<1>2. /\ req' = [req EXCEPT !.seq = Len(log)] /\ req' \in R!Requests
      /\ req'.seq = Len(log) /\ req'.cost = req.cost /\ UNCHANGED <<log, total, conn, es, snap, live, msgs, got>>
  BY <1>1 DEF R!Requests
<1>3. R!TypeOK'
  BY <1>2 DEF R!TypeOK, R!Events, R!Watermarks, R!Requests, R!Fetches
<1>4. snap.seq # None => snap.seq <= Len(log)
  BY DEF R!TypeOK, R!Watermarks
<1>5. Streamed'
  BY <1>2, <1>4 DEF Streamed, Seen
<1>6. Costed'
  BY <1>2 DEF Costed, Ascending
<1>7. Rowed'
  BY <1>1, <1>2 DEF Rowed, R!CostsUpTo
<1> QED BY <1>3, <1>5, <1>6, <1>7

\* What is kept after a prune.
LEMMA PrunedFrames ==
    ASSUME NEW f \in Seq(Nat), Ascending(f), NEW c \in Nat
    PROVE  /\ R!Pruned(f, c) \in Seq(Nat) /\ Ascending(R!Pruned(f, c))
           /\ \A k \in DOMAIN R!Pruned(f, c) :
                 R!Pruned(f, c)[k] > c /\ \E i \in DOMAIN f : f[i] = R!Pruned(f, c)[k]
           /\ \A i \in DOMAIN f : f[i] > c => \E k \in DOMAIN R!Pruned(f, c) : R!Pruned(f, c)[k] = f[i]
<1> DEFINE above == {i \in DOMAIN f : f[i] > c}
           p == R!Pruned(f, c)
<1>1. CASE above = {}
  BY <1>1 DEF R!Pruned, Ascending
<1>2. CASE above # {}
  <2>1. above \subseteq Nat /\ DOMAIN f = 1 .. Len(f) /\ Len(f) \in Nat
    OBVIOUS
  <2>2. PICK m \in above : \A y \in above : m <= y
    BY <1>2, <2>1, FirstIs
  <2>3. R!Min(above) = m
    <3>1. R!Min(above) \in above /\ \A y \in above : R!Min(above) <= y
      BY <2>2 DEF R!Min
    <3>2. R!Min(above) \in Nat /\ m \in Nat
      BY <2>1, <2>2, <3>1
    <3>3. m <= R!Min(above) /\ R!Min(above) <= m
      BY <2>2, <3>1
    <3> HIDE DEF above
    <3> QED BY <3>2, <3>3
  <2>4. m \in 1 .. Len(f) /\ f[m] > c
    BY <2>1, <2>2
  <2>p. p = SubSeq(f, m, Len(f))
    BY <1>2, <2>3 DEF R!Pruned
  <2>m. \A i \in DOMAIN f : f[i] > c => m <= i
    BY <2>2
  <2> HIDE DEF p, above
  <2>5. p \in Seq(Nat) /\ Len(p) = Len(f) - m + 1 /\ \A k \in 1 .. Len(p) : p[k] = f[m + k - 1]
    BY <2>1, <2>4, <2>p
  <2>6. \A i \in m .. Len(f) : f[i] > c
    <3> TAKE i \in m .. Len(f)
    <3>1. i \in DOMAIN f /\ m \in DOMAIN f /\ f[i] \in Nat /\ f[m] \in Nat
      BY <2>1, <2>4
    <3>2. i = m \/ f[m] < f[i]
      BY <2>4, <3>1 DEF Ascending
    <3> QED BY <2>4, <3>1, <3>2
  <2>d. DOMAIN p = 1 .. Len(p) /\ \A k \in 1 .. Len(p) : m + k - 1 \in m .. Len(f) /\ m + k - 1 \in DOMAIN f
    BY <2>1, <2>4, <2>5
  <2>7. Ascending(p)
    <3> SUFFICES ASSUME NEW i \in DOMAIN p, NEW j \in DOMAIN p, i < j PROVE p[i] < p[j]
      BY DEF Ascending
    <3>1. m + i - 1 < m + j - 1
      BY <2>4, <2>d
    <3> QED BY <2>5, <2>d, <3>1 DEF Ascending
  <2>8. \A k \in DOMAIN p : p[k] > c /\ \E i \in DOMAIN f : f[i] = p[k]
    BY <2>5, <2>6, <2>d
  <2>9. ASSUME NEW i \in DOMAIN f, f[i] > c PROVE \E k \in DOMAIN p : p[k] = f[i]
    <3>1. m <= i
      BY <2>m, <2>9
    <3>2. i - m + 1 \in 1 .. Len(p) /\ m + (i - m + 1) - 1 = i
      BY <2>1, <2>4, <2>5, <3>1
    <3> QED BY <2>5, <2>d, <3>2
  <2> QED BY <2>5, <2>7, <2>8, <2>9 DEF p
<1> QED BY <1>1, <1>2

LEMMA TakeSnapshotStep ==
    ASSUME R!StreamAssumption, StreamInv, R!TakeSnapshot PROVE StreamInv'
<1> DEFINE flips == snap.seq = None \/ snap.terminal # req.terminal
<1> USE DEF StreamInv
<1>1. /\ req # None /\ req \in R!Requests /\ req.seq \in R!Watermarks /\ req.seq \in Nat
      /\ req.cost \subseteq R!Events
      /\ req.terminal \in BOOLEAN /\ req.seq # None /\ req.seq <= Len(log)
  BY DEF R!TakeSnapshot, R!TypeOK, R!Requests, R!Watermarks, R!StreamAssumption
<1>2. /\ snap'.seq = req.seq /\ snap'.terminal = req.terminal /\ snap'.cost = req.cost
      /\ snap' \in [seq : R!Watermarks \cup {None}, terminal : BOOLEAN, cost : SUBSET R!Events, reads : 0..MaxReads]
      /\ req' = None /\ log' = log /\ total' = total
  BY <1>1 DEF R!TakeSnapshot, R!TypeOK
<1>3. /\ R!Url(req) \in R!Watermarks \cup {None}
      /\ R!Url(req) # None => R!Url(req) = req.seq /\ ~req.terminal
      /\ R!Url(req) = None => req.terminal
  BY <1>1 DEF R!Url
<1>4. \/ es' = es /\ conn' = conn /\ es.url = R!Url(req)
      \/ /\ es' = [es EXCEPT !.url = R!Url(req), !.lastId = None] /\ conn' = R!NoConn
         /\ es.url # R!Url(req)
  BY DEF R!TakeSnapshot
<1>5. /\ es' \in [url : R!Watermarks \cup {None}, lastId : R!Events \cup {None}, breaks : 0..MaxBreaks]
      /\ es'.url = R!Url(req)
      /\ (es' = es /\ conn' = conn /\ es.url = R!Url(req)) \/ (es'.lastId = None /\ conn'.pc = "off")
  <2>1. es \in [url : R!Watermarks \cup {None}, lastId : R!Events \cup {None}, breaks : 0..MaxBreaks]
    BY DEF R!TypeOK
  <2>2. R!NoConn.pc = "off"
    BY DEF R!NoConn
  <2> QED BY <1>3, <1>4, <2>1, <2>2
<1>6. conn' \in [pc : {"off", "fetch", "write"}, cursor : R!Watermarks, queue : Seq(R!Events), full : BOOLEAN]
  <2>1. R!NoConn \in [pc : {"off", "fetch", "write"}, cursor : R!Watermarks, queue : Seq(R!Events), full : BOOLEAN]
    BY DEF R!TypeOK, R!NoConn, R!Watermarks
  <2> QED BY <1>4, <2>1 DEF R!TypeOK
<1>r. Rowed'
  BY <1>1, <1>2 DEF Rowed, R!CostsUpTo
<1>7. CASE flips
  <2>1. /\ live' = [frames |-> << >>, buf |-> 0] /\ got' = {}
        /\ msgs' = [rows |-> 0, timer |-> FALSE, failed |-> FALSE, sent |-> msgs.sent + 1,
                    inFlight |-> {f \in msgs.inFlight : ~ f.boot}
                                   \cup {[id |-> msgs.sent + 1, boot |-> TRUE, rows |-> None]}]
    BY <1>7 DEF R!TakeSnapshot
  <2>2. live' \in [frames : Seq(R!Events), buf : R!Watermarks]
    BY <2>1 DEF R!Watermarks, R!TypeOK
  <2>3. msgs' \in [rows : Nat, timer : BOOLEAN, failed : BOOLEAN, sent : Nat, inFlight : SUBSET R!Fetches]
    <3>1. msgs \in [rows : Nat, timer : BOOLEAN, failed : BOOLEAN, sent : Nat, inFlight : SUBSET R!Fetches]
      BY DEF R!TypeOK
    <3>2. [id |-> msgs.sent + 1, boot |-> TRUE, rows |-> None] \in R!Fetches
      BY <3>1 DEF R!Fetches
    <3>3. {f \in msgs.inFlight : ~ f.boot} \cup {[id |-> msgs.sent + 1, boot |-> TRUE, rows |-> None]}
             \in SUBSET R!Fetches
      BY <3>1, <3>2
    <3> QED BY <2>1, <3>1, <3>3
  <2>4. R!TypeOK'
    BY <1>2, <1>5, <1>6, <2>1, <2>2, <2>3 DEF R!TypeOK, R!Events, R!Watermarks, R!Requests, R!Fetches
  <2>5. es.url # None => R!Url(req) # es.url
    <3>1. es.url # None => ~snap.terminal /\ snap.seq # None
      BY DEF Streamed
    <3>2. es.url # None => req.terminal
      BY <1>7, <3>1, <1>1 DEF R!TypeOK
    <3> QED BY <3>2, <1>3
  <2>6. conn'.pc = "off" /\ es'.lastId = None
    <3>1. CASE es.url = R!Url(req)
      <4>1. es.url = None /\ conn.pc = "off" /\ es' = es /\ conn' = conn
        BY <1>4, <2>5, <3>1 DEF Streamed
      <4>2. es.lastId = None
        BY <4>1 DEF Streamed
      <4> QED BY <4>1, <4>2
    <3>2. CASE es.url # R!Url(req)
      BY <1>5, <3>2
    <3> QED BY <3>1, <3>2
  <2>7. Streamed'
    BY <1>1, <1>2, <1>3, <1>5, <2>1, <2>6 DEF Streamed, Seen
  <2>8. Costed'
    BY <2>1 DEF Costed, Ascending
  <2> QED BY <1>r, <2>4, <2>7, <2>8
<1>8. CASE ~flips
  <2>1. /\ live' = [live EXCEPT !.frames = R!Pruned(@, req.seq)] /\ got' = got /\ msgs' = msgs
        /\ snap.seq # None /\ snap.terminal = req.terminal /\ snap.seq <= req.seq
        /\ snap.seq \in Nat
    BY <1>1, <1>8 DEF R!TakeSnapshot, Streamed, R!TypeOK, R!Watermarks
  <2> DEFINE f == live.frames
             p == R!Pruned(live.frames, req.seq)
  <2>2. f \in Seq(R!Events) /\ f \in Seq(Nat) /\ Ascending(f)
    BY DEF R!TypeOK, R!Events, Costed
  <2>3. /\ p \in Seq(Nat) /\ Ascending(p)
        /\ \A k \in DOMAIN p : p[k] > req.seq /\ \E i \in DOMAIN f : f[i] = p[k]
        /\ \A i \in DOMAIN f : f[i] > req.seq => \E k \in DOMAIN p : p[k] = f[i]
    BY <1>1, <2>2, PrunedFrames
  <2>4. live'.frames = p /\ live' = [live EXCEPT !.frames = p]
    BY <2>1 DEF R!TypeOK
  <2> HIDE DEF f, p
  <2>5. p \in Seq(R!Events)
    <3>1. \A k \in 1 .. Len(p) : p[k] \in R!Events
      BY <2>2, <2>3
    <3> QED BY <2>3, <3>1
  <2>6. R!TypeOK'
    BY <1>2, <1>5, <1>6, <2>1, <2>4, <2>5 DEF R!TypeOK, R!Events, R!Watermarks, R!Requests, R!Fetches
  <2>7. \A n \in Nat : Seen(n) => Seen(n)'
    BY <1>1, <1>2, <2>1 DEF Seen
  <2>8. Streamed'
    <3>1. es.url # None /\ es' = es => req.seq = snap.seq
      BY <1>3, <1>5 DEF Streamed
    <3>2. \A j \in got : j \in Nat
      BY DEF R!TypeOK, R!Events
    <3>3. es'.lastId # None => es' = es /\ es.lastId \in Nat
      BY <1>5 DEF R!TypeOK, R!Events
    <3>4. conn'.pc # "off" => es' = es /\ conn' = conn /\ conn.cursor \in Nat
      BY <1>5 DEF R!TypeOK, R!Watermarks
    <3>5. es'.url # None => es'.url = snap'.seq /\ ~snap'.terminal
      BY <1>2, <1>3, <1>5
    <3> QED BY <1>1, <1>2, <2>1, <2>7, <3>1, <3>2, <3>3, <3>4, <3>5 DEF Streamed
  <2>9. Costed'
    <3>1. Ascending(live'.frames)
      BY <2>3, <2>4
    <3>2. \A k \in DOMAIN live'.frames : live'.frames[k] \in got' /\ log'[live'.frames[k]] = "cost" /\ live'.frames[k] > snap'.seq
      BY <1>2, <2>1, <2>3, <2>4 DEF Costed, f
    <3>3. \A s \in got' : log'[s] = "cost" /\ s > snap'.seq => \E k \in DOMAIN live'.frames : live'.frames[k] = s
      <4> SUFFICES ASSUME NEW s \in got, log[s] = "cost", s > req.seq PROVE \E k \in DOMAIN p : p[k] = s
        BY <1>2, <2>1, <2>4
      <4>1. s > snap.seq
        BY <1>1, <2>1 DEF R!TypeOK, R!Events
      <4>2. PICK i \in DOMAIN f : f[i] = s
        BY <4>1 DEF Costed, f
      <4> QED BY <2>3, <4>2
    <3> QED BY <3>1, <3>2, <3>3 DEF Costed, Ascending
  <2> QED BY <1>r, <2>6, <2>8, <2>9
<1> QED BY <1>7, <1>8

\* The two bounds of a pair.
LEMMA PairBounds ==
    ASSUME NEW a \in Nat, NEW b \in Nat
    PROVE  /\ R!Max({a, b}) \in {a, b} /\ a <= R!Max({a, b}) /\ b <= R!Max({a, b})
           /\ R!Min({a, b}) \in {a, b} /\ R!Min({a, b}) <= a /\ R!Min({a, b}) <= b
<1>1. \E x \in {a, b} : \A y \in {a, b} : y <= x
  OBVIOUS
<1>2. \E x \in {a, b} : \A y \in {a, b} : x <= y
  OBVIOUS
<1>3. R!Max({a, b}) \in {a, b} /\ \A y \in {a, b} : y <= R!Max({a, b})
  BY <1>1 DEF R!Max
<1>4. R!Min({a, b}) \in {a, b} /\ \A y \in {a, b} : R!Min({a, b}) <= y
  BY <1>2 DEF R!Min
<1> QED BY <1>3, <1>4

LEMMA ConnectStep ==
    ASSUME R!StreamAssumption, StreamInv, R!Connect PROVE StreamInv'
<1> USE DEF StreamInv
<1> DEFINE c == R!SinceSeq(es.url, es.lastId)
<1>1. /\ es.url # None /\ es.url \in R!Watermarks /\ es.url \in Nat /\ snap.seq = es.url
      /\ conn' = [R!NoConn EXCEPT !.pc = "fetch", !.cursor = c]
      /\ UNCHANGED <<log, total, es, snap, req, live, msgs, got>>
  BY DEF R!Connect, Streamed, R!TypeOK, R!Watermarks
<1>2. c \in R!Watermarks /\ snap.seq <= c /\ Seen(c)
  <2>1. CASE es.lastId = None
    <3>1. c = snap.seq
      BY <1>1, <2>1 DEF R!SinceSeq
    <3> QED BY <1>1, <3>1 DEF Seen
  <2>2. CASE es.lastId # None
    <3>1. es.lastId \in R!Watermarks /\ es.lastId \in Nat /\ Seen(es.lastId)
      BY <2>2 DEF R!TypeOK, R!Events, R!Watermarks, Streamed
    <3>2. c \in {es.url, es.lastId} /\ es.url <= c
      BY <1>1, <2>2, <3>1, PairBounds DEF R!SinceSeq
    <3> QED BY <1>1, <3>1, <3>2 DEF Seen
  <2> QED BY <2>1, <2>2
<1> HIDE DEF c
<1>3. conn' \in [pc : {"off", "fetch", "write"}, cursor : R!Watermarks, queue : Seq(R!Events), full : BOOLEAN]
      /\ conn'.pc = "fetch" /\ conn'.cursor = c
  <2>1. R!NoConn \in [pc : {"off", "fetch", "write"}, cursor : R!Watermarks, queue : Seq(R!Events), full : BOOLEAN]
    BY DEF R!TypeOK, R!NoConn, R!Watermarks
  <2> QED BY <1>1, <1>2, <2>1
<1>4. R!TypeOK'
  BY <1>1, <1>3 DEF R!TypeOK, R!Events, R!Watermarks, R!Requests, R!Fetches
<1>5. Streamed'
  BY <1>1, <1>2, <1>3 DEF Streamed, Seen
<1>6. Costed'
  BY <1>1 DEF Costed, Ascending
<1>r. Rowed'
  BY <1>1 DEF Rowed, R!CostsUpTo
<1> QED BY <1>4, <1>5, <1>6, <1>r

LEMMA DisconnectStep ==
    ASSUME R!StreamAssumption, StreamInv, NEW keep \in BOOLEAN, R!Disconnect(keep) PROVE StreamInv'
<1> USE DEF StreamInv
<1>1. /\ conn' = R!NoConn /\ R!NoConn.pc = "off" /\ es'.url = es.url /\ es'.lastId \in {es.lastId, None}
      /\ UNCHANGED <<log, total, snap, req, live, msgs, got>>
  BY DEF R!Disconnect, R!NoConn, R!TypeOK
<1>2. es' \in [url : R!Watermarks \cup {None}, lastId : R!Events \cup {None}, breaks : 0..MaxBreaks]
  <2>1. es \in [url : R!Watermarks \cup {None}, lastId : R!Events \cup {None}, breaks : 0..MaxBreaks]
    BY DEF R!TypeOK
  <2>2. es.breaks + 1 \in 0 .. MaxBreaks
    BY <2>1 DEF R!StreamAssumption, R!Disconnect
  <2>3. es' = [es EXCEPT !.breaks = es.breaks + 1, !.lastId = IF keep THEN es.lastId ELSE None]
    BY <2>1 DEF R!Disconnect
  <2> QED BY <2>1, <2>2, <2>3
<1>3. conn' \in [pc : {"off", "fetch", "write"}, cursor : R!Watermarks, queue : Seq(R!Events), full : BOOLEAN]
  BY <1>1 DEF R!NoConn, R!Watermarks, R!TypeOK
<1>4. R!TypeOK'
  BY <1>1, <1>2, <1>3 DEF R!TypeOK, R!Events, R!Watermarks, R!Requests, R!Fetches
<1>5. Streamed'
  BY <1>1 DEF Streamed, Seen
<1>6. Costed'
  BY <1>1 DEF Costed, Ascending
<1>r. Rowed'
  BY <1>1 DEF Rowed, R!CostsUpTo
<1> QED BY <1>4, <1>5, <1>6, <1>r

LEMMA FetchBatchStep ==
    ASSUME R!StreamAssumption, StreamInv, R!FetchBatch PROVE StreamInv'
<1> USE DEF StreamInv
<1> DEFINE q == R!SelectEvents(conn.cursor, BatchSize)
           m == R!Min({Len(log), conn.cursor + BatchSize})
<1>1. /\ conn' = [conn EXCEPT !.pc = "write", !.queue = q, !.full = (Len(q) = BatchSize)]
      /\ conn.pc = "fetch" /\ UNCHANGED <<log, total, es, snap, req, live, msgs, got>>
  BY DEF R!FetchBatch
<1>2. /\ conn \in [pc : {"off", "fetch", "write"}, cursor : R!Watermarks, queue : Seq(R!Events), full : BOOLEAN]
      /\ Len(log) \in Nat /\ conn.cursor \in Nat /\ conn.cursor + BatchSize \in Nat
  BY DEF R!TypeOK, R!Watermarks, R!StreamAssumption
<1>3. m \in Nat /\ m <= Len(log) /\ conn.cursor <= m
  <2>1. m \in {Len(log), conn.cursor + BatchSize} /\ m <= Len(log)
    BY <1>2, PairBounds
  <2>2. conn.cursor <= Len(log)
    BY DEF R!TypeOK, R!Watermarks
  <2> QED BY <1>2, <2>1, <2>2 DEF R!StreamAssumption
<1>4. q = [i \in 1 .. (m - conn.cursor) |-> conn.cursor + i]
  BY DEF R!SelectEvents
<1> HIDE DEF q, m
<1>5. q \in Seq(R!Events) /\ \A i \in DOMAIN q : q[i] = conn.cursor + i
  <2>1. \A i \in 1 .. (m - conn.cursor) : conn.cursor + i \in R!Events
    BY <1>2, <1>3 DEF R!Events
  <2>2. m - conn.cursor \in Nat
    BY <1>2, <1>3
  <2> QED BY <1>4, <2>1, <2>2
<1>6. conn' \in [pc : {"off", "fetch", "write"}, cursor : R!Watermarks, queue : Seq(R!Events), full : BOOLEAN]
      /\ conn'.cursor = conn.cursor /\ conn'.queue = q /\ conn'.pc = "write"
  BY <1>1, <1>2, <1>5
<1>7. R!TypeOK'
  BY <1>1, <1>6 DEF R!TypeOK, R!Events, R!Watermarks, R!Requests, R!Fetches
<1>8. Streamed'
  BY <1>1, <1>5, <1>6 DEF Streamed, Seen
<1>9. Costed'
  BY <1>1 DEF Costed, Ascending
<1>r. Rowed'
  BY <1>1 DEF Rowed, R!CostsUpTo
<1> QED BY <1>7, <1>8, <1>9, <1>r

LEMMA CheckCloseStep ==
    ASSUME R!StreamAssumption, StreamInv, R!CheckClose PROVE StreamInv'
<1> USE DEF StreamInv
<1>1. /\ conn.pc = "write" /\ (conn' = R!NoConn \/ conn' = [conn EXCEPT !.pc = "fetch"])
      /\ UNCHANGED <<log, total, es, snap, req, live, msgs, got>>
  BY DEF R!CheckClose
<1>2. /\ conn' \in [pc : {"off", "fetch", "write"}, cursor : R!Watermarks, queue : Seq(R!Events), full : BOOLEAN]
      /\ conn'.pc = "off" \/ (conn'.pc = "fetch" /\ conn'.cursor = conn.cursor /\ conn.pc = "write")
  <2>1. R!NoConn \in [pc : {"off", "fetch", "write"}, cursor : R!Watermarks, queue : Seq(R!Events), full : BOOLEAN]
    BY DEF R!TypeOK, R!NoConn, R!Watermarks
  <2>2. conn \in [pc : {"off", "fetch", "write"}, cursor : R!Watermarks, queue : Seq(R!Events), full : BOOLEAN]
    BY DEF R!TypeOK
  <2>3. R!NoConn.pc = "off"
    BY DEF R!NoConn
  <2> QED BY <1>1, <2>1, <2>2, <2>3
<1>3. R!TypeOK'
  BY <1>1, <1>2 DEF R!TypeOK, R!Events, R!Watermarks, R!Requests, R!Fetches
<1>4. Streamed'
  BY <1>1, <1>2 DEF Streamed, Seen
<1>5. Costed'
  BY <1>1 DEF Costed, Ascending
<1>r. Rowed'
  BY <1>1 DEF Rowed, R!CostsUpTo
<1> QED BY <1>3, <1>4, <1>5, <1>r

\* What becomes of the messages does not touch the rest.
LEMMA PageFiniteSets ==
  ASSUME NEW X PROVE (R!IsFiniteSet(X) <=> IsFiniteSet(X)) /\ R!Cardinality(X) = Cardinality(X)
<1>1. R!IsFiniteSet(X) <=> IsFiniteSet(X)
  BY Zenon DEF R!IsFiniteSet, IsFiniteSet
<1>2. R!Cardinality(X) = Cardinality(X)
  BY Zenon DEF R!Cardinality, Cardinality
<1> QED BY <1>1, <1>2

LEMMA MessagesStep ==
    ASSUME R!StreamAssumption, StreamInv,
           R!FireTimer \/ \E f \in msgs.inFlight : R!ReadMessages(f) \/ R!TakeMessages(f) \/ R!LoseMessages(f)
    PROVE  StreamInv'
<1> USE DEF StreamInv
<1>1. UNCHANGED <<log, total, conn, es, snap, req, live, got>>
  BY DEF R!FireTimer, R!ReadMessages, R!TakeMessages, R!LoseMessages
<1>2. msgs \in [rows : Nat, timer : BOOLEAN, failed : BOOLEAN, sent : Nat, inFlight : SUBSET R!Fetches]
  BY DEF R!TypeOK
<1>3. R!CountOf("msg", Len(log)) \in Nat
  <2>1. Len(log) \in Nat
    BY DEF R!TypeOK
  <2> HIDE DEF StreamInv
  <2>i. 1 \in Int /\ Len(log) \in Int
    BY <2>1
  <2>2. IsFiniteSet(1 .. Len(log))
    BY <2>i, FS_Interval
  <2>3. IsFiniteSet({i \in 1 .. Len(log) : log[i] = "msg"})
    BY <2>2, FS_Subset
  <2>4. Cardinality({i \in 1 .. Len(log) : log[i] = "msg"}) \in Nat
    BY <2>3, FS_CardinalityType
  <2> QED BY <2>4, PageFiniteSets DEF R!CountOf
<1>4. msgs' \in [rows : Nat, timer : BOOLEAN, failed : BOOLEAN, sent : Nat, inFlight : SUBSET R!Fetches]
  <2>1. CASE R!FireTimer
    <3>1. [id |-> msgs.sent + 1, boot |-> FALSE, rows |-> None] \in R!Fetches /\ msgs.sent + 1 \in Nat
      BY <1>2 DEF R!Fetches
    <3> QED BY <1>2, <2>1, <3>1 DEF R!FireTimer
  <2>2. ASSUME NEW f \in msgs.inFlight, R!ReadMessages(f) PROVE msgs' \in [rows : Nat, timer : BOOLEAN, failed : BOOLEAN, sent : Nat, inFlight : SUBSET R!Fetches]
    <3> DEFINE c == R!CountOf("msg", Len(log))
    <3>1. [f EXCEPT !.rows = c] \in R!Fetches
      BY <1>2, <1>3 DEF R!Fetches
    <3>2. (msgs.inFlight \ {f}) \cup {[f EXCEPT !.rows = c]} \in SUBSET R!Fetches
      BY <1>2, <3>1
    <3>3. msgs' = [msgs EXCEPT !.inFlight = (msgs.inFlight \ {f}) \cup {[f EXCEPT !.rows = c]}]
      BY <1>2, <2>2 DEF R!ReadMessages
    <3> QED BY <1>2, <3>2, <3>3
  <2>3. ASSUME NEW f \in msgs.inFlight, R!TakeMessages(f) PROVE msgs' \in [rows : Nat, timer : BOOLEAN, failed : BOOLEAN, sent : Nat, inFlight : SUBSET R!Fetches]
    <3>1. f.rows \in Nat
      BY <1>2, <2>3 DEF R!Fetches, R!TakeMessages
    <3> QED BY <1>2, <2>3, <3>1 DEF R!TakeMessages
  <2>4. ASSUME NEW f \in msgs.inFlight, R!LoseMessages(f) PROVE msgs' \in [rows : Nat, timer : BOOLEAN, failed : BOOLEAN, sent : Nat, inFlight : SUBSET R!Fetches]
    BY <1>2, <2>4 DEF R!LoseMessages
  <2> QED BY <2>1, <2>2, <2>3, <2>4
<1>5. R!TypeOK'
  BY <1>1, <1>4 DEF R!TypeOK, R!Events, R!Watermarks, R!Requests, R!Fetches
<1>6. Streamed'
  BY <1>1 DEF Streamed, Seen
<1>7. Costed'
  BY <1>1 DEF Costed, Ascending
<1>r. Rowed'
  BY <1>1 DEF Rowed, R!CostsUpTo
<1> QED BY <1>5, <1>6, <1>7, <1>r

LEMMA WriteStep ==
    ASSUME R!StreamAssumption, StreamInv, R!Write PROVE StreamInv'
<1> USE DEF StreamInv
<1> DEFINE s == Head(conn.queue)
           f == live.frames
           g == live'.frames
<1>1. /\ conn.pc = "write" /\ conn.queue # << >>
      /\ conn' = [conn EXCEPT !.queue = Tail(conn.queue), !.cursor = s]
      /\ es' = [es EXCEPT !.lastId = s]
      /\ live' = [frames |-> IF log[s] = "cost" THEN R!OnCost(f, s) ELSE f, buf |-> R!OnBuffer(live.buf, s)]
      /\ got' = got \cup {s} /\ UNCHANGED <<log, total, snap, req>>
  BY DEF R!Write, R!TypeOK
<1>2. conn \in [pc : {"off", "fetch", "write"}, cursor : R!Watermarks, queue : Seq(R!Events), full : BOOLEAN]
      /\ es \in [url : R!Watermarks \cup {None}, lastId : R!Events \cup {None}, breaks : 0..MaxBreaks]
      /\ f \in Seq(R!Events) /\ live.buf \in R!Watermarks /\ got \subseteq R!Events
  BY DEF R!TypeOK
<1>3. s \in R!Events /\ s = conn.cursor + 1 /\ s \in Nat /\ conn.cursor \in Nat
      /\ Tail(conn.queue) \in Seq(R!Events)
  <2>1. 1 \in DOMAIN conn.queue /\ s = conn.queue[1]
    BY <1>1, <1>2
  <2> QED BY <1>1, <1>2, <2>1 DEF Streamed, R!Watermarks, R!Events
<1>4. /\ conn' \in [pc : {"off", "fetch", "write"}, cursor : R!Watermarks, queue : Seq(R!Events), full : BOOLEAN]
      /\ conn'.cursor = s /\ conn'.queue = Tail(conn.queue) /\ conn'.pc = "write"
  <2>1. s \in R!Watermarks
    BY <1>3 DEF R!Events, R!Watermarks
  <2> QED BY <1>1, <1>2, <1>3, <2>1
<1>5. /\ es' \in [url : R!Watermarks \cup {None}, lastId : R!Events \cup {None}, breaks : 0..MaxBreaks]
      /\ es'.url = es.url /\ es'.lastId = s
  BY <1>1, <1>2, <1>3
<1>6. g \in Seq(R!Events) /\ live' \in [frames : Seq(R!Events), buf : R!Watermarks]
  <2>1. R!OnCost(f, s) \in Seq(R!Events)
    BY <1>2, <1>3 DEF R!OnCost
  <2>2. R!OnBuffer(live.buf, s) \in R!Watermarks
    BY <1>2, <1>3 DEF R!OnBuffer, R!Watermarks, R!Events
  <2> QED BY <1>1, <1>2, <2>1, <2>2
<1>7. msgs' \in [rows : Nat, timer : BOOLEAN, failed : BOOLEAN, sent : Nat, inFlight : SUBSET R!Fetches]
  BY DEF R!Write, R!TypeOK
<1>8. R!TypeOK'
  BY <1>1, <1>2, <1>3, <1>4, <1>5, <1>6, <1>7 DEF R!TypeOK, R!Events, R!Watermarks, R!Requests, R!Fetches
<1>9. /\ snap.seq # None /\ es.url = snap.seq /\ snap.seq \in Nat /\ snap.seq < s /\ Seen(conn.cursor)
      /\ es.url # None
  BY <1>1, <1>2, <1>3 DEF Streamed, R!Watermarks
<1>10. \A n \in Nat : n = s \/ Seen(n) => Seen(n)'
  BY <1>1, <1>3, <1>9 DEF Seen
<1>11. Streamed'
  <2>1. \A j \in got' : j \in Nat /\ Seen(j)'
    BY <1>1, <1>2, <1>10 DEF Streamed, R!Events
  <2>2. \A i \in DOMAIN conn'.queue : conn'.queue[i] = conn'.cursor + i
    <3>1. \A i \in 1 .. Len(conn'.queue) : conn'.queue[i] = conn.queue[i + 1] /\ i + 1 \in DOMAIN conn.queue
      BY <1>1, <1>2, <1>4
    <3>2. \A i \in 1 .. Len(conn'.queue) : conn'.queue[i] = conn.cursor + (i + 1)
      BY <1>1, <3>1 DEF Streamed
    <3>3. DOMAIN conn'.queue = 1 .. Len(conn'.queue) /\ Len(conn'.queue) \in Nat
      BY <1>3, <1>4
    <3>4. conn'.cursor = conn.cursor + 1
      BY <1>3, <1>4
    <3>5. \A i \in 1 .. Len(conn'.queue) : conn.cursor + (i + 1) = conn'.cursor + i
      BY <1>3, <3>3, <3>4
    <3> QED BY <3>2, <3>3, <3>5
  <2>3. \A n \in Nat : n = es'.lastId \/ n = conn'.cursor => Seen(n)'
    BY <1>4, <1>5, <1>10
  <2>4. es'.lastId \in Nat /\ conn'.cursor \in Nat
    BY <1>3, <1>4, <1>5
  <2>5. es'.lastId # None => es'.url # None /\ Seen(es.lastId)'
    BY <1>5, <1>9, <2>3, <2>4 DEF Seen
  <2>6. snap'.seq <= conn'.cursor /\ Seen(conn.cursor)'
    BY <1>1, <1>3, <1>4, <1>9, <2>3, <2>4 DEF Seen
  <2> QED BY <1>1, <1>4, <1>5, <1>9, <2>1, <2>2, <2>5, <2>6 DEF Streamed
<1>r. Rowed'
  BY <1>1 DEF Rowed, R!CostsUpTo
<1> HIDE DEF s, f, g
<1>12. \A k \in DOMAIN f : f[k] \in got /\ log[f[k]] = "cost" /\ f[k] > snap.seq /\ f[k] \in Nat
  BY <1>2 DEF Costed, R!Events, f
<1>f. DOMAIN f = 1 .. Len(f) /\ Len(f) \in Nat /\ Ascending(f)
  BY <1>2 DEF Costed, f
<1>13. CASE log[s] # "cost" \/ s \in got
  <2>1. g = f
    <3>1. ASSUME log[s] = "cost", s \in got PROVE R!OnCost(f, s) = f
      <4>1. PICK k \in DOMAIN f : f[k] = s
        BY <1>9, <3>1 DEF Costed, f
      <4>2. f # << >> /\ s <= f[Len(f)]
        BY <1>3, <1>12, <1>f, <4>1 DEF Ascending
      <4> QED BY <4>2 DEF R!OnCost, R!Last
    <3> QED BY <1>1, <1>13, <3>1 DEF g, f
  <2> QED BY <1>1, <1>8, <1>11, <1>13, <1>r, <2>1 DEF Costed, f, g
<1>14. CASE log[s] = "cost" /\ s \notin got
  <2>1. \A k \in DOMAIN f : f[k] < s
    <3> SUFFICES ASSUME NEW k \in DOMAIN f, f[k] >= s PROVE FALSE
      BY <1>3, <1>12
    <3>1. Seen(f[k])
      BY <1>12 DEF Streamed
    <3>2. s \in 1 .. f[k] /\ ~(s <= snap.seq)
      BY <1>3, <1>9, <1>12, <1>2 DEF R!Events
    <3> QED BY <1>14, <3>1, <3>2 DEF Seen
  <2>2. g = Append(f, s)
    <3>1. f = << >> \/ ~(s <= f[Len(f)])
      BY <1>3, <1>12, <1>f, <2>1
    <3>2. R!OnCost(f, s) = Append(f, s)
      BY <3>1 DEF R!OnCost, R!Last
    <3> QED BY <1>1, <1>14, <3>2 DEF g, f
  <2>3. /\ DOMAIN g = 1 .. Len(f) + 1 /\ g[Len(f) + 1] = s
        /\ \A k \in 1 .. Len(f) : g[k] = f[k]
    BY <1>2, <1>3, <2>2
  <2>4. Ascending(g)
    BY <1>f, <2>1, <2>3 DEF Ascending
  <2>5. \A k \in DOMAIN g : g[k] \in got' /\ log'[g[k]] = "cost" /\ g[k] > snap'.seq
    BY <1>1, <1>3, <1>9, <1>12, <1>14, <1>f, <2>3 DEF s
  <2>6. \A t \in got' : log'[t] = "cost" /\ t > snap'.seq => \E k \in DOMAIN g : g[k] = t
    <3> SUFFICES ASSUME NEW t \in got', log[t] = "cost", t > snap.seq PROVE \E k \in DOMAIN g : g[k] = t
      BY <1>1
    <3>1. CASE t = s
      BY <1>f, <2>3, <3>1
    <3>2. CASE t # s
      <4>1. t \in got
        BY <1>1, <3>2 DEF s
      <4>2. PICK k \in DOMAIN f : f[k] = t
        BY <4>1 DEF Costed, f
      <4> QED BY <1>f, <2>3, <4>2
    <3> QED BY <3>1, <3>2
  <2> QED BY <1>8, <1>11, <1>r, <2>4, <2>5, <2>6 DEF Costed, g
<1> QED BY <1>13, <1>14

LEMMA StreamStep == ASSUME R!StreamAssumption, StreamInv, [R!Next]_(R!vars) PROVE StreamInv'
<1>1. CASE UNCHANGED R!vars
  BY <1>1 DEF R!vars, StreamInv, Streamed, Seen, Costed, Ascending, Rowed, R!CostsUpTo, R!TypeOK, R!Events,
              R!Watermarks, R!Requests, R!Fetches
<1>2. CASE R!Next
  BY <1>2, RecordStep, ReadRowStep, ReadLogStep, TakeSnapshotStep, ConnectStep, DisconnectStep, FetchBatchStep,
     WriteStep, CheckCloseStep, MessagesStep DEF R!Next, R!Serve
<1> QED BY <1>1, <1>2

LEMMA StreamInvariant == ASSUME R!StreamAssumption PROVE R!Spec => []StreamInv
<1>1. R!Init => StreamInv
  BY InitStream
<1>2. StreamInv /\ [R!Next]_(R!vars) => StreamInv'
  BY StreamStep
<1> QED BY <1>1, <1>2, PTL DEF R!Spec

\* What the page knows of is bounded by the log, and attained.
LEMMA KnownEvents ==
    ASSUME R!StreamAssumption, StreamInv, snap.seq # None
    PROVE  /\ R!Known \in 0 .. Len(log) /\ snap.seq <= R!Known /\ snap.seq \in Nat /\ Len(log) \in Nat
           /\ \A j \in got : j <= R!Known
           /\ Seen(R!Known)
<1> DEFINE T == {0, IF snap.seq = None THEN 0 ELSE snap.seq} \cup got
<1>1. Len(log) \in Nat /\ T \subseteq 0 .. Len(log) /\ T # {} /\ snap.seq \in Nat /\ snap.seq \in T
  <2>1. Len(log) \in Nat /\ snap.seq \in 0 .. Len(log) /\ got \subseteq 1 .. Len(log)
    BY DEF StreamInv, R!TypeOK, R!Watermarks, R!Events
  <2>2. T = {0, snap.seq} \cup got
    OBVIOUS
  <2>3. T \subseteq 0 .. Len(log)
    <3> SUFFICES ASSUME NEW t \in T PROVE t \in 0 .. Len(log)
      OBVIOUS
    <3>1. CASE t \in got
      BY <2>1, <3>1
    <3>2. CASE t \in {0, snap.seq}
      BY <2>1, <3>2
    <3> QED BY <2>2, <3>1, <3>2
  <2> QED BY <2>1, <2>2, <2>3
<1>2. R!Max(T) \in T /\ \A y \in T : y <= R!Max(T)
  BY <1>1, GreatestOf
<1>3. R!Known = R!Max(T)
  BY DEF R!Known
<1>4. R!Known \in T /\ \A y \in T : y <= R!Known
  BY <1>2, <1>3
<1>5. Seen(R!Known)
  <2>1. CASE R!Known \in got
    BY <2>1 DEF StreamInv, Streamed
  <2>2. CASE R!Known <= snap.seq
    BY <1>1, <1>4, <2>2 DEF Seen
  <2> QED BY <1>1, <1>4, <2>1, <2>2
<1> QED BY <1>1, <1>4, <1>5

\* The cost frames above the snapshot are as many as the cost events there, up
\* to the newest event known; below it the row counts each cost once or lags.
LEMMA CostsCounted == ASSUME R!StreamAssumption, StreamInv PROVE R!CostShownOnce
<1> SUFFICES ASSUME snap.seq # None
             PROVE R!ShownCost + R!Cardinality(R!Lagging) = R!CountOf("cost", R!Known)
  BY DEF R!CostShownOnce
<1> DEFINE f == live.frames
           Low == {i \in 1 .. snap.seq : log[i] = "cost"}
           All == {i \in 1 .. R!Known : log[i] = "cost"}
           High == {i \in 1 .. R!Known : log[i] = "cost" /\ i > snap.seq}
<1>1. /\ R!Known \in Nat /\ snap.seq \in Nat /\ snap.seq <= R!Known
      /\ \A j \in got : j \in 1 .. R!Known
      /\ Seen(R!Known)
  BY KnownEvents DEF StreamInv, R!TypeOK, R!Events
<1>2. f \in Seq(Nat) /\ DOMAIN f = 1 .. Len(f) /\ Len(f) \in Nat /\ Ascending(f)
  BY DEF StreamInv, R!TypeOK, R!Events, Costed
<1>3. R!LiveCosts = 1 .. Len(f)
  BY <1>2 DEF R!LiveCosts, StreamInv, Costed
<1>4. \A k \in 1 .. Len(f) : f[k] \in High
  BY <1>1, <1>2 DEF StreamInv, Costed
<1>5. \A s \in High : \E k \in 1 .. Len(f) : f[k] = s
  BY <1>1, <1>2 DEF StreamInv, Costed, Seen
<1>6. \A j, k \in 1 .. Len(f) : f[j] = f[k] => j = k
  BY <1>2 DEF Ascending
<1> HIDE DEF f
<1> DEFINE g == [k \in 1 .. Len(f) |-> f[k]]
<1>7. g \in Bijection(1 .. Len(f), High)
  BY <1>4, <1>5, <1>6 DEF Bijection, Injection, Surjection, IsInjective
<1>8. IsFiniteSet(1 .. Len(f))
  BY <1>2, FS_Interval
<1>9. Cardinality(High) = Cardinality(1 .. Len(f)) /\ IsFiniteSet(High)
  <2>1. ExistsBijection(1 .. Len(f), High)
    BY <1>7 DEF ExistsBijection
  <2> HIDE DEF g, High
  <2> QED BY <1>8, <2>1, FS_Bijection
<1>10. IsFiniteSet(1 .. snap.seq) /\ Low \subseteq 1 .. snap.seq
  <2>1. 1 \in Int /\ snap.seq \in Int
    BY <1>1
  <2> QED BY <2>1, FS_Interval
<1>11. IsFiniteSet(Low) /\ Cardinality(Low) \in Nat /\ Cardinality(High) \in Nat
  BY <1>9, <1>10, FS_Subset, FS_CardinalityType
<1>12. Low \cap High = {} /\ Low \cup High = All
  BY <1>1
<1> HIDE DEF Low, High, All
<1>13. Cardinality(All) = Cardinality(Low) + Cardinality(High)
  <2>1. Cardinality(All) = Cardinality(Low) + Cardinality(High) - Cardinality({})
    BY <1>9, <1>11, <1>12, FS_Union
  <2>2. Cardinality({}) = 0
    BY FS_EmptySet
  <2> QED BY <1>11, <2>1, <2>2
<1>14. R!CountOf("cost", R!Known) = Cardinality(All)
  BY PageFiniteSets DEF R!CountOf, All
<1>15. R!Cardinality(R!LiveCosts) = Cardinality(High)
  BY <1>3, <1>9, PageFiniteSets
<1>16. snap.cost \cup R!Lagging = Low /\ snap.cost \cap R!Lagging = {}
  BY DEF StreamInv, Rowed, R!Lagging, R!CostsUpTo, Low
<1>17. Cardinality(Low) = Cardinality(snap.cost) + Cardinality(R!Lagging)
       /\ Cardinality(snap.cost) \in Nat /\ Cardinality(R!Lagging) \in Nat
  <2>1. IsFiniteSet(snap.cost) /\ IsFiniteSet(R!Lagging)
    BY <1>11, <1>16, FS_Subset
  <2>2. Cardinality(snap.cost) \in Nat /\ Cardinality(R!Lagging) \in Nat /\ Cardinality({}) = 0
    BY <2>1, FS_CardinalityType, FS_EmptySet
  <2>3. Cardinality(Low) = Cardinality(snap.cost) + Cardinality(R!Lagging) - Cardinality({})
    BY <1>16, <2>1, FS_Union
  <2> QED BY <2>2, <2>3
<1>18. R!ShownCost = Cardinality(snap.cost) + Cardinality(High) /\ R!Cardinality(R!Lagging) = Cardinality(R!Lagging)
  BY <1>15, PageFiniteSets DEF R!ShownCost
<1> QED BY <1>11, <1>13, <1>14, <1>17, <1>18

\* The page's watermark, frames, buffers and requests keep their types, for any
\* log and any number of lost connections and snapshots.
THEOREM StreamTypeCorrect == ASSUME R!StreamAssumption PROVE R!Spec => []R!TypeOK
<1>1. StreamInv => R!TypeOK
  BY DEF StreamInv
<1> QED BY <1>1, StreamInvariant, PTL

\* Whatever the socket loses, the server replays and a late snapshot covers, and
\* although the daemon writes between the two reads of a snapshot: every cost the
\* page knows of is shown once, or is one that the snapshot's events cover and its
\* row does not count; and below the newest event it knows of none was missed.
THEOREM PageInStepHolds == ASSUME R!StreamAssumption PROVE R!Spec => []R!PageInStep
<1>1. StreamInv => R!PageInStep
  <2> SUFFICES ASSUME StreamInv PROVE R!CostShownOnce /\ R!NoHole
    BY DEF R!PageInStep
  <2>1. R!CostShownOnce
    BY CostsCounted
  <2>2. R!NoHole
    BY KnownEvents DEF R!NoHole, Seen
  <2> QED BY <2>1, <2>2
<1> QED BY <1>1, StreamInvariant, PTL
=============================================================================
