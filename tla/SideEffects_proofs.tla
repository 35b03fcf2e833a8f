------------------------ MODULE SideEffects_proofs ------------------------
(***************************************************************************)
(* SideEffects, for every workflow length, fail edge, limit and bound; the *)
(* tool step (ToolStep, here as the instance T), whose command is the      *)
(* effect, for every number of dispatches; and the tools an agent has      *)
(* effects with: the file tools (FileTools, as F), for every number of     *)
(* calls and every map from names to files and to keys, and the fetch tool *)
(* (WebFetch, as W), for every number of calls and size of its cache.      *)
(***************************************************************************)
EXTENDS SideEffects, Sequences, FiniteSetTheorems, WellFoundedInduction, TLAPS

CONSTANTS MaxDispatches, Commands, None,
          ToolCalls, Names, Files, QueueKeys, FileOf, KeyOf, Tokens, Plain, Requests, Starts, Outputs,
          MaxCommands, MaxFaults,
          Fetches, Urls, Hosts, HostOf, Refused, MaxCache, MaxHops, Ttl, MaxTime
VARIABLES step, up, dispatched, handler, aborted, call, group, armed, outlived, path, inode,
          outcome, told,
          file, last, queue, stage, req, work, tmp, commands, faults,
          now, cache, writes, fetch

T == INSTANCE ToolStep WITH node <- step, n <- dispatched, pc <- handler, lost <- outlived,
                            result <- outcome
F == INSTANCE FileTools WITH Calls <- ToolCalls, Keys <- QueueKeys, pc <- stage
W == INSTANCE WebFetch WITH Calls <- Fetches, call <- fetch

-----------------------------------------------------------------------------
(* Side effects.                                                           *)

(* A fiber exists only in a live daemon, on a running run, and a call or   *)
(* its outcome belongs to a node.                                          *)
FiberInv ==
    /\ pc # "none" => daemon \in {"up", "stopping"} /\ status = "running"
    /\ pc \in {"called", "exited"} => node # 0

(* Write-ahead: what may still be unknown has its intent in the log, and   *)
(* what the log shows as an orphan is unknown.                             *)
LogInv ==
    /\ open \subseteq intents
    /\ lost \subseteq intents
    /\ OrphanSideEffects \subseteq open
    /\ status = "quarantined" => OrphanSideEffects # {}

(* Once the quarantine pass of a boot has run, an orphan that an earlier   *)
(* daemon left is in a run nobody claims.                                  *)
SweptInv ==
    daemon \in {"requeue", "up", "stopping"} /\ ~skipped /\ lost \ settled # {} =>
        status \in {"quarantined", "done"}

IInv == TypeOK /\ FiberInv /\ LogInv /\ SweptInv

-----------------------------------------------------------------------------
\* The initial state satisfies the inductive invariant.
LEMMA InitIInv == Init => IInv
<1> SUFFICES ASSUME Init PROVE IInv
  OBVIOUS
<1>1. TypeOK
  <2>1. node \in 0 .. NumNodes
    BY EffectsAssumption DEF Init
  <2>2. iter \in [Nodes -> Nat] /\ timeouts \in [Nodes -> Nat]
    BY DEF Init
  <2> QED BY <2>1, <2>2 DEF Init, TypeOK
<1>2. FiberInv /\ LogInv
  BY DEF Init, FiberInv, LogInv, OrphanSideEffects
<1>3. SweptInv
  BY DEF Init, SweptInv
<1> QED BY <1>1, <1>2, <1>3 DEF IInv

\* The key of a call belongs to the current node and its iteration.
LEMMA CallKeyType == TypeOK /\ node # 0 => CallKey \in Keys
  BY EffectsAssumption DEF TypeOK, CallKey, Keys, Nodes

\* Every variable keeps its type under every step of a well-formed fiber.
LEMMA NextTypeOK == TypeOK /\ FiberInv /\ [Next]_vars => TypeOK'
<1> SUFFICES ASSUME TypeOK, FiberInv, [Next]_vars PROVE TypeOK'
  OBVIOUS
<1> USE EffectsAssumption DEF TypeOK, row, log, fiber
<1>1. CASE ClaimNextRun
  BY <1>1 DEF ClaimNextRun
<1>2. ASSUME NEW s \in {"paused", "done"}, FoldIntents(s) PROVE TypeOK'
  BY <1>2 DEF FoldIntents, EndFiber
<1>3. CASE StartRun
  BY <1>3 DEF StartRun
<1>4. CASE RecordIntent
  BY <1>4, CallKeyType DEF RecordIntent
<1>5. ASSUME NEW s \in {"tripped", "deadline"}, AbortDispatch(s) PROVE TypeOK'
  BY <1>5 DEF AbortDispatch
<1>6. ASSUME NEW r \in {"success", "fail"}, RecordDone(r) PROVE TypeOK'
  BY <1>6, CallKeyType DEF RecordDone, FiberInv
<1>7. CASE RecordFailed
  BY <1>7, CallKeyType DEF RecordFailed, FiberInv
<1>8. CASE CallAborts \/ HandlerLeaks
  BY <1>8 DEF CallAborts, HandlerLeaks
<1>9. CASE CommitSuccess
  <2>1. node \in Nodes
    BY <1>9 DEF CommitSuccess, FiberInv, Nodes
  <2>2. CASE IsExit
    BY <1>9, <2>1, <2>2 DEF CommitSuccess, EndFiber
  <2>3. CASE ~IsExit
    <3>1. node + 1 \in 0 .. NumNodes
      BY <2>1, <2>3 DEF IsExit, Nodes
    <3> QED BY <1>9, <2>1, <2>3, <3>1 DEF CommitSuccess, NextTurn
  <2> QED BY <2>2, <2>3
<1>10. CASE CommitFail
  <2>1. node \in Nodes
    BY <1>10 DEF CommitFail, FiberInv, Nodes
  <2>2. FailTo[node] \in 0 .. NumNodes
    BY <2>1
  <2> QED BY <1>10, <2>1, <2>2 DEF CommitFail, EndFiber, NextTurn
<1>11. CASE CommitHalt \/ FiberStops
  BY <1>11 DEF CommitHalt, FiberStops, EndFiber
<1>12. CASE CommitExit
  <2>1. node \in Nodes
    BY <1>12 DEF CommitExit, FiberInv, Nodes
  <2> QED BY <1>12, <2>1 DEF CommitExit, EndFiber, NextTurn
<1>13. ASSUME NEW s \in {"done", "queued"}, OccExhausted(s) PROVE TypeOK'
  BY <1>13 DEF OccExhausted, EndFiber
<1>14. CASE WakeResume \/ WakeCancel
  BY <1>14 DEF WakeResume, WakeCancel
<1>15. ASSUME NEW x \in {"retry", "treat_as_done"}, WakeUnquarantine(x) PROVE TypeOK'
  BY <1>15 DEF WakeUnquarantine, OrphanSideEffects
<1>16. CASE Shutdown
  BY <1>16 DEF Shutdown
<1>17. CASE Exit \/ Crash
  BY <1>17 DEF Exit, Crash, EndFiber
<1>18. CASE Boot \/ HealQuarantine \/ HealRequeue \/ HealFails
  <2>1. CASE Boot \/ HealRequeue
    BY <2>1 DEF Boot, HealRequeue
  <2>2. CASE HealQuarantine
    <3>1. status' \in {"queued", "running", "paused", "quarantined", "done"} /\ node' \in 0 .. NumNodes
      BY <2>2 DEF HealQuarantine
    <3>2. skipped' \in BOOLEAN
      BY <2>2, Zenon DEF HealQuarantine
    <3> QED BY <2>2, <3>1, <3>2 DEF HealQuarantine
  <2>3. CASE HealFails
    <3>1. skipped' \in BOOLEAN
      BY <2>3, Zenon DEF HealFails
    <3>2. daemon' \in {"requeue", "up"}
      BY <2>3, Zenon DEF HealFails
    <3>3. UNCHANGED <<row, log, fiber, calls, crashes, open, lost, resolved>>
      BY <2>3, Zenon DEF HealFails
    <3> QED BY <3>1, <3>2, <3>3
  <2> QED BY <1>18, <2>1, <2>2, <2>3
<1>19. CASE UNCHANGED vars
  BY <1>19 DEF vars
<1> QED
  BY <1>1, <1>2, <1>3, <1>4, <1>5, <1>6, <1>7, <1>8, <1>9, <1>10, <1>11, <1>12, <1>13,
     <1>14, <1>15, <1>16, <1>17, <1>18, <1>19 DEF Next

\* Every step preserves the discipline of fibers, log and sweep.
LEMMA NextInv == IInv /\ [Next]_vars => FiberInv' /\ LogInv' /\ SweptInv'
<1> SUFFICES ASSUME IInv, [Next]_vars PROVE FiberInv' /\ LogInv' /\ SweptInv'
  OBVIOUS
<1> USE DEF IInv, FiberInv, LogInv, SweptInv, OrphanSideEffects, row, log, fiber
<1>1. CASE ClaimNextRun
  BY <1>1 DEF ClaimNextRun, TypeOK
<1>2. ASSUME NEW s \in {"paused", "done"}, FoldIntents(s) PROVE FiberInv' /\ LogInv' /\ SweptInv'
  BY <1>2 DEF FoldIntents, EndFiber, TypeOK
<1>3. CASE StartRun
  BY <1>3 DEF StartRun
<1>4. CASE RecordIntent
  BY <1>4 DEF RecordIntent
<1>5. ASSUME NEW s \in {"tripped", "deadline"}, AbortDispatch(s) PROVE FiberInv' /\ LogInv' /\ SweptInv'
  BY <1>5 DEF AbortDispatch
<1>6. ASSUME NEW r \in {"success", "fail"}, RecordDone(r) PROVE FiberInv' /\ LogInv' /\ SweptInv'
  BY <1>6 DEF RecordDone
<1>7. CASE RecordFailed
  BY <1>7 DEF RecordFailed
<1>8. CASE CallAborts \/ HandlerLeaks
  BY <1>8 DEF CallAborts, HandlerLeaks
<1>9. CASE CommitSuccess
  BY <1>9 DEF CommitSuccess, EndFiber, NextTurn
<1>10. CASE CommitFail
  BY <1>10 DEF CommitFail, EndFiber, NextTurn
<1>11. CASE CommitHalt \/ FiberStops
  BY <1>11 DEF CommitHalt, FiberStops, EndFiber
<1>12. CASE CommitExit
  BY <1>12 DEF CommitExit, EndFiber, NextTurn
<1>13. ASSUME NEW s \in {"done", "queued"}, OccExhausted(s) PROVE FiberInv' /\ LogInv' /\ SweptInv'
  BY <1>13 DEF OccExhausted, EndFiber
<1>14. CASE WakeResume \/ WakeCancel
  BY <1>14 DEF WakeResume, WakeCancel
<1>15. ASSUME NEW x \in {"retry", "treat_as_done"}, WakeUnquarantine(x)
       PROVE  FiberInv' /\ LogInv' /\ SweptInv'
  BY <1>15 DEF WakeUnquarantine
<1>16. CASE Shutdown
  BY <1>16 DEF Shutdown
<1>17. CASE Exit \/ Crash
  BY <1>17 DEF Exit, Crash, EndFiber
<1>18. CASE Boot
  BY <1>18 DEF Boot
<1>19. CASE HealQuarantine
  BY <1>19 DEF HealQuarantine, TypeOK
<1>20. CASE HealRequeue
  BY <1>20 DEF HealRequeue
<1>21. CASE HealFails
  BY <1>21 DEF HealFails
<1>22. CASE UNCHANGED vars
  BY <1>22 DEF vars
<1> QED
  BY <1>1, <1>2, <1>3, <1>4, <1>5, <1>6, <1>7, <1>8, <1>9, <1>10, <1>11, <1>12, <1>13,
     <1>14, <1>15, <1>16, <1>17, <1>18, <1>19, <1>20, <1>21, <1>22 DEF Next

\* The inductive invariant holds in every reachable state.
THEOREM Invariance == Spec => []IInv
<1>1. IInv /\ [Next]_vars => IInv'
  BY NextTypeOK, NextInv DEF IInv
<1> QED BY InitIInv, <1>1, PTL DEF Spec

-----------------------------------------------------------------------------
\* Type correctness of SideEffects.
THEOREM EffectsTypeCorrect == Spec => []TypeOK
<1>1. IInv => TypeOK
  BY DEF IInv
<1> QED BY Invariance, <1>1, PTL

\* No call whose outcome was unknown when a daemon stopped is made again before
\* an operator decided: a call in flight means a running run, and after the
\* sweep a run with such an orphan is quarantined or done.
THEOREM NoBlindRetryHolds == Spec => []NoBlindRetry
<1>1. IInv => NoBlindRetry
  BY DEF IInv, FiberInv, SweptInv, NoBlindRetry
<1> QED BY Invariance, <1>1, PTL

\* The sweep quarantines only runs that have a call of unknown outcome.
THEOREM QuarantineIsWarrantedHolds == Spec => []QuarantineIsWarranted
<1>1. IInv => QuarantineIsWarranted
  BY DEF IInv, LogInv, QuarantineIsWarranted
<1> QED BY Invariance, <1>1, PTL

-----------------------------------------------------------------------------
(* The tool step.                                                          *)

(* What belongs to a dispatch that has not spawned yet is untouched.       *)
Unstarted ==
    \A d \in T!Ds : d > dispatched \/ (d = dispatched /\ handler \in {"unlinked", "ready"}) =>
        call[d] = T!Fresh /\ group[d] = T!Empty /\ armed[d] = None /\ outlived[d] = None

(* A kill reaps the group, before the call returns only a kill does, and   *)
(* an executor that ended has left the calls it made.                      *)
KillsReap ==
    /\ \A d \in T!Ds : call[d].kill # None => call[d].reaped
    /\ handler = "running" => (call[dispatched].reaped => call[dispatched].kill # None)
    /\ \A d \in T!Ds : outlived[d] # None => d < dispatched \/ handler = "idle"

(* After a kill the timer holds the executor until the group is gone; after *)
(* a return the timer is there as long as the executor is.                 *)
BackstopComes ==
    \A d \in T!Ds : group[d].alive # {} =>
        /\ call[d].kill # None => armed[d] = "ref" \/ outlived[d] = "crash"
        /\ call[d].settled => armed[d] # None \/ outlived[d] # None
        /\ outlived[d] = "exit" => call[d].kill = None

(* A dispatch under way has no result and no message yet.                  *)
UnderWay == handler # "idle" => outcome.kind = None /\ outcome.code = None /\ told = 0

(* From the creation of its scratch file on, what a dispatch finds in it   *)
(* was written since.                                                      *)
ScratchIsOwn ==
    /\ handler = "reading" => step.produces
    /\ step.produces /\ handler \in {"ready", "running", "returned", "reading"} /\ inode # None =>
          inode.at = dispatched

ToolInv ==
    /\ T!TypeOK /\ Unstarted /\ KillsReap /\ BackstopComes /\ UnderWay /\ ScratchIsOwn
    /\ T!EmissionIsFresh /\ T!StopIsNotFailure

Group == [alive : T!Processes, stubborn : T!Processes, quiet : BOOLEAN, code : T!Codes]

\* Processes that go leave a group with fewer of them.
LEMMA WithoutType ==
    ASSUME NEW g \in Group, NEW gone \in T!Processes, NEW c \in T!Codes
    PROVE  T!Without(g, gone, c) \in Group /\ T!Without(g, gone, c).alive = g.alive \ gone
<1>1. /\ g.alive \in T!Processes /\ g.stubborn \in T!Processes /\ g.quiet \in BOOLEAN /\ g.code \in T!Codes
  BY DEF Group
<1>2. g.alive \ gone \in T!Processes /\ g.stubborn \ gone \in T!Processes
  BY <1>1 DEF T!Processes
<1>3. (g.quiet /\ "child" \notin gone) \in BOOLEAN /\ (IF "shell" \in gone THEN c ELSE g.code) \in T!Codes
  BY <1>1
<1> QED BY <1>2, <1>3 DEF T!Without, Group

\* SIGTERM to a group.
LEMMA TermType ==
    ASSUME NEW g \in Group
    PROVE  T!Term(g) \in Group /\ T!Term(g).alive \subseteq g.alive
<1>1. g.alive \ g.stubborn \in T!Processes /\ T!Signal \in T!Codes
  BY DEF Group, T!Processes, T!Codes
<1>2. T!Without(g, g.alive \ g.stubborn, T!Signal) \in Group
      /\ T!Without(g, g.alive \ g.stubborn, T!Signal).alive = g.alive \ (g.alive \ g.stubborn)
  BY <1>1, WithoutType
<1> QED BY <1>2 DEF T!Term

\* None is none of the other values.
LEMMA NoneIsNew ==
    ASSUME T!ToolStepAssumption
    PROVE  /\ None \notin {"success", "fail", "halt", "throw", "abort", "crash", "exit", "timeout", "ref",
                            "unref"}
           /\ None \notin T!Inodes /\ None \notin Nat
  BY DEF T!ToolStepAssumption, T!Kinds

LEMMA ToolInit == T!ToolStepAssumption /\ T!Init => ToolInv
<1> SUFFICES ASSUME T!ToolStepAssumption, T!Init PROVE ToolInv
  OBVIOUS
<1> USE DEF T!Init, T!Results
<1>1. T!TypeOK
  <2>1. T!Fresh \in [settled : BOOLEAN, kill : {None, "timeout", "abort"}, reaped : BOOLEAN]
    BY DEF T!Fresh
  <2>2. T!Empty \in Group
    BY DEF T!Empty, Group, T!Processes, T!Codes
  <2>3. 0 \in 0 .. MaxDispatches
    BY DEF T!ToolStepAssumption
  <2>4. outcome \in [kind : T!Kinds \union {None}, code : T!Codes, emission : T!Inodes \union {None}]
    BY DEF T!Codes
  <2> QED BY <2>1, <2>2, <2>3, <2>4 DEF T!TypeOK, Group
<1>2. Unstarted /\ KillsReap /\ BackstopComes /\ UnderWay /\ ScratchIsOwn
  BY DEF Unstarted, KillsReap, BackstopComes, UnderWay, ScratchIsOwn, T!Fresh, T!Empty
<1>3. T!EmissionIsFresh /\ T!StopIsNotFailure
  BY NoneIsNew DEF T!EmissionIsFresh, T!StopIsNotFailure
<1> QED BY <1>1, <1>2, <1>3 DEF ToolInv
\* The exit code of a call, whatever ended it.
LEMMA ExitCodeType ==
    ASSUME T!TypeOK, NEW d \in T!Ds
    PROVE  T!ExitCode(d) \in T!Codes
<1>1. group[d].code \in T!Codes
  BY DEF T!TypeOK
<1> QED BY <1>1 DEF T!ExitCode, T!Codes

\* Every step keeps the types.
LEMMA ToolTypes ==
    ASSUME T!ToolStepAssumption, ToolInv, T!Next
    PROVE  T!TypeOK'
<1> DEFINE Call == [settled : BOOLEAN, kill : {None, "timeout", "abort"}, reaped : BOOLEAN]
           Result == [kind : T!Kinds \union {None}, code : T!Codes, emission : T!Inodes \union {None}]
<1>0. /\ step \in T!ToolConfig /\ up \in BOOLEAN /\ aborted \in BOOLEAN
      /\ dispatched \in 0 .. MaxDispatches /\ (handler # "idle" => dispatched \in T!Ds)
      /\ handler \in {"idle", "unlinked", "ready", "running", "returned", "reading"}
      /\ call \in [T!Ds -> Call] /\ group \in [T!Ds -> Group]
      /\ armed \in [T!Ds -> {None, "ref", "unref"}] /\ outlived \in [T!Ds -> {None, "crash", "exit"}]
      /\ path \in {None, "own", "other"} /\ inode \in T!Inodes \union {None}
      /\ outcome \in Result /\ told \in Nat /\ MaxDispatches \in Nat
  BY DEF ToolInv, T!TypeOK, Group, T!ToolStepAssumption
<1> DEFINE Typed ==
        /\ step' \in T!ToolConfig /\ up' \in BOOLEAN /\ aborted' \in BOOLEAN
        /\ dispatched' \in 0 .. MaxDispatches /\ (handler' # "idle" => dispatched' \in T!Ds)
        /\ handler' \in {"idle", "unlinked", "ready", "running", "returned", "reading"}
        /\ call' \in [T!Ds -> Call] /\ group' \in [T!Ds -> Group]
        /\ armed' \in [T!Ds -> {None, "ref", "unref"}] /\ outlived' \in [T!Ds -> {None, "crash", "exit"}]
        /\ path' \in {None, "own", "other"} /\ inode' \in T!Inodes \union {None}
        /\ outcome' \in Result /\ told' \in Nat
<1> SUFFICES Typed
  BY DEF T!TypeOK, Group
<1> HIDE DEF Call, Result
<1>1. \A k \in T!Kinds, c \in T!Codes : T!Results(k, c) \in Result /\ T!Results(None, None) \in Result
  BY DEF T!Results, Result, T!Codes
<1>2. \A g \in Group, gone \in T!Processes, c \in T!Codes : T!Without(g, gone, c) \in Group
  BY WithoutType
<1>3. \A g \in Group : T!Term(g) \in Group
  BY TermType
<1>4. CASE T!Dispatch
  <2>1. dispatched + 1 \in T!Ds /\ dispatched + 1 \in 0 .. MaxDispatches
    BY <1>0, <1>4 DEF T!Dispatch, T!Ds
  <2>2. T!Results("halt", None) \in Result /\ T!Results("fail", None) \in Result /\ T!Results(None, None) \in Result
    BY <1>1 DEF T!Kinds, T!Codes
  <2> QED BY <1>0, <1>4, <2>1, <2>2 DEF T!Dispatch
<1>5. CASE T!ScratchCreates
  <2>1. T!Results("throw", None) \in Result
    BY <1>1 DEF T!Kinds, T!Codes
  <2> QED BY <1>0, <1>5, <2>1 DEF T!ScratchCreates, T!Ends
<1>6. CASE T!Refused
  <2>1. [call[dispatched] EXCEPT !.settled = TRUE] \in Call
    BY <1>0, <1>6 DEF T!Refused, Call
  <2>2. \A c \in T!Codes : [group[dispatched] EXCEPT !.code = c] \in Group
    BY <1>0, <1>6 DEF T!Refused, Group
  <2>3. [group[dispatched] EXCEPT !.code = IF step.command = "blocked" THEN 126 ELSE 127] \in Group
    BY <2>2 DEF T!Codes
  <2> QED BY <1>0, <1>6, <2>1, <2>3 DEF T!Refused
<1>7. ASSUME NEW reason \in {"timeout", "abort"}, handler # "idle"
      PROVE  /\ [call EXCEPT ![dispatched].kill = reason, ![dispatched].reaped = TRUE] \in [T!Ds -> Call]
             /\ \A held \in BOOLEAN : [armed EXCEPT ![dispatched] = T!Reap(call[dispatched], held)]
                                        \in [T!Ds -> {None, "ref", "unref"}]
  <2>1. [call[dispatched] EXCEPT !.kill = reason, !.reaped = TRUE] \in Call
    BY <1>0, <1>7 DEF Call
  <2>2. \A held \in BOOLEAN : T!Reap(call[dispatched], held) \in {None, "ref", "unref"}
    BY <1>0, <1>7 DEF T!Reap
  <2> QED BY <1>0, <1>7, <2>1, <2>2
<1>8. CASE T!Spawn
  <2>1. PICK s \in SUBSET {"shell"} :
          group' = [group EXCEPT ![dispatched] =
            IF aborted THEN T!Term([alive |-> {"shell"}, stubborn |-> s, quiet |-> FALSE, code |-> None])
            ELSE [alive |-> {"shell"}, stubborn |-> s, quiet |-> FALSE, code |-> None]]
    BY <1>8 DEF T!Spawn
  <2>2. [alive |-> {"shell"}, stubborn |-> s, quiet |-> FALSE, code |-> None] \in Group
    BY DEF Group, T!Processes, T!Codes
  <2>3. group' \in [T!Ds -> Group]
    BY <1>0, <1>3, <2>1, <2>2
  <2>4. call' \in [T!Ds -> Call] /\ armed' \in [T!Ds -> {None, "ref", "unref"}]
    BY <1>0, <1>7, <1>8 DEF T!Spawn, T!KillTree
  <2> QED BY <1>0, <1>8, <2>3, <2>4 DEF T!Spawn
<1>9. ASSUME T!Timeout \/ T!Abort PROVE Typed
  <2>1. handler # "idle"
    BY <1>9 DEF T!Timeout, T!Abort
  <2>2. call' \in [T!Ds -> Call] /\ armed' \in [T!Ds -> {None, "ref", "unref"}]
    BY <1>0, <1>7, <1>9, <2>1 DEF T!Timeout, T!Abort, T!KillTree
  <2>3. group' \in [T!Ds -> Group]
    BY <1>0, <1>3, <1>9, <2>1 DEF T!Timeout, T!Abort
  <2> QED BY <1>0, <1>9, <2>2, <2>3 DEF T!Timeout, T!Abort
<1>10. CASE T!Close
  <2>1. [call[dispatched] EXCEPT !.settled = TRUE, !.reaped = TRUE] \in Call
    BY <1>0, <1>10 DEF T!Close, Call
  <2>2. armed' \in [T!Ds -> {None, "ref", "unref"}]
    BY <1>0, <1>7, <1>10 DEF T!Close
  <2> QED BY <1>0, <1>3, <1>10, <2>1, <2>2 DEF T!Close
<1>11. CASE T!Returns
  <2>1. \A k \in {"abort", "fail"} : T!Results(k, T!ExitCode(dispatched)) \in Result
    <3>1. T!ExitCode(dispatched) \in T!Codes
      BY <1>0, <1>11, ExitCodeType DEF T!Returns, ToolInv
    <3> QED BY <1>1, <3>1 DEF T!Kinds
  <2>2. T!Results("success", 0) \in Result
    BY <1>1 DEF T!Kinds, T!Codes
  <2> QED BY <1>0, <1>11, <2>1, <2>2 DEF T!Returns, T!Ends, T!Tell
<1>12. CASE T!Read
  <2>1. T!Results("fail", 0) \in Result /\ T!Results("halt", 0) \in Result
    BY <1>1 DEF T!Kinds, T!Codes
  <2>2. [kind |-> "success", code |-> 0, emission |-> inode] \in Result
    BY <1>0 DEF Result, T!Kinds, T!Codes
  <2>3. T!ReadScratch \in Result
    BY <2>1, <2>2 DEF T!ReadScratch
  <2> QED BY <1>0, <1>12, <2>3 DEF T!Read, T!Ends, T!Tell
<1>13. ASSUME T!Crash \/ T!Exit \/ T!Restart PROVE Typed
  <2>1. T!Results("crash", None) \in Result
    BY <1>1 DEF T!Kinds, T!Codes
  <2> QED BY <1>0, <1>13, <2>1 DEF T!Crash, T!Exit, T!Restart, T!Forgets
<1>14. ASSUME NEW d \in T!Ds, T!Fork(d) PROVE Typed
  <2>1. PICK q \in BOOLEAN, s \in SUBSET {"child"} :
          group' = [group EXCEPT ![d].alive = @ \union {"child"}, ![d].quiet = q, ![d].stubborn = @ \union s]
    BY <1>14 DEF T!Fork
  <2>3. group' = [group EXCEPT ![d] = [group[d] EXCEPT !.alive = group[d].alive \union {"child"}, !.quiet = q,
                                                         !.stubborn = group[d].stubborn \union s]]
    BY <1>0, <2>1 DEF Group
  <2>2. [group[d] EXCEPT !.alive = group[d].alive \union {"child"}, !.quiet = q,
                         !.stubborn = group[d].stubborn \union s] \in Group
    BY <1>0 DEF Group, T!Processes
  <2> QED BY <1>0, <1>14, <2>2, <2>3 DEF T!Fork
<1>15. ASSUME NEW d \in T!Ds, T!ShellEnds(d) \/ T!ChildEnds(d) \/ T!Backstop(d) PROVE Typed
  <2>1. {"shell"} \in T!Processes /\ {"child"} \in T!Processes /\ group[d].alive \in T!Processes
    BY <1>0 DEF T!Processes, Group
  <2>2. 0 \in T!Codes /\ 1 \in T!Codes /\ T!Signal \in T!Codes /\ None \in T!Codes
    BY DEF T!Codes
  <2>3. group' \in [T!Ds -> Group]
    BY <1>0, <1>2, <1>15, <2>1, <2>2 DEF T!ShellEnds, T!ChildEnds, T!Backstop
  <2> QED BY <1>0, <1>15, <2>3 DEF T!ShellEnds, T!ChildEnds, T!Backstop
<1>16. ASSUME NEW d \in T!Ds, T!Writes(d) PROVE Typed
  <2>1. dispatched \in T!Ds
    <3>1. d <= dispatched
      <4>1. d > dispatched => group[d].alive = {}
        BY DEF ToolInv, Unstarted, T!Empty
      <4> QED BY <1>0, <1>16, <4>1 DEF T!Writes, T!Ds
    <3> QED BY <1>0, <3>1 DEF T!Ds
  <2>2. \A k \in T!Emissions : [kind |-> k, by |-> d, at |-> dispatched] \in T!Inodes
    BY <2>1 DEF T!Inodes
  <2> QED BY <1>0, <1>16, <2>2 DEF T!Writes
<1> QED BY <1>4, <1>5, <1>6, <1>8, <1>9, <1>10, <1>11, <1>12, <1>13, <1>14, <1>15, <1>16 DEF T!Next
Calls == Unstarted /\ KillsReap /\ BackstopComes

\* The types of calls, groups and timers.
LEMMA CallTypes ==
    ASSUME ToolInv
    PROVE  /\ call \in [T!Ds -> [settled : BOOLEAN, kill : {None, "timeout", "abort"}, reaped : BOOLEAN]]
           /\ group \in [T!Ds -> Group]
           /\ armed \in [T!Ds -> {None, "ref", "unref"}]
           /\ outlived \in [T!Ds -> {None, "crash", "exit"}]
           /\ dispatched \in Nat /\ (handler # "idle" => dispatched \in T!Ds)
           /\ \A d \in T!Ds : d \in Nat
  BY DEF ToolInv, T!TypeOK, Group, T!Ds

\* A kill, at once or after the shell is gone, and the return of a call.
LEMMA KillStep ==
    ASSUME T!ToolStepAssumption, ToolInv, T!Spawn \/ T!Timeout \/ T!Abort \/ T!Close \/ T!Refused
    PROVE  Calls'
<1> DEFINE n == dispatched
<1>0. /\ call \in [T!Ds -> [settled : BOOLEAN, kill : {None, "timeout", "abort"}, reaped : BOOLEAN]]
      /\ group \in [T!Ds -> Group]
      /\ armed \in [T!Ds -> {None, "ref", "unref"}]
      /\ n \in Nat /\ n \in T!Ds /\ \A d \in T!Ds : d \in Nat
  BY CallTypes DEF T!Spawn, T!Timeout, T!Abort, T!Close, T!Refused
<1>1. /\ dispatched' = dispatched /\ outlived' = outlived /\ handler # "idle" /\ handler' # "idle"
      /\ (handler' \notin {"unlinked", "ready"} \/ handler' = handler)
  BY DEF T!Spawn, T!Timeout, T!Abort, T!Close, T!Refused
<1>2. \A d \in T!Ds : d # n => call'[d] = call[d] /\ group'[d] = group[d] /\ armed'[d] = armed[d]
  BY <1>0 DEF T!Spawn, T!Timeout, T!Abort, T!Close, T!Refused, T!KillTree
<1>3. CASE handler # "running" /\ T!Abort
  <2>1. UNCHANGED <<call, group, armed, outlived, dispatched, handler>>
    BY <1>3 DEF T!Abort
  <2> QED BY <2>1 DEF ToolInv, Calls, Unstarted, KillsReap, BackstopComes
<1>4. ASSUME handler = "running" \/ ~T!Abort
      PROVE  handler' \notin {"unlinked", "ready", "idle"}
  BY <1>4 DEF T!Spawn, T!Timeout, T!Abort, T!Close, T!Refused
<1>5. ASSUME handler = "running" \/ ~T!Abort
      PROVE  /\ call'[n].kill # None => call'[n].reaped
             /\ handler' = "running" => (call'[n].reaped => call'[n].kill # None)
             /\ group'[n].alive # {} => /\ call'[n].kill # None => armed'[n] = "ref" \/ outlived[n] = "crash"
                                        /\ call'[n].settled => armed'[n] # None
  <2>1. CASE T!Spawn
    <3>1. call[n] = T!Fresh /\ T!Reap(call[n], TRUE) = "ref"
      BY <1>0, <2>1 DEF T!Spawn, ToolInv, Unstarted, T!Fresh, T!Reap
    <3>2. CASE aborted
      <4>1. call'[n].kill = "abort" /\ call'[n].reaped /\ armed'[n] = "ref" /\ call'[n].settled = FALSE
        BY <1>0, <2>1, <3>1, <3>2 DEF T!Spawn, T!KillTree, T!Fresh
      <4> QED BY <4>1, NoneIsNew
    <3>3. CASE ~aborted
      <4>1. call'[n] = T!Fresh
        BY <2>1, <3>1, <3>3 DEF T!Spawn
      <4> QED BY <4>1 DEF T!Fresh
    <3> QED BY <3>2, <3>3
  <2>2. CASE T!Refused
    <3>1. call[n] = T!Fresh /\ group[n] = T!Empty
      BY <1>0, <2>2 DEF T!Refused, ToolInv, Unstarted
    <3>2. call'[n].kill = None /\ group'[n].alive = {} /\ handler' = "returned"
      BY <1>0, <2>2, <3>1 DEF T!Refused, T!Fresh, T!Empty
    <3> QED BY <3>2
  <2>3. CASE handler = "running" /\ (T!Timeout \/ T!Abort)
    <3>1. /\ call'[n].kill # None /\ call'[n].reaped /\ call'[n].settled = call[n].settled
          /\ armed'[n] = IF call[n].reaped THEN armed[n] ELSE "ref"
      BY <1>0, <2>3, NoneIsNew DEF T!Timeout, T!Abort, T!KillTree, T!Reap
    <3>2. group'[n].alive \subseteq group[n].alive
      BY <1>0, <2>3, TermType DEF T!Timeout, T!Abort
    <3>3. call[n].reaped => call[n].kill # None
      BY <2>3 DEF ToolInv, KillsReap
    <3>4. group'[n].alive # {} => armed'[n] = "ref" \/ outlived[n] = "crash"
      BY <1>0, <3>1, <3>2, <3>3 DEF ToolInv, BackstopComes
    <3>5. outlived[n] = None
      BY <1>0, <2>3 DEF ToolInv, KillsReap
    <3> QED BY <3>1, <3>4, <3>5, NoneIsNew
  <2>4. CASE T!Close
    <3>1. /\ call'[n].kill = call[n].kill /\ call'[n].reaped /\ handler' = "returned"
          /\ armed'[n] = IF call[n].reaped THEN armed[n] ELSE "unref"
      BY <1>0, <2>4 DEF T!Close, T!Reap
    <3>2. group'[n].alive \subseteq group[n].alive
      BY <1>0, <2>4, TermType DEF T!Close
    <3>3. (call[n].reaped <=> call[n].kill # None) /\ outlived[n] = None
      BY <1>0, <2>4 DEF T!Close, ToolInv, KillsReap
    <3>4. group'[n].alive # {} /\ call[n].kill # None => armed'[n] = "ref"
      BY <1>0, <3>1, <3>2, <3>3, NoneIsNew DEF ToolInv, BackstopComes
    <3> QED BY <3>1, <3>3, <3>4, NoneIsNew
  <2> QED BY <1>5, <2>1, <2>2, <2>3, <2>4 DEF T!Timeout
<1>6. outlived[n] = None
  BY <1>0, <1>1 DEF ToolInv, KillsReap
<1>7. ASSUME handler = "running" \/ ~T!Abort PROVE Calls'
  <2>1. Unstarted'
    BY <1>0, <1>1, <1>2, <1>4, <1>7 DEF ToolInv, Unstarted
  <2>2. KillsReap'
    <3>1. \A d \in T!Ds : call'[d].kill # None => call'[d].reaped
      BY <1>2, <1>5, <1>7 DEF ToolInv, KillsReap
    <3>2. \A d \in T!Ds : outlived'[d] # None => d < dispatched'
      BY <1>0, <1>1 DEF ToolInv, KillsReap
    <3> QED BY <1>1, <1>5, <1>7, <3>1, <3>2 DEF KillsReap
  <2>3. BackstopComes'
    <3> SUFFICES ASSUME NEW d \in T!Ds, group'[d].alive # {}
                 PROVE  /\ call'[d].kill # None => armed'[d] = "ref" \/ outlived'[d] = "crash"
                        /\ call'[d].settled => armed'[d] # None \/ outlived'[d] # None
                        /\ outlived'[d] = "exit" => call'[d].kill = None
      BY DEF BackstopComes
    <3>1. CASE d = n
      BY <1>1, <1>5, <1>6, <1>7, <3>1, NoneIsNew
    <3>2. CASE d # n
      BY <1>1, <1>2, <3>2 DEF ToolInv, BackstopComes
    <3> QED BY <3>1, <3>2
  <2> QED BY <2>1, <2>2, <2>3 DEF Calls
<1> QED BY <1>3, <1>7
\* A dispatch begins, goes on or ends without touching a process or a timer.
LEMMA HandlerStep ==
    ASSUME T!ToolStepAssumption, ToolInv, T!Dispatch \/ T!ScratchCreates \/ T!Returns \/ T!Read
    PROVE  Calls'
<1>1. UNCHANGED <<call, group, armed, outlived>>
  BY DEF T!Dispatch, T!ScratchCreates, T!Returns, T!Read
<1>2. dispatched \in Nat /\ \A d \in T!Ds : d \in Nat
  BY CallTypes
<1>3. CASE T!Dispatch
  <2>1. dispatched' = dispatched + 1 /\ handler = "idle"
    BY <1>3 DEF T!Dispatch
  <2>2. handler' # "running"
    BY <1>3 DEF T!Dispatch
  <2>3. Unstarted' /\ KillsReap' /\ BackstopComes'
    BY <1>1, <1>2, <2>1, <2>2 DEF ToolInv, Unstarted, KillsReap, BackstopComes
  <2> QED BY <2>3 DEF Calls
<1>4. CASE T!ScratchCreates \/ T!Returns \/ T!Read
  <2>1. /\ dispatched' = dispatched /\ handler # "idle"
        /\ handler' \in {"idle", "ready", "reading"} /\ (handler' = "ready" => handler = "unlinked")
    BY <1>4 DEF T!ScratchCreates, T!Returns, T!Read, T!Ends
  <2>2. Unstarted' /\ KillsReap' /\ BackstopComes'
    BY <1>1, <1>2, <2>1 DEF ToolInv, Unstarted, KillsReap, BackstopComes
  <2> QED BY <2>2 DEF Calls
<1> QED BY <1>3, <1>4

\* The executor dies, ends or starts again.
LEMMA ExecutorStep ==
    ASSUME T!ToolStepAssumption, ToolInv, T!Crash \/ T!Exit \/ T!Restart
    PROVE  Calls'
<1>0. /\ armed \in [T!Ds -> {None, "ref", "unref"}] /\ outlived \in [T!Ds -> {None, "crash", "exit"}]
      /\ dispatched \in Nat /\ \A d \in T!Ds : d \in Nat
  BY CallTypes
<1>1. UNCHANGED <<call, group, dispatched>>
  BY DEF T!Crash, T!Exit, T!Restart
<1>2. CASE T!Restart
  <2>1. UNCHANGED <<armed, outlived, handler>>
    BY <1>2 DEF T!Restart
  <2> QED BY <1>1, <2>1 DEF ToolInv, Calls, Unstarted, KillsReap, BackstopComes
<1>3. ASSUME NEW how \in {"crash", "exit"}, T!Forgets(how), handler' = "idle",
             how = "exit" => \A d \in T!Ds : armed[d] # "ref"
      PROVE  Calls'
  <2>1. \A d \in T!Ds : /\ armed'[d] = None
                        /\ outlived'[d] = IF outlived[d] = None /\ group[d].alive # {} THEN how ELSE outlived[d]
    BY <1>3 DEF T!Forgets
  <2>2. Unstarted'
    <3> SUFFICES ASSUME NEW d \in T!Ds, d > dispatched
                 PROVE  call[d] = T!Fresh /\ group[d] = T!Empty /\ armed'[d] = None /\ outlived'[d] = None
      BY <1>1, <1>3 DEF Unstarted
    <3>1. call[d] = T!Fresh /\ group[d] = T!Empty /\ outlived[d] = None
      BY DEF ToolInv, Unstarted
    <3>2. group[d].alive = {}
      BY <3>1 DEF T!Empty
    <3> QED BY <2>1, <3>1, <3>2
  <2>3. KillsReap'
    BY <1>1, <1>3 DEF ToolInv, KillsReap
  <2>4. BackstopComes'
    <3> SUFFICES ASSUME NEW d \in T!Ds, group[d].alive # {}
                 PROVE  /\ call[d].kill # None => outlived'[d] = "crash"
                        /\ outlived'[d] # None
                        /\ outlived'[d] = "exit" => call[d].kill = None
      BY <1>1 DEF BackstopComes
    <3>1. outlived'[d] = IF outlived[d] = None THEN how ELSE outlived[d]
      BY <2>1
    <3> QED BY <1>0, <1>3, <3>1, NoneIsNew DEF ToolInv, BackstopComes
  <2> QED BY <2>2, <2>3, <2>4 DEF Calls
<1> QED BY <1>2, <1>3 DEF T!Crash, T!Exit

\* Processes come, go and write.
LEMMA ProcessStep ==
    ASSUME T!ToolStepAssumption, ToolInv, NEW d \in T!Ds,
           T!Fork(d) \/ T!ShellEnds(d) \/ T!ChildEnds(d) \/ T!Backstop(d) \/ T!Writes(d)
    PROVE  Calls'
<1>0. /\ group \in [T!Ds -> Group] /\ armed \in [T!Ds -> {None, "ref", "unref"}]
  BY CallTypes
<1>1. UNCHANGED <<call, outlived, dispatched, handler>>
  BY DEF T!Fork, T!ShellEnds, T!ChildEnds, T!Backstop, T!Writes
<1>2. \A e \in T!Ds : e # d => group'[e] = group[e] /\ armed'[e] = armed[e]
  BY <1>0 DEF T!Fork, T!ShellEnds, T!ChildEnds, T!Backstop, T!Writes
<1>3. \/ group'[d].alive = {}
      \/ group[d].alive # {} /\ armed'[d] = armed[d]
      \/ group'[d] = group[d] /\ armed'[d] = armed[d]
  <2>1. ASSUME T!Fork(d) \/ T!ShellEnds(d) \/ T!ChildEnds(d) PROVE group[d].alive # {} /\ armed'[d] = armed[d]
    BY <2>1 DEF T!Fork, T!ShellEnds, T!ChildEnds
  <2>2. ASSUME T!Backstop(d) PROVE group'[d].alive = {}
    <3>1. group[d] \in Group /\ group[d].alive \in T!Processes /\ T!Signal \in T!Codes
      BY <1>0 DEF Group, T!Codes
    <3>2. T!Without(group[d], group[d].alive, T!Signal).alive = {}
      BY <3>1, WithoutType
    <3> QED BY <1>0, <2>2, <3>2 DEF T!Backstop
  <2>3. ASSUME T!Writes(d) PROVE group'[d] = group[d] /\ armed'[d] = armed[d]
    BY <2>3 DEF T!Writes
  <2> QED BY <2>1, <2>2, <2>3
<1>4. Unstarted'
  <2>1. ~Unstarted' => d > dispatched \/ (d = dispatched /\ handler \in {"unlinked", "ready"})
    BY <1>1, <1>2 DEF ToolInv, Unstarted
  <2>2. ASSUME d > dispatched \/ (d = dispatched /\ handler \in {"unlinked", "ready"})
        PROVE  group' = group /\ armed' = armed
    <3>1. group[d].alive = {} /\ armed[d] = None
      BY <2>2 DEF ToolInv, Unstarted, T!Empty
    <3> QED BY <3>1 DEF T!Fork, T!ShellEnds, T!ChildEnds, T!Backstop, T!Writes
  <2> QED BY <1>1, <2>1, <2>2 DEF ToolInv, Unstarted
<1>5. KillsReap'
  BY <1>1 DEF ToolInv, KillsReap
<1>6. BackstopComes'
  <2> SUFFICES ASSUME NEW e \in T!Ds, group'[e].alive # {}
               PROVE  /\ call[e].kill # None => armed'[e] = "ref" \/ outlived[e] = "crash"
                      /\ call[e].settled => armed'[e] # None \/ outlived[e] # None
                      /\ outlived[e] = "exit" => call[e].kill = None
    BY <1>1 DEF BackstopComes
  <2>1. group[e].alive # {} /\ armed'[e] = armed[e]
    BY <1>2, <1>3
  <2> QED BY <2>1 DEF ToolInv, BackstopComes
<1> QED BY <1>4, <1>5, <1>6 DEF Calls

\* What a dispatch returns, appends and reads.
LEMMA ResultStep ==
    ASSUME T!ToolStepAssumption, ToolInv, T!Next
    PROVE  UnderWay' /\ ScratchIsOwn' /\ T!EmissionIsFresh' /\ T!StopIsNotFailure'
<1> USE DEF T!Results
<1> DEFINE Good == UnderWay' /\ ScratchIsOwn' /\ T!EmissionIsFresh' /\ T!StopIsNotFailure'
<1>0. /\ UnderWay /\ ScratchIsOwn /\ T!EmissionIsFresh /\ T!StopIsNotFailure
      /\ told \in Nat /\ inode \in T!Inodes \union {None}
  BY DEF ToolInv, T!TypeOK
<1>1. CASE T!Dispatch
  BY <1>0, <1>1, NoneIsNew DEF T!Dispatch, UnderWay, ScratchIsOwn, T!EmissionIsFresh, T!StopIsNotFailure
<1>2. CASE T!ScratchCreates
  BY <1>0, <1>2, NoneIsNew DEF T!ScratchCreates, T!Ends, UnderWay, ScratchIsOwn, T!EmissionIsFresh, T!StopIsNotFailure
<1>3. ASSUME T!Refused \/ T!Spawn \/ T!Timeout \/ T!Close PROVE Good
  <2>1. /\ UNCHANGED <<step, dispatched, aborted, inode, outcome, told>>
        /\ handler \in {"ready", "running"} /\ handler' \in {"running", "returned"}
    BY <1>3 DEF T!Refused, T!Spawn, T!Timeout, T!Close
  <2> QED BY <1>0, <2>1 DEF UnderWay, ScratchIsOwn, T!EmissionIsFresh, T!StopIsNotFailure
<1>4. CASE T!Abort
  BY <1>0, <1>4, NoneIsNew DEF T!Abort, UnderWay, ScratchIsOwn, T!EmissionIsFresh, T!StopIsNotFailure
<1>5. CASE T!Returns
  <2>1. /\ UNCHANGED <<step, dispatched, aborted, inode>> /\ outcome.kind = None /\ outcome.code = None /\ told = 0
        /\ \/ /\ handler' = "idle" /\ outcome'.kind = "abort" /\ told' = 0
           \/ /\ handler' = "idle" /\ outcome'.kind = "fail" /\ told' = 1 /\ ~aborted
           \/ /\ handler' = "idle" /\ outcome'.kind = "success" /\ told' = 1 /\ ~aborted /\ ~step.produces
           \/ /\ handler' = "reading" /\ step.produces /\ UNCHANGED <<outcome, told>>
    BY <1>0, <1>5 DEF T!Returns, T!Ends, T!Tell, UnderWay
  <2>2. handler = "returned"
    BY <1>5 DEF T!Returns
  <2> QED BY <1>0, <2>1, <2>2 DEF UnderWay, ScratchIsOwn, T!EmissionIsFresh, T!StopIsNotFailure
<1>6. CASE T!Read
  <2>1. /\ UNCHANGED <<step, dispatched, aborted, inode>> /\ handler' = "idle" /\ told' = 1
        /\ outcome' = T!ReadScratch /\ handler = "reading" /\ step.produces
    BY <1>0, <1>6 DEF T!Read, T!Ends, T!Tell, UnderWay, ScratchIsOwn
  <2>2. /\ outcome'.code = 0 /\ outcome'.kind \in {"fail", "halt", "success"}
        /\ outcome'.kind = "success" => /\ ~aborted /\ outcome'.emission = inode /\ inode # None
                                        /\ inode.kind = "good"
    BY <2>1 DEF T!ReadScratch
  <2>3. outcome'.kind = "success" => inode.at = dispatched
    BY <1>0, <2>1, <2>2 DEF ScratchIsOwn
  <2> QED BY <2>1, <2>2, <2>3 DEF UnderWay, ScratchIsOwn, T!EmissionIsFresh, T!StopIsNotFailure
<1>7. ASSUME T!Crash \/ T!Exit \/ T!Restart PROVE Good
  BY <1>0, <1>7 DEF T!Crash, T!Exit, T!Restart, UnderWay, ScratchIsOwn, T!EmissionIsFresh, T!StopIsNotFailure
<1>8. ASSUME NEW d \in T!Ds, T!Fork(d) \/ T!ShellEnds(d) \/ T!ChildEnds(d) \/ T!Backstop(d) \/ T!Writes(d)
      PROVE  Good
  <2>1. UNCHANGED <<step, dispatched, handler, aborted, outcome, told>>
    BY <1>8 DEF T!Fork, T!ShellEnds, T!ChildEnds, T!Backstop, T!Writes
  <2>2. inode' = inode \/ inode'.at = dispatched
    <3>1. ASSUME T!Writes(d) PROVE inode' = inode \/ inode'.at = dispatched
      BY <3>1 DEF T!Writes
    <3>2. ASSUME ~T!Writes(d) PROVE inode' = inode
      BY <1>8, <3>2 DEF T!Fork, T!ShellEnds, T!ChildEnds, T!Backstop
    <3> QED BY <3>1, <3>2
  <2> QED BY <1>0, <2>1, <2>2 DEF UnderWay, ScratchIsOwn, T!EmissionIsFresh, T!StopIsNotFailure
<1> QED BY <1>1, <1>2, <1>3, <1>4, <1>5, <1>6, <1>7, <1>8 DEF T!Next

LEMMA ToolStepKeeps == T!ToolStepAssumption /\ ToolInv /\ [T!Next]_T!vars => ToolInv'
<1> SUFFICES ASSUME T!ToolStepAssumption, ToolInv, [T!Next]_T!vars PROVE ToolInv'
  OBVIOUS
<1>1. CASE T!Next
  <2>1. Calls'
    BY <1>1, HandlerStep, KillStep, ExecutorStep, ProcessStep DEF T!Next
  <2> QED BY <1>1, <2>1, ToolTypes, ResultStep DEF ToolInv, Calls
<1>2. CASE UNCHANGED T!vars
  BY <1>2 DEF T!vars, ToolInv, T!TypeOK, Unstarted, KillsReap, BackstopComes, UnderWay, ScratchIsOwn,
              T!EmissionIsFresh, T!StopIsNotFailure
<1> QED BY <1>1, <1>2

LEMMA ToolInvariance == ASSUME T!ToolStepAssumption PROVE T!Spec => []ToolInv
<1>1. ToolInv /\ [T!Next]_T!vars => ToolInv'
  BY ToolStepKeeps
<1> QED BY <1>1, ToolInit, PTL DEF T!Spec

\* Every reachable state of ToolStep is well typed.
THEOREM ToolStepTypeCorrect == ASSUME T!ToolStepAssumption PROVE T!Spec => []T!TypeOK
<1>1. ToolInv => T!TypeOK
  BY DEF ToolInv
<1> QED BY <1>1, ToolInvariance, PTL

\* For any number of dispatches: a process that outlives its call has the
\* SIGKILL coming unless the executor died, or ended after a call that nobody
\* had to kill; an output that is taken was written during its dispatch; and a
\* stop is never taken for the command failing.
THEOREM ToolStepSoundHolds == ASSUME T!ToolStepAssumption PROVE T!Spec => []T!ToolStepSound
<1>1. T!ToolStepAssumption /\ ToolInv => T!ToolStepSound
  <2> SUFFICES ASSUME T!ToolStepAssumption, ToolInv PROVE T!NobodyStranded
    BY DEF ToolInv, T!ToolStepSound
  <2> QED BY CallTypes, NoneIsNew DEF ToolInv, BackstopComes, T!NobodyStranded
<1> QED BY <1>1, ToolInvariance, PTL

-----------------------------------------------------------------------------
(* The file tools.                                                         *)

\* What the variables without a type are: texts are never looked into here.
Shapes ==
    /\ file = [f \in Files |-> file[f]]
    /\ work = [c \in ToolCalls |-> [from |-> work[c].from, seen |-> work[c].seen, text |-> work[c].text]]

(* Who waits or works is in the queue of its key, once; whoever waits or   *)
(* is done has asked for something.                                        *)
Waiting(c) == stage[c] = "queued" \/ c \in F!Inside
InQueue == \A c \in ToolCalls : Waiting(c) => \E i \in 1 .. Len(queue[F!Key(c)]) : queue[F!Key(c)][i] = c
Once == \A k \in QueueKeys : \A i, j \in 1 .. Len(queue[k]) : queue[k][i] = queue[k][j] => i = j
Asked == \A c \in ToolCalls : stage[c] # "idle" => req[c] # None
Queues == InQueue /\ Once /\ Asked /\ F!Serialized /\ F!NeverWedged

(* Whoever is past the queue has a file.                                   *)
Placed == \A c \in F!Inside : F!Target(c) # None

(* A file that is renamed is whole, and whoever wrote a file is done.      *)
Renames == \A c \in ToolCalls : stage[c] = "renaming" => tmp[c] = "whole"
Writers == \A f \in Files : last[f] \in ToolCalls => stage[last[f]] = "done"

\* What an edit read is still there, or the file was written past its queue.
Editing(c) == stage[c] \in {"writing", "filling", "renaming"} /\ req[c].tool = "edit"
Lands == \A c \in ToolCalls : Editing(c) => F!LandsOn(c)

FilesInv == F!TypeOK /\ Shapes /\ Queues /\ Placed /\ Renames /\ Writers /\ F!Whole /\ Lands

\* Waiting, as a matter of stages.
LEMMA WaitingStages ==
    ASSUME NEW c \in ToolCalls
    PROVE  Waiting(c) <=> stage[c] \in {"queued", "reading", "writing", "filling", "renaming"}
  BY DEF Waiting, F!Inside

\* NeverWedged, of a call in a queue.
InOrder == \A k \in QueueKeys : \A i \in 1 .. Len(queue[k]) : \A d : queue[k][i] = d => Waiting(d) /\ F!Key(d) = k
LEMMA InOrderMeans == (F!NeverWedged <=> InOrder) /\ (F!NeverWedged' <=> InOrder')
  BY DEF F!NeverWedged, InOrder, Waiting

\* A call that has asked names a queue.
LEMMA KeyType ==
    ASSUME F!FileToolsAssumption, F!TypeOK, NEW c \in ToolCalls, req[c] # None
    PROVE  req[c] \in Requests /\ req[c].name \in Names /\ F!Key(c) \in QueueKeys
<1>1. req[c] \in Requests
  BY DEF F!TypeOK
<1>2. Requests \subseteq [tool : {"write", "edit"}, name : Names, text : F!Texts, edits : F!Edits]
  BY DEF F!FileToolsAssumption
<1>3. req[c].name \in Names
  <2>1. \A r \in [tool : {"write", "edit"}, name : Names, text : F!Texts, edits : F!Edits] : r.name \in Names
    OBVIOUS
  <2> QED BY <1>1, <1>2, <2>1
<1>4. KeyOf[req[c].name] \in QueueKeys
  BY <1>3 DEF F!FileToolsAssumption
<1> QED BY <1>1, <1>3, <1>4 DEF F!Key, F!Name

\* The initial state satisfies the invariant.
LEMMA FilesInit == F!FileToolsAssumption /\ F!Init => FilesInv
<1> SUFFICES ASSUME F!FileToolsAssumption, F!Init PROVE FilesInv
  OBVIOUS
<1>1. F!TypeOK
  BY DEF F!TypeOK, F!Init, F!FileToolsAssumption, F!Writers, F!Steps
<1>2. Shapes
  BY DEF Shapes, F!Init, F!NoWork
<1>3. Queues
  BY DEF Queues, InQueue, Once, Asked, Waiting, F!Inside, F!Serialized, F!NeverWedged, F!Init
<1>4. Placed /\ Renames /\ Lands
  BY DEF Placed, F!Inside, Renames, Lands, Editing, F!Init
<1>5. \A f \in Files : last[f] \notin ToolCalls
  BY DEF F!Init, F!FileToolsAssumption
<1> QED BY <1>1, <1>2, <1>3, <1>4, <1>5 DEF FilesInv, Writers, F!Whole

-----------------------------------------------------------------------------
\* What leaving a queue does to it: everybody behind moves up by one.
LEMMA LeaveQueue ==
    ASSUME F!FileToolsAssumption, F!TypeOK, Queues, NEW c \in ToolCalls, Waiting(c), F!Turn(c),
           NEW how \in {"done", "failed"}, F!Leave(c, how)
    PROVE  /\ F!Key(c) \in QueueKeys /\ Len(queue[F!Key(c)]) > 0 /\ queue[F!Key(c)][1] = c
           /\ Len(queue'[F!Key(c)]) = Len(queue[F!Key(c)]) - 1
           /\ \A i \in 1 .. Len(queue'[F!Key(c)]) : queue'[F!Key(c)][i] = queue[F!Key(c)][i + 1]
           /\ queue' \in [QueueKeys -> Seq(ToolCalls)]
           /\ \A k \in QueueKeys : k # F!Key(c) => queue'[k] = queue[k]
           /\ stage' \in [ToolCalls -> F!Steps]
           /\ stage'[c] = how /\ \A d \in ToolCalls : d # c => stage'[d] = stage[d]
<1>1. stage[c] # "idle"
  BY WaitingStages
<1>2. F!Key(c) \in QueueKeys
  BY <1>1, KeyType DEF Queues, Asked
<1>3. queue[F!Key(c)] \in Seq(ToolCalls) /\ queue[F!Key(c)] # <<>> /\ Len(queue[F!Key(c)]) > 0
  <2>1. queue[F!Key(c)] \in Seq(ToolCalls)
    BY <1>2 DEF F!TypeOK
  <2>2. \E i \in 1 .. Len(queue[F!Key(c)]) : TRUE
    BY DEF Queues, InQueue
  <2> QED BY <2>1, <2>2
<1>4. queue[F!Key(c)][1] = c
  BY <1>3 DEF F!Turn
<1>5. /\ Tail(queue[F!Key(c)]) \in Seq(ToolCalls)
      /\ Len(Tail(queue[F!Key(c)])) = Len(queue[F!Key(c)]) - 1
      /\ \A i \in 1 .. Len(Tail(queue[F!Key(c)])) : Tail(queue[F!Key(c)])[i] = queue[F!Key(c)][i + 1]
  BY <1>3
<1>6. queue' = [queue EXCEPT ![F!Key(c)] = Tail(queue[F!Key(c)])]
  BY DEF F!Leave
<1>7. queue \in [QueueKeys -> Seq(ToolCalls)] /\ stage \in [ToolCalls -> F!Steps]
  BY DEF F!TypeOK
<1>8. queue' \in [QueueKeys -> Seq(ToolCalls)] /\ queue'[F!Key(c)] = Tail(queue[F!Key(c)])
      /\ \A k \in QueueKeys : k # F!Key(c) => queue'[k] = queue[k]
  BY <1>2, <1>5, <1>6, <1>7
<1>9. /\ stage' \in [ToolCalls -> F!Steps] /\ stage'[c] = how
      /\ \A d \in ToolCalls : d # c => stage'[d] = stage[d]
  BY <1>7 DEF F!Leave, F!Steps
<1> QED BY <1>2, <1>3, <1>4, <1>5, <1>8, <1>9

\* A call that leaves keeps the queues in order.
LEMMA LeaveKeeps ==
    ASSUME F!FileToolsAssumption, F!TypeOK, Queues, NEW c \in ToolCalls, Waiting(c), F!Turn(c),
           NEW how \in {"done", "failed"}, F!Leave(c, how), req' = req
    PROVE  Queues'
<1> DEFINE K == F!Key(c)
<1>1. /\ K \in QueueKeys /\ Len(queue[K]) > 0 /\ queue[K][1] = c
      /\ Len(queue'[K]) = Len(queue[K]) - 1
      /\ \A i \in 1 .. Len(queue'[K]) : queue'[K][i] = queue[K][i + 1]
      /\ queue' \in [QueueKeys -> Seq(ToolCalls)]
      /\ \A k \in QueueKeys : k # K => queue'[k] = queue[k]
      /\ stage'[c] = how /\ \A d \in ToolCalls : d # c => stage'[d] = stage[d]
  BY LeaveQueue
<1>2. /\ \A d \in ToolCalls : F!Key(d)' = F!Key(d)
      /\ ~ Waiting(c)' /\ \A d \in ToolCalls : d # c => (Waiting(d)' <=> Waiting(d))
      /\ \A d \in ToolCalls : Waiting(d) => F!Key(d) \in QueueKeys
      /\ \A k \in QueueKeys : Len(queue[k]) \in Nat /\ Len(queue'[k]) \in Nat
  <2>1. \A d \in ToolCalls : F!Key(d)' = F!Key(d)
    BY DEF F!Key, F!Name
  <2>2. \A d \in ToolCalls : Waiting(d)' <=> stage'[d] \in {"queued", "reading", "writing", "filling", "renaming"}
    BY DEF Waiting, F!Inside
  <2>3. \A d \in ToolCalls : Waiting(d) => F!Key(d) \in QueueKeys
    BY WaitingStages, KeyType DEF Queues, Asked
  <2>4. \A k \in QueueKeys : Len(queue[k]) \in Nat /\ Len(queue'[k]) \in Nat
    BY <1>1 DEF F!TypeOK
  <2> QED BY <1>1, <2>1, <2>2, <2>3, <2>4, WaitingStages
<1>3. InQueue'
  <2> SUFFICES ASSUME NEW d \in ToolCalls, Waiting(d)'
               PROVE  \E i \in 1 .. Len(queue'[F!Key(d)]) : queue'[F!Key(d)][i] = d
    BY <1>2 DEF InQueue
  <2>1. d # c /\ Waiting(d) /\ F!Key(d) \in QueueKeys
    BY <1>2
  <2>2. PICK i \in 1 .. Len(queue[F!Key(d)]) : queue[F!Key(d)][i] = d
    BY <2>1 DEF Queues, InQueue
  <2>3. CASE F!Key(d) = K
    <3>1. i # 1
      BY <1>1, <2>1, <2>2, <2>3
    <3>2. i - 1 \in 1 .. Len(queue'[K]) /\ i = (i - 1) + 1
      BY <1>1, <1>2, <2>2, <2>3, <3>1
    <3>3. queue'[K][i - 1] = queue[K][(i - 1) + 1]
      BY <1>1, <3>2
    <3>4. queue'[K][i - 1] = d
      BY <2>2, <2>3, <3>2, <3>3
    <3> QED BY <2>3, <3>2, <3>4
  <2>4. CASE F!Key(d) # K
    BY <1>1, <2>1, <2>2, <2>4
  <2> QED BY <2>3, <2>4
<1>4. Once'
  <2> SUFFICES ASSUME NEW k \in QueueKeys, NEW i \in 1 .. Len(queue'[k]), NEW j \in 1 .. Len(queue'[k]),
                      queue'[k][i] = queue'[k][j]
               PROVE  i = j
    BY DEF Once
  <2>1. CASE k = K
    <3>1. /\ i + 1 \in 1 .. Len(queue[K]) /\ j + 1 \in 1 .. Len(queue[K])
          /\ queue[K][i + 1] = queue[K][j + 1]
      BY <1>1, <1>2, <2>1
    <3>2. i + 1 = j + 1
      BY <1>1, <3>1 DEF Queues, Once
    <3> QED BY <3>2
  <2>2. CASE k # K
    BY <1>1, <2>2 DEF Queues, Once
  <2> QED BY <2>1, <2>2
<1>5. Asked'
  <2>1. stage[c] # "idle"
    BY WaitingStages
  <2> QED BY <1>1, <2>1 DEF Queues, Asked
<1>6. F!Serialized'
  <2> SUFFICES ASSUME NEW d \in ToolCalls, (d \in F!Inside)'
               PROVE  queue'[F!Key(d)] # <<>> /\ Head(queue'[F!Key(d)]) = d
    BY <1>2 DEF F!Serialized, F!Turn, F!Inside
  <2>1. d # c /\ d \in F!Inside
    BY <1>1 DEF F!Inside
  <2>2. queue[F!Key(d)] # <<>> /\ Head(queue[F!Key(d)]) = d
    BY <2>1 DEF Queues, F!Serialized, F!Turn
  <2>3. F!Key(d) # K
    BY <2>1, <2>2 DEF F!Turn
  <2>4. F!Key(d) \in QueueKeys
    BY <1>2, <2>1 DEF Waiting
  <2> QED BY <1>1, <2>2, <2>3, <2>4
<1>7. F!NeverWedged'
  <2> SUFFICES ASSUME NEW k \in QueueKeys, NEW i \in 1 .. Len(queue'[k]), NEW d, queue'[k][i] = d
               PROVE  Waiting(d)' /\ F!Key(d)' = k
    BY InOrderMeans DEF InOrder
  <2>1. PICK j \in 1 .. Len(queue[k]) : queue[k][j] = d /\ d # c
    <3>1. CASE k = K
      <4>1. i + 1 \in 1 .. Len(queue[K]) /\ 1 \in 1 .. Len(queue[K]) /\ i + 1 # 1
        BY <1>1, <1>2, <3>1
      <4>2. queue[K][i + 1] # queue[K][1]
        BY <1>1, <4>1 DEF Queues, Once
      <4> QED BY <1>1, <3>1, <4>1, <4>2
    <3>2. CASE k # K
      <4>1. queue'[k] = queue[k] /\ (queue[k][i] = d => F!Key(d) = k)
        BY <1>1, <3>2 DEF Queues, F!NeverWedged
      <4> QED BY <3>2, <4>1
    <3> QED BY <3>1, <3>2
  <2>2. d \in ToolCalls
    BY <2>1 DEF F!TypeOK
  <2>3. Waiting(d) /\ F!Key(d) = k
    BY <2>1, InOrderMeans DEF Queues, InOrder
  <2> QED BY <1>2, <2>1, <2>2, <2>3
<1> QED BY <1>3, <1>4, <1>5, <1>6, <1>7 DEF Queues

\* A call at its turn that goes on keeps the queues in order.
LEMMA MoveKeeps ==
    ASSUME F!FileToolsAssumption, F!TypeOK, Queues, NEW c \in ToolCalls, Waiting(c), F!Turn(c),
           NEW how \in {"reading", "writing", "filling", "renaming"},
           stage' = [stage EXCEPT ![c] = how], UNCHANGED <<queue, req>>
    PROVE  Queues'
<1>1. stage'[c] = how /\ \A d \in ToolCalls : d # c => stage'[d] = stage[d]
  BY DEF F!TypeOK
<1>2. \A d \in ToolCalls : (Waiting(d)' <=> Waiting(d)) /\ F!Key(d)' = F!Key(d)
  <2>1. \A d \in ToolCalls : Waiting(d)' <=> stage'[d] \in {"queued", "reading", "writing", "filling", "renaming"}
    BY DEF Waiting, F!Inside
  <2> QED BY <1>1, <2>1, WaitingStages DEF F!Key, F!Name
<1>3. InQueue' /\ Once'
  BY <1>2 DEF Queues, InQueue, Once
<1>4. Asked'
  <2>1. stage[c] # "idle"
    BY WaitingStages
  <2> QED BY <1>1, <2>1 DEF Queues, Asked
<1>5. F!Serialized'
  <2> SUFFICES ASSUME NEW d \in ToolCalls, (d \in F!Inside)'
               PROVE  queue[F!Key(d)] # <<>> /\ Head(queue[F!Key(d)]) = d
    BY <1>2 DEF F!Serialized, F!Turn, F!Inside
  <2>1. CASE d = c
    <3>1. \E i \in 1 .. Len(queue[F!Key(c)]) : TRUE
      BY DEF Queues, InQueue
    <3>2. queue[F!Key(c)] # <<>>
      BY <3>1
    <3> QED BY <2>1, <3>2 DEF F!Turn
  <2>2. CASE d # c
    BY <1>1, <2>2 DEF F!Inside, Queues, F!Serialized, F!Turn
  <2> QED BY <2>1, <2>2
<1>6. F!NeverWedged'
  <2>1. \A k \in QueueKeys : \A i \in 1 .. Len(queue[k]) : queue[k][i] \in ToolCalls
    BY DEF F!TypeOK
  <2>2. InOrder
    BY InOrderMeans DEF Queues
  <2> QED BY <1>2, <2>1, <2>2, InOrderMeans DEF InOrder
<1> QED BY <1>3, <1>4, <1>5, <1>6 DEF Queues

\* A call that enters goes to the end of its queue.
LEMMA EnterKeeps ==
    ASSUME F!FileToolsAssumption, F!TypeOK, Queues, NEW c \in ToolCalls, F!Enter(c)
    PROVE  Queues' /\ F!TypeOK'
<1>1. stage[c] = "idle" /\ ~Waiting(c) /\ c \notin F!Inside
  BY WaitingStages DEF F!Enter, Waiting
<1>2. PICK r \in Requests :
        /\ req' = [req EXCEPT ![c] = r]
        /\ \/ stage' = [stage EXCEPT ![c] = "failed"] /\ UNCHANGED queue
           \/ /\ stage' = [stage EXCEPT ![c] = "queued"]
              /\ queue' = [queue EXCEPT ![KeyOf[r.name]] = Append(queue[KeyOf[r.name]], c)]
  BY DEF F!Enter
<1>3. r # None /\ r.name \in Names /\ KeyOf[r.name] \in QueueKeys
  <2>1. r # None
    BY DEF F!FileToolsAssumption
  <2>2. r \in [tool : {"write", "edit"}, name : Names, text : F!Texts, edits : F!Edits]
    BY DEF F!FileToolsAssumption
  <2>3. r.name \in Names
    BY <2>2
  <2> QED BY <2>1, <2>3 DEF F!FileToolsAssumption
<1> DEFINE K == KeyOf[r.name]
<1>4. /\ req' \in [ToolCalls -> Requests \union {None}] /\ stage' \in [ToolCalls -> F!Steps]
      /\ req'[c] = r /\ \A d \in ToolCalls : d # c => req'[d] = req[d] /\ stage'[d] = stage[d]
      /\ stage'[c] \in {"failed", "queued"}
  <2>1. req \in [ToolCalls -> Requests \union {None}] /\ stage \in [ToolCalls -> F!Steps]
    BY DEF F!TypeOK
  <2>2. "failed" \in F!Steps /\ "queued" \in F!Steps
    BY DEF F!Steps
  <2> QED BY <1>2, <2>1, <2>2
<1>5. /\ F!Key(c)' = K
      /\ \A d \in ToolCalls : d # c => F!Key(d)' = F!Key(d) /\ (Waiting(d)' <=> Waiting(d))
      /\ Waiting(c)' <=> stage'[c] = "queued"
      /\ \A d \in ToolCalls : ((d \in F!Inside)' <=> d \in F!Inside)
  <2>1. \A d \in ToolCalls : Waiting(d)' <=> stage'[d] \in {"queued", "reading", "writing", "filling", "renaming"}
    BY DEF Waiting, F!Inside
  <2>2. F!Key(c)' = K /\ \A d \in ToolCalls : d # c => F!Key(d)' = F!Key(d)
    BY <1>4 DEF F!Key, F!Name
  <2>3. \A d \in ToolCalls : ((d \in F!Inside)' <=> d \in F!Inside)
    BY <1>1, <1>4 DEF F!Inside
  <2> QED BY <1>4, <2>1, <2>2, <2>3, WaitingStages
<1>6. Asked'
  BY <1>3, <1>4 DEF Queues, Asked
<1>7. UNCHANGED <<file, last, work, tmp, commands, faults>>
  BY DEF F!Enter, F!bounds
<1>8. CASE UNCHANGED queue /\ stage'[c] = "failed"
  <2>1. InQueue'
    BY <1>5, <1>8 DEF Queues, InQueue
  <2>2. F!Serialized'
    <3> SUFFICES ASSUME NEW d \in ToolCalls, (d \in F!Inside)'
                 PROVE  queue'[F!Key(d)'] # <<>> /\ Head(queue'[F!Key(d)']) = d
      BY DEF F!Serialized, F!Turn, F!Inside
    <3>1. d \in F!Inside /\ d # c
      BY <1>1, <1>5
    <3> QED BY <1>5, <1>8, <3>1 DEF Queues, F!Serialized, F!Turn
  <2>3. F!NeverWedged'
    <3>1. \A k \in QueueKeys : \A i \in 1 .. Len(queue[k]) : queue[k][i] \in ToolCalls /\ queue[k][i] # c
      BY <1>1, InOrderMeans DEF F!TypeOK, Queues, InOrder
    <3>2. InOrder
      BY InOrderMeans DEF Queues
    <3> QED BY <1>5, <1>8, <3>1, <3>2, InOrderMeans DEF InOrder
  <2>4. F!TypeOK'
    BY <1>4, <1>7, <1>8 DEF F!TypeOK
  <2> QED BY <1>6, <1>8, <2>1, <2>2, <2>3, <2>4 DEF Queues, Once
<1>9. CASE /\ stage'[c] = "queued"
           /\ queue' = [queue EXCEPT ![K] = Append(queue[K], c)]
  <2>1. queue \in [QueueKeys -> Seq(ToolCalls)] /\ queue[K] \in Seq(ToolCalls)
    BY <1>3 DEF F!TypeOK
  <2>2. /\ queue' \in [QueueKeys -> Seq(ToolCalls)]
        /\ \A k \in QueueKeys : k # K => queue'[k] = queue[k]
        /\ queue'[K] = Append(queue[K], c)
    BY <1>3, <1>9, <2>1
  <2>3. /\ Len(queue'[K]) = Len(queue[K]) + 1 /\ queue'[K][Len(queue[K]) + 1] = c
        /\ Len(queue[K]) \in Nat
        /\ \A i \in 1 .. Len(queue[K]) : queue'[K][i] = queue[K][i]
    BY <2>1, <2>2
  <2>4. \A k \in QueueKeys : \A i \in 1 .. Len(queue[k]) : queue[k][i] \in ToolCalls /\ queue[k][i] # c
    BY <1>1, InOrderMeans DEF F!TypeOK, Queues, InOrder
  <2>5. \A k \in QueueKeys : \A i \in 1 .. Len(queue[k]) : i \in 1 .. Len(queue'[k]) /\ queue'[k][i] = queue[k][i]
    <3> SUFFICES ASSUME NEW k \in QueueKeys, NEW i \in 1 .. Len(queue[k])
                 PROVE  i \in 1 .. Len(queue'[k]) /\ queue'[k][i] = queue[k][i]
      OBVIOUS
    <3>1. CASE k = K
      <4>1. i \in 1 .. Len(queue[K])
        BY <3>1
      <4> QED BY <2>3, <3>1, <4>1
    <3>2. CASE k # K
      <4>1. queue'[k] = queue[k]
        BY <2>2, <3>2
      <4> QED BY <4>1
    <3> QED BY <3>1, <3>2
  <2>6. \A k \in QueueKeys : \A i \in 1 .. Len(queue'[k]) :
            (i \in 1 .. Len(queue[k]) /\ queue'[k][i] = queue[k][i]) \/ (k = K /\ i = Len(queue[K]) + 1 /\ queue'[k][i] = c)
    <3> SUFFICES ASSUME NEW k \in QueueKeys, NEW i \in 1 .. Len(queue'[k]), ~ (k = K /\ i = Len(queue[K]) + 1)
                 PROVE  i \in 1 .. Len(queue[k]) /\ queue'[k][i] = queue[k][i]
      BY <2>3
    <3>1. CASE k = K
      <4>1. i \in 1 .. Len(queue[K])
        BY <2>3, <3>1
      <4> QED BY <2>5, <3>1, <4>1
    <3>2. CASE k # K
      <4>1. queue'[k] = queue[k]
        BY <2>2, <3>2
      <4> QED BY <4>1
    <3> QED BY <3>1, <3>2
  <2>7. InQueue'
    <3> SUFFICES ASSUME NEW d \in ToolCalls, Waiting(d)'
                 PROVE  \E i \in 1 .. Len(queue'[F!Key(d)']) : queue'[F!Key(d)'][i] = d
      BY DEF InQueue
    <3>1. CASE d = c
      BY <1>5, <2>3, <3>1
    <3>2. CASE d # c
      <4>1. Waiting(d) /\ F!Key(d)' = F!Key(d)
        BY <1>5, <3>2
      <4>2. F!Key(d) \in QueueKeys
        BY <4>1, WaitingStages, KeyType DEF Queues, Asked
      <4>3. PICK i \in 1 .. Len(queue[F!Key(d)]) : queue[F!Key(d)][i] = d
        BY <4>1 DEF Queues, InQueue
      <4> QED BY <2>5, <4>1, <4>2, <4>3
    <3> QED BY <3>1, <3>2
  <2>8. Once'
    <3> SUFFICES ASSUME NEW k \in QueueKeys, NEW i \in 1 .. Len(queue'[k]), NEW j \in 1 .. Len(queue'[k]),
                        queue'[k][i] = queue'[k][j]
                 PROVE  i = j
      BY DEF Once
    <3>1. CASE queue'[k][i] = c
      BY <2>4, <2>6, <3>1
    <3>2. CASE queue'[k][i] # c
      <4>1. i \in 1 .. Len(queue[k]) /\ j \in 1 .. Len(queue[k]) /\ queue[k][i] = queue[k][j]
        BY <2>6, <3>2
      <4> QED BY <4>1 DEF Queues, Once
    <3> QED BY <3>1, <3>2
  <2>9. F!Serialized'
    <3> SUFFICES ASSUME NEW d \in ToolCalls, (d \in F!Inside)'
                 PROVE  queue'[F!Key(d)'] # <<>> /\ Head(queue'[F!Key(d)']) = d
      BY DEF F!Serialized, F!Turn, F!Inside
    <3>1. d \in F!Inside /\ d # c /\ F!Key(d)' = F!Key(d)
      BY <1>1, <1>5
    <3>2. queue[F!Key(d)] # <<>> /\ Head(queue[F!Key(d)]) = d
      BY <3>1 DEF Queues, F!Serialized, F!Turn
    <3>3. F!Key(d) \in QueueKeys
      BY <3>1, WaitingStages, KeyType DEF Queues, Asked, Waiting
    <3>4. queue[F!Key(d)] \in Seq(ToolCalls) /\ queue'[F!Key(d)] \in Seq(ToolCalls)
      BY <2>1, <2>2, <3>3
    <3>5. 1 \in 1 .. Len(queue[F!Key(d)]) /\ queue[F!Key(d)][1] = d
      BY <3>2, <3>4
    <3>6. 1 \in 1 .. Len(queue'[F!Key(d)]) /\ queue'[F!Key(d)][1] = d
      BY <2>5, <3>3, <3>5
    <3> QED BY <3>1, <3>4, <3>6
  <2>10. F!NeverWedged'
    <3> SUFFICES ASSUME NEW k \in QueueKeys, NEW i \in 1 .. Len(queue'[k]), NEW d, queue'[k][i] = d
                 PROVE  Waiting(d)' /\ F!Key(d)' = k
      BY InOrderMeans DEF InOrder
    <3>1. CASE i \in 1 .. Len(queue[k]) /\ queue'[k][i] = queue[k][i]
      <4>1. d \in ToolCalls /\ d # c
        BY <2>4, <3>1
      <4>2. Waiting(d) /\ F!Key(d) = k
        BY <3>1, InOrderMeans DEF Queues, InOrder
      <4> QED BY <1>5, <4>1, <4>2
    <3>2. CASE k = K /\ d = c
      BY <1>5, <1>9, <3>2
    <3> QED BY <2>6, <3>1, <3>2
  <2>11. F!TypeOK'
    BY <1>4, <1>7, <2>2 DEF F!TypeOK
  <2> QED BY <1>6, <2>7, <2>8, <2>9, <2>10, <2>11 DEF Queues
<1>10. stage \in [ToolCalls -> F!Steps]
  BY DEF F!TypeOK
<1> QED BY <1>2, <1>8, <1>9, <1>10

\* A step of one call at its turn that leaves the files alone.
LEMMA QuietStep ==
    ASSUME FilesInv, NEW c \in ToolCalls, Waiting(c), UNCHANGED <<file, last, req>>,
           \A d \in ToolCalls : d # c => stage'[d] = stage[d] /\ work'[d] = work[d] /\ tmp'[d] = tmp[d],
           stage'[c] = "renaming" => tmp'[c] = "whole",
           Editing(c)' => F!LandsOn(c)',
           (c \in F!Inside)' => F!Target(c) # None
    PROVE  Placed' /\ Renames' /\ Writers' /\ F!Whole' /\ Lands'
<1>1. stage[c] # "done"
  BY WaitingStages
<1>2. \A f \in Files : last[f] \in ToolCalls => last[f] # c /\ stage[last[f]] = "done"
  BY <1>1 DEF FilesInv, Writers
<1>3. Renames'
  BY DEF FilesInv, Renames
<1>4. Writers'
  BY <1>2 DEF Writers
<1>5. F!Whole'
  BY <1>2 DEF FilesInv, F!Whole
<1>6. Lands'
  <2> SUFFICES ASSUME NEW d \in ToolCalls, Editing(d)' PROVE F!LandsOn(d)'
    BY DEF Lands
  <2>1. CASE d # c
    <3>1. Editing(d)
      BY <2>1 DEF Editing
    <3>2. F!LandsOn(d)
      BY <3>1 DEF FilesInv, Lands
    <3> QED BY <2>1, <3>2 DEF F!LandsOn, F!Target, F!Key, F!Name
  <2> QED BY <2>1
<1>7. Placed'
  <2> SUFFICES ASSUME NEW d \in ToolCalls, (d \in F!Inside)' PROVE F!Target(d)' # None
    BY DEF Placed, F!Inside
  <2>1. F!Target(d)' = F!Target(d)
    BY DEF F!Target, F!Name
  <2>2. d # c => d \in F!Inside
    BY DEF F!Inside
  <2> QED BY <2>1, <2>2 DEF FilesInv, Placed
<1> QED BY <1>3, <1>4, <1>5, <1>6, <1>7

\* What a call may be asked, and where its file is.
LEMMA TargetType ==
    ASSUME F!FileToolsAssumption, F!TypeOK, NEW c \in ToolCalls, req[c] # None
    PROVE  F!Target(c) \in Files \union {None}
  BY KeyType DEF F!FileToolsAssumption, F!Target, F!Name

\* Who is past the queue is at its turn.
LEMMA AtTurn ==
    ASSUME Queues, NEW c \in ToolCalls, c \in F!Inside
    PROVE  Waiting(c) /\ F!Turn(c)
  BY DEF Queues, F!Serialized, Waiting

\* A call begins, or is told that there is nothing to edit.
LEMMA BeginStep ==
    ASSUME F!FileToolsAssumption, FilesInv, NEW c \in ToolCalls, F!Begin(c)
    PROVE  FilesInv'
<1>1. Waiting(c) /\ F!Turn(c) /\ UNCHANGED <<file, last, req, tmp, commands, faults>>
  BY DEF F!Begin, Waiting, F!bounds
<1>2. CASE F!Leave(c, "failed") /\ UNCHANGED work
  <2>1. Queues'
    BY <1>1, <1>2, LeaveKeeps DEF FilesInv
  <2>2. /\ queue' \in [QueueKeys -> Seq(ToolCalls)] /\ stage' \in [ToolCalls -> F!Steps]
        /\ stage'[c] = "failed" /\ \A d \in ToolCalls : d # c => stage'[d] = stage[d]
    BY <1>1, <1>2, LeaveQueue DEF FilesInv
  <2>3. F!TypeOK'
    BY <1>1, <2>2 DEF FilesInv, F!TypeOK
  <2>4. Placed' /\ Renames' /\ Writers' /\ F!Whole' /\ Lands'
    BY <1>1, <1>2, <2>2, QuietStep DEF Editing, F!Inside
  <2> QED BY <1>1, <1>2, <2>1, <2>3, <2>4 DEF FilesInv, Shapes
<1>3. CASE ~ F!Leave(c, "failed")
  <2>1. PICK how \in {"reading", "writing"} :
          /\ stage' = [stage EXCEPT ![c] = how] /\ (how = "writing" => req[c].tool # "edit")
          /\ work' = [work EXCEPT ![c].text = req[c].text] /\ UNCHANGED queue
          /\ F!Target(c) # None
    BY <1>3 DEF F!Begin
  <2>2. Queues'
    BY <1>1, <2>1, MoveKeeps DEF FilesInv
  <2>3. stage' \in [ToolCalls -> F!Steps] /\ stage'[c] = how /\ \A d \in ToolCalls : d # c => stage'[d] = stage[d]
    BY <2>1 DEF FilesInv, F!TypeOK, F!Steps
  <2>4. F!TypeOK'
    BY <1>1, <2>1, <2>3 DEF FilesInv, F!TypeOK
  <2>5. Shapes' /\ \A d \in ToolCalls : d # c => work'[d] = work[d]
    BY <1>1, <2>1 DEF FilesInv, Shapes
  <2>6. ~ Editing(c)'
    BY <1>1, <2>1, <2>3 DEF Editing
  <2>7. Placed' /\ Renames' /\ Writers' /\ F!Whole' /\ Lands'
    BY <1>1, <2>1, <2>3, <2>5, <2>6, QuietStep
  <2> QED BY <2>2, <2>4, <2>5, <2>7 DEF FilesInv
<1>4. F!Leave(c, "failed") => UNCHANGED work
  <2>1. F!Leave(c, "failed") => stage'[c] = "failed"
    BY DEF F!Leave, FilesInv, F!TypeOK
  <2> QED BY <2>1 DEF F!Begin, FilesInv, F!TypeOK
<1> QED BY <1>2, <1>3, <1>4

\* An edit reads, and knows what it is to write or that it cannot.
LEMMA ReadStep ==
    ASSUME F!FileToolsAssumption, FilesInv, NEW c \in ToolCalls, F!Read(c)
    PROVE  FilesInv'
<1>1. Waiting(c) /\ F!Turn(c) /\ F!Target(c) # None /\ UNCHANGED <<file, last, req, tmp, commands, faults>>
  <2>1. c \in F!Inside
    BY DEF F!Read, F!Inside
  <2> QED BY <2>1, AtTurn DEF F!Read, FilesInv, Placed, F!bounds
<1>2. PICK raw, new :
        \/ F!Leave(c, "failed") /\ UNCHANGED work
        \/ /\ work' = [work EXCEPT ![c] = [from |-> last[F!Target(c)], seen |-> raw, text |-> new]]
           /\ stage' = [stage EXCEPT ![c] = "writing"] /\ UNCHANGED queue
  BY DEF F!Read
<1>3. CASE F!Leave(c, "failed") /\ UNCHANGED work
  <2>1. Queues'
    BY <1>1, <1>3, LeaveKeeps DEF FilesInv
  <2>2. /\ queue' \in [QueueKeys -> Seq(ToolCalls)] /\ stage' \in [ToolCalls -> F!Steps]
        /\ stage'[c] = "failed" /\ \A d \in ToolCalls : d # c => stage'[d] = stage[d]
    BY <1>1, <1>3, LeaveQueue DEF FilesInv
  <2>3. F!TypeOK'
    BY <1>1, <2>2 DEF FilesInv, F!TypeOK
  <2>4. Placed' /\ Renames' /\ Writers' /\ F!Whole' /\ Lands'
    BY <1>1, <1>3, <2>2, QuietStep DEF Editing, F!Inside
  <2> QED BY <1>1, <1>3, <2>1, <2>3, <2>4 DEF FilesInv, Shapes
<1>4. CASE /\ work' = [work EXCEPT ![c] = [from |-> last[F!Target(c)], seen |-> raw, text |-> new]]
           /\ stage' = [stage EXCEPT ![c] = "writing"] /\ UNCHANGED queue
  <2>1. Queues'
    BY <1>1, <1>4, MoveKeeps DEF FilesInv
  <2>2. stage' \in [ToolCalls -> F!Steps] /\ stage'[c] = "writing" /\ \A d \in ToolCalls : d # c => stage'[d] = stage[d]
    BY <1>4 DEF FilesInv, F!TypeOK, F!Steps
  <2>3. F!TypeOK'
    BY <1>1, <1>4, <2>2 DEF FilesInv, F!TypeOK
  <2>4. work'[c].from = last[F!Target(c)] /\ \A d \in ToolCalls : d # c => work'[d] = work[d]
    BY <1>4 DEF FilesInv, Shapes
  <2>5. Shapes'
    BY <1>1, <1>4, <2>4 DEF FilesInv, Shapes
  <2>6. F!LandsOn(c)'
    BY <1>1, <2>4 DEF F!LandsOn, F!Target, F!Name
  <2>7. Placed' /\ Renames' /\ Writers' /\ F!Whole' /\ Lands'
    BY <1>1, <2>2, <2>4, <2>6, QuietStep
  <2> QED BY <2>1, <2>3, <2>5, <2>7 DEF FilesInv
<1> QED BY <1>2, <1>3, <1>4

\* A temporary file is opened, and filled.
LEMMA FillStep ==
    ASSUME F!FileToolsAssumption, FilesInv, NEW c \in ToolCalls, F!Open(c) \/ F!Fill(c)
    PROVE  FilesInv'
<1>1. c \in F!Inside /\ UNCHANGED <<file, last, queue, req, work, commands, faults>>
  BY DEF F!Open, F!Fill, F!Inside, F!bounds
<1>2. PICK how \in {"filling", "renaming"}, what \in {"partial", "whole"} :
        /\ stage' = [stage EXCEPT ![c] = how] /\ tmp' = [tmp EXCEPT ![c] = what]
        /\ (how = "renaming" => what = "whole")
  BY DEF F!Open, F!Fill
<1>3. Waiting(c) /\ F!Turn(c) /\ Queues' /\ F!Target(c) # None
  BY <1>1, <1>2, AtTurn, MoveKeeps DEF FilesInv, Placed
<1>4. /\ stage' \in [ToolCalls -> F!Steps] /\ stage'[c] = how /\ tmp' \in [ToolCalls -> {None, "partial", "whole"}]
      /\ tmp'[c] = what /\ \A d \in ToolCalls : d # c => stage'[d] = stage[d] /\ tmp'[d] = tmp[d]
  BY <1>2 DEF FilesInv, F!TypeOK, F!Steps
<1>5. F!TypeOK' /\ Shapes'
  BY <1>1, <1>4 DEF FilesInv, F!TypeOK, Shapes
<1>6. Editing(c)' => F!LandsOn(c)'
  <2>1. stage[c] \in {"writing", "filling"}
    BY DEF F!Open, F!Fill
  <2>2. Editing(c)' => F!LandsOn(c)
    BY <1>1, <2>1 DEF Editing, FilesInv, Lands
  <2> QED BY <1>1, <2>2 DEF F!LandsOn, F!Target, F!Key, F!Name
<1>7. Placed' /\ Renames' /\ Writers' /\ F!Whole' /\ Lands'
  BY <1>1, <1>2, <1>3, <1>4, <1>6, QuietStep
<1> QED BY <1>3, <1>5, <1>7 DEF FilesInv

\* An operation fails, and the next call may go.
LEMMA FailStep ==
    ASSUME F!FileToolsAssumption, FilesInv, NEW c \in ToolCalls, F!OperationFails(c)
    PROVE  FilesInv'
<1>1. Waiting(c) /\ F!Turn(c) /\ F!Leave(c, "failed") /\ UNCHANGED <<file, last, req, work, tmp, commands>>
  BY AtTurn DEF F!OperationFails, FilesInv
<1>2. Queues'
  BY <1>1, LeaveKeeps DEF FilesInv
<1>3. /\ queue' \in [QueueKeys -> Seq(ToolCalls)] /\ stage' \in [ToolCalls -> F!Steps]
      /\ stage'[c] = "failed" /\ \A d \in ToolCalls : d # c => stage'[d] = stage[d]
  BY <1>1, LeaveQueue DEF FilesInv
<1>4. faults' \in 0 .. MaxFaults
  BY DEF F!OperationFails, FilesInv, F!TypeOK, F!FileToolsAssumption
<1>5. F!TypeOK' /\ Shapes'
  BY <1>1, <1>3, <1>4 DEF FilesInv, F!TypeOK, Shapes
<1>6. Placed' /\ Renames' /\ Writers' /\ F!Whole' /\ Lands'
  BY <1>1, <1>3, QuietStep DEF Editing, F!Inside
<1> QED BY <1>2, <1>5, <1>6 DEF FilesInv

\* The rename: the file is what the call was to leave, and the other edits of its key
\* have not begun.
LEMMA RenameStep ==
    ASSUME F!FileToolsAssumption, FilesInv, NEW c \in ToolCalls, F!Rename(c)
    PROVE  FilesInv'
<1> DEFINE t == F!Target(c)
<1>1. /\ Waiting(c) /\ F!Turn(c) /\ F!Leave(c, "done") /\ UNCHANGED <<req, work, commands, faults>>
      /\ stage[c] = "renaming" /\ c \in F!Inside
  <2>1. c \in F!Inside
    BY DEF F!Rename, F!Inside
  <2> QED BY <2>1, AtTurn DEF F!Rename, FilesInv, F!bounds
<1>2. Queues'
  BY <1>1, LeaveKeeps DEF FilesInv
<1>3. /\ queue' \in [QueueKeys -> Seq(ToolCalls)] /\ stage' \in [ToolCalls -> F!Steps]
      /\ stage'[c] = "done" /\ \A d \in ToolCalls : d # c => stage'[d] = stage[d]
  BY <1>1, LeaveQueue DEF FilesInv
<1>4. F!Contents(c) = work[c].text
  BY <1>1 DEF FilesInv, Renames, F!Contents
<1>5. /\ file' = [f \in Files |-> IF f = t THEN work[c].text ELSE file[f]]
      /\ last' = [f \in Files |-> IF f = t THEN c ELSE last[f]]
      /\ tmp' = [tmp EXCEPT ![c] = None]
  <2>1. file' = [file EXCEPT ![t] = work[c].text] /\ last' = [last EXCEPT ![t] = c]
    BY <1>4 DEF F!Rename
  <2>2. file = [f \in Files |-> file[f]] /\ last \in [Files -> F!Writers]
    BY DEF FilesInv, Shapes, F!TypeOK
  <2>3. file' = [f \in Files |-> IF f = t THEN work[c].text ELSE file[f]]
    BY <2>1, <2>2
  <2> QED BY <2>1, <2>2, <2>3 DEF F!Rename
<1>6. F!TypeOK' /\ Shapes'
  <2>1. tmp' \in [ToolCalls -> {None, "partial", "whole"}]
    BY <1>5 DEF FilesInv, F!TypeOK
  <2>2. last' \in [Files -> F!Writers]
    BY <1>5 DEF FilesInv, F!TypeOK, F!Writers
  <2> QED BY <1>1, <1>3, <1>5, <2>1, <2>2 DEF FilesInv, F!TypeOK, Shapes
<1>7. Renames'
  BY <1>3, <1>5 DEF FilesInv, F!TypeOK, Renames
<1>8. Writers' /\ F!Whole'
  <2> SUFFICES ASSUME NEW f \in Files, last'[f] \in ToolCalls
               PROVE  stage'[last'[f]] = "done" /\ file'[f] = work'[last'[f]].text
    BY DEF Writers, F!Whole
  <2>1. CASE f = t
    BY <1>1, <1>3, <1>5, <2>1
  <2>2. CASE f # t
    <3>1. last'[f] = last[f] /\ file'[f] = file[f] /\ last[f] # c
      BY <1>1, <1>5, <2>2 DEF FilesInv, Writers
    <3> QED BY <1>1, <1>3, <3>1 DEF FilesInv, Writers, F!Whole
  <2> QED BY <2>1, <2>2
<1>9. Lands'
  <2> SUFFICES ASSUME NEW d \in ToolCalls, Editing(d)' PROVE F!LandsOn(d)'
    BY DEF Lands
  <2>1. d # c /\ Editing(d) /\ d \in F!Inside
    BY <1>1, <1>3 DEF Editing, F!Inside
  <2>2. F!LandsOn(d)
    BY <2>1 DEF FilesInv, Lands
  <2>3. F!Target(d)' = F!Target(d) /\ F!Key(d)' = F!Key(d) /\ \A w \in ToolCalls : F!Key(w)' = F!Key(w)
    BY <1>1 DEF F!Target, F!Key, F!Name
  <2>4. F!Key(c) # F!Key(d)
    <3>1. Head(queue[F!Key(c)]) = c /\ Head(queue[F!Key(d)]) = d
      BY <1>1, <2>1, AtTurn DEF F!Turn, FilesInv
    <3> QED BY <2>1, <3>1
  <2>5. F!Target(d) \in Files \union {None}
    <3>1. req[d] # None
      <4>1. stage[d] # "idle"
        BY <2>1 DEF Editing
      <4> QED BY <4>1 DEF FilesInv, Queues, Asked
    <3> QED BY <3>1, TargetType DEF FilesInv
  <2>6. CASE F!Target(d) = t /\ t \in Files
    <3>1. last'[F!Target(d)] = c
      BY <1>5, <2>6
    <3> QED BY <2>3, <2>4, <3>1 DEF F!LandsOn
  <2>7. CASE F!Target(d) \in Files /\ F!Target(d) # t
    <3>1. last'[F!Target(d)] = last[F!Target(d)]
      BY <1>5, <2>7
    <3> QED BY <1>1, <2>2, <2>3, <3>1 DEF F!LandsOn
  <2>8. F!Target(d) # None
    BY <2>1 DEF FilesInv, Placed
  <2> QED BY <2>5, <2>6, <2>7, <2>8
<1>10. Placed'
  <2> SUFFICES ASSUME NEW d \in ToolCalls, (d \in F!Inside)' PROVE F!Target(d)' # None
    BY DEF Placed, F!Inside
  <2>1. F!Target(d)' = F!Target(d) /\ d \in F!Inside
    BY <1>1, <1>3 DEF F!Target, F!Name, F!Inside
  <2> QED BY <2>1 DEF FilesInv, Placed
<1> QED BY <1>2, <1>6, <1>7, <1>8, <1>9, <1>10 DEF FilesInv

\* A call enters.
LEMMA EnterStep ==
    ASSUME F!FileToolsAssumption, FilesInv, NEW c \in ToolCalls, F!Enter(c)
    PROVE  FilesInv'
<1>1. Queues' /\ F!TypeOK'
  BY EnterKeeps DEF FilesInv
<1>2. /\ stage[c] = "idle" /\ UNCHANGED <<file, last, work, tmp>>
      /\ stage'[c] \in {"failed", "queued"}
      /\ \A d \in ToolCalls : d # c => stage'[d] = stage[d] /\ req'[d] = req[d]
  BY DEF F!Enter, FilesInv, F!TypeOK
<1>3. Shapes'
  BY <1>2 DEF FilesInv, Shapes
<1>4. Renames' /\ Placed'
  <2>1. \A d \in ToolCalls : d # c => F!Target(d)' = F!Target(d)
    BY <1>2 DEF F!Target, F!Name
  <2>2. \A d \in ToolCalls : (d \in F!Inside)' => d # c /\ d \in F!Inside
    BY <1>2 DEF F!Inside
  <2>3. Placed'
    BY <2>1, <2>2 DEF FilesInv, Placed, F!Inside
  <2> QED BY <1>2, <2>3 DEF FilesInv, Renames
<1>5. \A f \in Files : last[f] \in ToolCalls => last[f] # c /\ stage[last[f]] = "done"
  BY <1>2 DEF FilesInv, Writers
<1>6. Writers' /\ F!Whole'
  BY <1>2, <1>5 DEF FilesInv, Writers, F!Whole
<1>7. Lands'
  <2> SUFFICES ASSUME NEW d \in ToolCalls, Editing(d)' PROVE F!LandsOn(d)'
    BY DEF Lands
  <2>1. d # c /\ Editing(d) /\ d \in F!Inside
    BY <1>2 DEF Editing, F!Inside
  <2>2. F!LandsOn(d) /\ F!Target(d) \in Files
    <3>1. req[d] # None
      <4>1. stage[d] # "idle"
        BY <2>1 DEF Editing
      <4> QED BY <4>1 DEF FilesInv, Queues, Asked
    <3> QED BY <2>1, <3>1, TargetType DEF FilesInv, Lands, Placed
  <2>3. /\ F!Target(d)' = F!Target(d) /\ last[F!Target(d)] # c
        /\ \A w \in ToolCalls : w # c => F!Key(w)' = F!Key(w)
    BY <1>2, <1>5, <2>1, <2>2 DEF F!Target, F!Key, F!Name
  <2> QED BY <1>2, <2>1, <2>2, <2>3 DEF F!LandsOn
<1> QED BY <1>1, <1>3, <1>4, <1>6, <1>7 DEF FilesInv

\* A command writes a file.
LEMMA CommandStep == F!FileToolsAssumption /\ FilesInv /\ F!Command => FilesInv'
<1> SUFFICES ASSUME F!FileToolsAssumption, FilesInv, F!Command PROVE FilesInv'
  OBVIOUS
<1>1. PICK f \in Files, x \in Outputs : file' = [file EXCEPT ![f] = x] /\ last' = [last EXCEPT ![f] = "command"]
  BY DEF F!Command
<1>2. UNCHANGED <<queue, stage, req, work, tmp, faults>> /\ commands' \in 0 .. MaxCommands /\ "command" \notin ToolCalls
  BY DEF F!Command, FilesInv, F!TypeOK, F!FileToolsAssumption
<1>3. /\ last' \in [Files -> F!Writers] /\ last'[f] = "command"
      /\ \A g \in Files : g # f => last'[g] = last[g] /\ file'[g] = file[g]
      /\ file' = [g \in Files |-> file'[g]]
  BY <1>1 DEF FilesInv, Shapes, F!TypeOK, F!Writers
<1>4. F!TypeOK' /\ Shapes'
  BY <1>2, <1>3 DEF FilesInv, F!TypeOK, Shapes
<1>5. Queues' /\ Placed' /\ Renames'
  BY <1>2 DEF FilesInv, Queues, InQueue, Once, Asked, Waiting, F!Serialized, F!NeverWedged, F!Inside, F!Turn,
             F!Key, F!Name, F!Target, Placed, Renames
<1>6. Writers' /\ F!Whole'
  BY <1>2, <1>3 DEF FilesInv, Writers, F!Whole
<1>7. Lands'
  <2> SUFFICES ASSUME NEW d \in ToolCalls, Editing(d)' PROVE F!LandsOn(d)'
    BY DEF Lands
  <2>1. Editing(d) /\ d \in F!Inside
    BY <1>2 DEF Editing, F!Inside
  <2>2. F!LandsOn(d) /\ F!Target(d) \in Files
    <3>1. req[d] # None
      <4>1. stage[d] # "idle"
        BY <2>1 DEF Editing
      <4> QED BY <4>1 DEF FilesInv, Queues, Asked
    <3> QED BY <2>1, <3>1, TargetType DEF FilesInv, Lands, Placed
  <2> QED BY <1>2, <1>3, <2>2 DEF F!LandsOn, F!Target, F!Key, F!Name
<1> QED BY <1>4, <1>5, <1>6, <1>7 DEF FilesInv

\* The daemon dies; what was written stays as it is.
LEMMA CrashStep == F!FileToolsAssumption /\ FilesInv /\ F!Crash => FilesInv'
<1> SUFFICES ASSUME F!FileToolsAssumption, FilesInv, F!Crash PROVE FilesInv'
  OBVIOUS
<1>1. /\ stage' = [c \in ToolCalls |-> IF stage[c] = "queued" \/ c \in F!Inside THEN "dead" ELSE stage[c]]
      /\ queue' = [k \in QueueKeys |-> <<>>] /\ UNCHANGED <<file, last, req, work, tmp, commands>>
      /\ faults' \in 0 .. MaxFaults
  BY DEF F!Crash, FilesInv, F!TypeOK, F!FileToolsAssumption
<1>2. stage' \in [ToolCalls -> F!Steps] /\ queue' \in [QueueKeys -> Seq(ToolCalls)]
  BY <1>1 DEF FilesInv, F!TypeOK, F!Steps
<1>3. \A c \in ToolCalls : stage'[c] \in {"idle", "done", "failed", "dead"} /\ (stage'[c] \in {"idle", "done"} <=> stage[c] \in {"idle", "done"})
                           /\ (stage'[c] = "done" <=> stage[c] = "done")
  BY <1>1 DEF FilesInv, F!TypeOK, F!Steps, F!Inside
<1>4. F!TypeOK' /\ Shapes'
  BY <1>1, <1>2 DEF FilesInv, F!TypeOK, Shapes
<1>5. Queues' /\ Placed' /\ Renames' /\ Lands'
  <2>1. \A c \in ToolCalls : ~ Waiting(c)' /\ ~ (c \in F!Inside)' /\ ~ Editing(c)' /\ stage'[c] # "renaming"
    BY <1>3 DEF Waiting, F!Inside, Editing
  <2>2. Asked'
    BY <1>1 DEF FilesInv, Queues, Asked, F!Inside
  <2>3. F!Serialized' /\ Placed'
    BY <2>1 DEF F!Serialized, Placed, F!Inside
  <2>4. InQueue' /\ Renames' /\ Lands'
    BY <2>1 DEF InQueue, Renames, Lands
  <2>5. Once' /\ F!NeverWedged'
    BY <1>1 DEF Once, F!NeverWedged
  <2> QED BY <2>2, <2>3, <2>4, <2>5 DEF Queues
<1>6. Writers' /\ F!Whole'
  BY <1>1, <1>3 DEF FilesInv, Writers, F!Whole
<1> QED BY <1>4, <1>5, <1>6 DEF FilesInv

\* Every step keeps the invariant.
LEMMA FilesKeep == F!FileToolsAssumption /\ FilesInv /\ [F!Next]_F!vars => FilesInv'
<1> SUFFICES ASSUME F!FileToolsAssumption, FilesInv, [F!Next]_F!vars PROVE FilesInv'
  OBVIOUS
<1>1. CASE UNCHANGED F!vars
  BY <1>1 DEF F!vars, FilesInv, F!TypeOK, Shapes, Queues, InQueue, Once, Asked, Waiting, F!Serialized, F!NeverWedged,
             F!Inside, F!Turn, F!Key, F!Name, F!Target, Placed, Renames, Writers, F!Whole, Lands, Editing, F!LandsOn
<1>2. ASSUME NEW c \in ToolCalls, F!Enter(c) \/ F!Advance(c) \/ F!OperationFails(c) PROVE FilesInv'
  BY <1>2, EnterStep, BeginStep, ReadStep, FillStep, RenameStep, FailStep DEF F!Advance
<1> QED BY <1>1, <1>2, CommandStep, CrashStep DEF F!Next

LEMMA FilesInvariance == ASSUME F!FileToolsAssumption PROVE F!Spec => []FilesInv
<1>1. F!Init => FilesInv
  BY FilesInit
<1>2. FilesInv /\ [F!Next]_F!vars => FilesInv'
  BY FilesKeep
<1> QED BY <1>1, <1>2, PTL DEF F!Spec

\* The types of the queues, the stages and the temporary files.
THEOREM FileToolsTypeCorrect == ASSUME F!FileToolsAssumption PROVE F!Spec => []F!TypeOK
<1>1. FilesInv => F!TypeOK
  BY DEF FilesInv
<1> QED BY <1>1, FilesInvariance, PTL

\* Calls under one key take turns in the order they came, none waits for a call that has
\* ended however it ended, and no file is ever half of what a call wrote
\* (withFileMutationQueue, LocalEnvironment.writeFile).
THEOREM TurnsAreTaken ==
    ASSUME F!FileToolsAssumption PROVE F!Spec => [](F!Serialized /\ F!NeverWedged /\ F!Whole)
<1>1. FilesInv => F!Serialized /\ F!NeverWedged /\ F!Whole
  BY DEF FilesInv, Queues
<1> QED BY <1>1, FilesInvariance, PTL

\* An edit lands on the text it read, unless a command, or a call that reached the file
\* under another key, wrote it since (editFileTool).
THEOREM NoUpdateLostHolds == ASSUME F!FileToolsAssumption PROVE F!Spec => F!NoUpdateLost
<1>1. FilesInv /\ [F!Next]_F!vars =>
        [\A c \in ToolCalls : req[c] # None /\ req[c].tool = "edit" /\ F!Rename(c) => F!LandsOn(c)]_F!vars
  <2> SUFFICES ASSUME FilesInv, NEW c \in ToolCalls, req[c] # None, req[c].tool = "edit", F!Rename(c)
               PROVE  F!LandsOn(c)
    OBVIOUS
  <2>1. Editing(c)
    BY DEF Editing, F!Rename
  <2> QED BY <2>1 DEF FilesInv, Lands
<1> QED BY <1>1, FilesInvariance, PTL DEF F!NoUpdateLost, F!Spec

-----------------------------------------------------------------------------
(* The fetch cache.                                                        *)

\* A fetch under way is of addresses the tool fetches, and began in the past.
Underway == \A c \in Fetches : fetch[c].pc = "fetching" =>
    /\ fetch[c].url \in Urls /\ fetch[c].at \in Urls \ Refused /\ fetch[c].began <= now
FetchInv == W!TypeOK /\ Underway /\ W!FetchSound

\* The instance's finite sets and cardinalities are the library's.
LEMMA FetchSizes ==
  ASSUME NEW X PROVE (W!IsFiniteSet(X) <=> IsFiniteSet(X)) /\ W!Cardinality(X) = Cardinality(X)
<1>1. W!IsFiniteSet(X) <=> IsFiniteSet(X)
  BY Zenon DEF W!IsFiniteSet, IsFiniteSet
<1>2. W!Cardinality(X) = Cardinality(X)
  BY Zenon DEF W!Cardinality, Cardinality
<1> QED BY <1>1, <1>2

\* What an entry or a call is, with its fields.
Entry == [ts : W!Moments, got : W!Moments, from : Urls, order : Nat]
LEMMA EntryFields ==
    ASSUME W!WebFetchAssumption, NEW m \in [Urls -> Entry \union {None}], NEW u \in W!Held(m)
    PROVE  /\ u \in Urls /\ m[u] \in Entry /\ m[u].ts \in Nat /\ m[u].got \in Nat /\ m[u].order \in Nat
           /\ m[u].from \in Urls /\ m[u].ts \in W!Moments /\ m[u].got \in W!Moments
<1>1. u \in Urls /\ m[u] \in Entry
  BY DEF W!Held
<1>2. W!Moments \subseteq Nat
  BY DEF W!Moments, W!WebFetchAssumption
<1> QED BY <1>1, <1>2 DEF Entry

LEMMA CallFields ==
    ASSUME W!TypeOK, NEW c \in Fetches
    PROVE  /\ fetch[c] \in W!CallStates /\ fetch[c].url \in Urls \union {None}
           /\ fetch[c].hop \in 0 .. MaxHops /\ fetch[c].began \in W!Moments /\ fetch[c].at \in Urls \union {None}
<1>1. fetch[c] \in W!CallStates
  BY DEF W!TypeOK
<1> QED BY <1>1 DEF W!CallStates

\* There is a first key.
LEMMA FirstType ==
    ASSUME W!WebFetchAssumption, NEW m \in [Urls -> Entry \union {None}], W!Held(m) # {}
    PROVE  W!First(m) \in W!Held(m)
<1> DEFINE orders == {m[u].order : u \in W!Held(m)}
<1>1. orders \subseteq Nat /\ orders # {} /\ \A u \in W!Held(m) : m[u].order \in orders /\ m[u].order \in Nat
  BY EntryFields
<1>2. PICK n \in orders : \A k \in orders : ~(<<k, n>> \in OpToRel(<, Nat))
  <2> HIDE DEF orders
  <2> QED BY <1>1, NatLessThanWellFounded, WFMin
<1>3. \A k \in orders : n <= k
  <2> HIDE DEF orders
  <2> SUFFICES ASSUME NEW k \in orders PROVE n <= k
    OBVIOUS
  <2>1. k \in Nat /\ n \in Nat
    BY <1>1
  <2>2. ~ (<<k, n>> \in OpToRel(<, Nat))
    BY <1>2
  <2>3. ~ (k < n)
    BY <2>1, <2>2 DEF OpToRel
  <2> QED BY <2>1, <2>3
<1>4. PICK u \in W!Held(m) : m[u].order = n
  OBVIOUS
<1>5. \A v \in W!Held(m) : m[u].order <= m[v].order
  BY <1>1, <1>3, <1>4
<1> QED BY <1>4, <1>5 DEF W!First

\* Room is made, and only room.
LEMMA RoomType ==
    ASSUME W!WebFetchAssumption, NEW m \in [Urls -> Entry \union {None}], Cardinality(W!Held(m)) <= MaxCache
    PROVE  /\ W!RoomIn(m) \in [Urls -> Entry \union {None}]
           /\ \A u \in Urls : W!RoomIn(m)[u] \in {m[u], None}
           /\ IsFiniteSet(W!Held(W!RoomIn(m))) /\ Cardinality(W!Held(W!RoomIn(m))) < MaxCache
<1>1. /\ IsFiniteSet(W!Held(m)) /\ Cardinality(W!Held(m)) \in Nat /\ MaxCache \in Nat \ {0}
  <2>1. IsFiniteSet(Urls) /\ W!Held(m) \in SUBSET Urls
    BY FetchSizes DEF W!WebFetchAssumption, W!Held
  <2>2. IsFiniteSet(W!Held(m))
    BY <2>1, FS_Subset
  <2> QED BY <2>2, FS_CardinalityType DEF W!WebFetchAssumption
<1>2. CASE Cardinality(W!Held(m)) >= MaxCache
  <2>1. W!Held(m) # {}
    BY <1>1, <1>2, FS_EmptySet
  <2>2. W!First(m) \in W!Held(m) /\ W!First(m) \in Urls
    BY <2>1, FirstType DEF W!Held
  <2>3. W!RoomIn(m) = [m EXCEPT ![W!First(m)] = None]
    BY <1>2, FetchSizes DEF W!RoomIn
  <2>4. W!Held(W!RoomIn(m)) = W!Held(m) \ {W!First(m)}
    BY <2>2, <2>3 DEF W!Held
  <2>5. IsFiniteSet(W!Held(m) \ {W!First(m)}) /\ Cardinality(W!Held(m) \ {W!First(m)}) = Cardinality(W!Held(m)) - 1
    BY <1>1, <2>2, FS_RemoveElement
  <2>6. W!RoomIn(m) \in [Urls -> Entry \union {None}] /\ \A u \in Urls : W!RoomIn(m)[u] \in {m[u], None}
    <3> HIDE DEF Entry
    <3> QED BY <2>2, <2>3
  <2>7. Cardinality(W!Held(m)) - 1 < MaxCache
    BY <1>1
  <2> QED BY <2>4, <2>5, <2>6, <2>7
<1>3. CASE ~ (Cardinality(W!Held(m)) >= MaxCache)
  BY <1>1, <1>3, FetchSizes DEF W!RoomIn
<1> QED BY <1>2, <1>3

\* The initial state.
LEMMA FetchInit == W!WebFetchAssumption /\ W!Init => FetchInv
<1> SUFFICES ASSUME W!WebFetchAssumption, W!Init PROVE FetchInv
  OBVIOUS
<1>1. 0 \in W!Moments /\ 0 \in 0 .. MaxHops
  BY DEF W!WebFetchAssumption, W!Moments
<1>2. W!NotMade \in W!CallStates
  BY <1>1 DEF W!NotMade, W!CallStates
<1>3. W!TypeOK
  BY <1>1, <1>2 DEF W!Init, W!TypeOK
<1>4. \A c \in Fetches : fetch[c].pc = "idle"
  BY DEF W!Init, W!NotMade
<1>5. W!Held(cache) = {}
  BY DEF W!Init, W!Held
<1>6. W!Cardinality({}) <= MaxCache
  BY FS_EmptySet, FetchSizes DEF W!WebFetchAssumption
<1> QED BY <1>3, <1>4, <1>5, <1>6 DEF FetchInv, Underway, W!FetchSound, W!Bounded, W!Stamped, W!Fresh, W!SameHost

\* A call that ends.
LEMMA EndsType ==
    ASSUME W!TypeOK, NEW c \in Fetches, NEW how \in W!Outcomes, W!Ends(c, how)
    PROVE  /\ fetch' \in [Fetches -> W!CallStates] /\ fetch'[c].pc = how
           /\ \A d \in Fetches : d # c => fetch'[d] = fetch[d]
<1>1. fetch \in [Fetches -> W!CallStates] /\ fetch[c] \in W!CallStates
  BY DEF W!TypeOK
<1>2. [fetch[c] EXCEPT !.pc = how] \in W!CallStates /\ [fetch[c] EXCEPT !.pc = how].pc = how
  BY <1>1 DEF W!CallStates
<1>3. fetch' = [fetch EXCEPT ![c] = [fetch[c] EXCEPT !.pc = how]]
  BY <1>1 DEF W!Ends
<1> QED BY <1>1, <1>2, <1>3

\* A call that ends without a page or a hit.
LEMMA EndsKeeps ==
    ASSUME FetchInv, NEW c \in Fetches, NEW how \in {"hint", "error"}, W!Ends(c, how),
           UNCHANGED <<now, cache, writes>>
    PROVE  FetchInv'
<1>1. /\ fetch' \in [Fetches -> W!CallStates] /\ fetch'[c].pc = how
      /\ \A d \in Fetches : d # c => fetch'[d] = fetch[d]
  BY EndsType DEF FetchInv, W!Outcomes
<1>2. W!TypeOK'
  BY <1>1 DEF FetchInv, W!TypeOK
<1>3. Underway'
  BY <1>1 DEF FetchInv, Underway
<1>4. W!FetchSound'
  BY <1>1 DEF FetchInv, W!FetchSound, W!Bounded, W!Stamped, W!Fresh, W!SameHost, W!Held
<1> QED BY <1>2, <1>3, <1>4 DEF FetchInv

\* Pruning only drops entries, and none that is older than its time is left.
LEMMA PrunedType ==
    ASSUME W!WebFetchAssumption, FetchInv
    PROVE  /\ W!Pruned \in [Urls -> Entry \union {None}]
           /\ \A u \in W!Held(W!Pruned) : u \in W!Held(cache) /\ W!Pruned[u] = cache[u] /\ now - cache[u].ts <= Ttl
           /\ Cardinality(W!Held(W!Pruned)) <= MaxCache
<1>1. cache \in [Urls -> Entry \union {None}] /\ now \in Nat /\ Ttl \in Nat
  BY DEF FetchInv, W!TypeOK, W!Entries, Entry, W!WebFetchAssumption, W!Moments
<1>2. W!Pruned \in [Urls -> Entry \union {None}]
  <2> HIDE DEF Entry
  <2> QED BY <1>1 DEF W!Pruned
<1>3. \A u \in W!Held(W!Pruned) : u \in W!Held(cache) /\ W!Pruned[u] = cache[u] /\ now - cache[u].ts <= Ttl
  <2> SUFFICES ASSUME NEW u \in W!Held(W!Pruned)
               PROVE  u \in W!Held(cache) /\ W!Pruned[u] = cache[u] /\ now - cache[u].ts <= Ttl
    OBVIOUS
  <2>1. u \in Urls /\ W!Pruned[u] # None
    BY DEF W!Held
  <2>2. cache[u] # None /\ ~ (now - cache[u].ts > Ttl) /\ W!Pruned[u] = cache[u]
    BY <2>1 DEF W!Pruned
  <2>3. u \in W!Held(cache)
    BY <2>1, <2>2 DEF W!Held
  <2>4. cache[u].ts \in Nat
    BY <1>1, <2>3, EntryFields
  <2> QED BY <1>1, <2>2, <2>3, <2>4
<1>4. Cardinality(W!Held(W!Pruned)) <= MaxCache
  <2>1. IsFiniteSet(Urls) /\ W!Held(cache) \in SUBSET Urls
    BY FetchSizes DEF W!WebFetchAssumption, W!Held
  <2>2. IsFiniteSet(W!Held(cache))
    BY <2>1, FS_Subset
  <2>3. W!Held(W!Pruned) \in SUBSET W!Held(cache)
    BY <1>3
  <2>4. Cardinality(W!Held(W!Pruned)) <= Cardinality(W!Held(cache))
    BY <2>2, <2>3, FS_Subset
  <2>5. Cardinality(W!Held(cache)) <= MaxCache
    BY FetchSizes DEF FetchInv, W!FetchSound, W!Bounded
  <2>6. Cardinality(W!Held(cache)) \in Nat /\ Cardinality(W!Held(W!Pruned)) \in Nat /\ MaxCache \in Nat
    BY <2>2, <2>3, FS_Subset, FS_CardinalityType DEF W!WebFetchAssumption
  <2> QED BY <2>4, <2>5, <2>6
<1> QED BY <1>2, <1>3, <1>4

\* A call begins: it is refused, answered from the cache, or goes out.
LEMMA BeginFetch ==
    ASSUME W!WebFetchAssumption, FetchInv, NEW c \in Fetches, W!Begin(c)
    PROVE  FetchInv'
<1>1. PICK u \in Urls :
        IF u \in Refused THEN W!Ends(c, "error") /\ UNCHANGED cache
        ELSE /\ cache' = W!Pruned
             /\ fetch' = [fetch EXCEPT ![c] =
                    [W!NotMade EXCEPT !.url = u, !.at = u, !.began = now,
                                      !.pc = IF W!Pruned[u] # None THEN "hit" ELSE "fetching",
                                      !.age = IF W!Pruned[u] # None THEN now - W!Pruned[u].got ELSE 0]]
  BY DEF W!Begin
<1>2. UNCHANGED <<now, writes>>
  BY DEF W!Begin
<1>3. CASE u \in Refused
  BY <1>1, <1>2, <1>3, EndsKeeps
<1>4. CASE u \notin Refused
  <2> DEFINE hit == W!Pruned[u] # None
             age == IF hit THEN now - W!Pruned[u].got ELSE 0
             made == [pc |-> IF hit THEN "hit" ELSE "fetching", url |-> u, at |-> u, hop |-> 0, began |-> now, age |-> age]
  <2>1. /\ now \in W!Moments /\ W!Moments = 0 .. MaxTime /\ MaxTime \in Nat /\ Ttl \in Nat /\ MaxHops \in Nat
        /\ fetch \in [Fetches -> W!CallStates] /\ writes \in Nat
    BY DEF FetchInv, W!TypeOK, W!WebFetchAssumption, W!Moments
  <2>2. fetch' = [fetch EXCEPT ![c] = made]
    BY <1>1, <1>4 DEF W!NotMade
  <2>3. /\ W!Pruned \in [Urls -> Entry \union {None}]
        /\ \A v \in W!Held(W!Pruned) : v \in W!Held(cache) /\ W!Pruned[v] = cache[v] /\ now - cache[v].ts <= Ttl
        /\ Cardinality(W!Held(W!Pruned)) <= MaxCache
    BY PrunedType
  <2>4. \A v \in W!Held(W!Pruned) :
           /\ W!Pruned[v].ts \in Nat /\ W!Pruned[v].got \in Nat
           /\ W!Pruned[v].ts <= W!Pruned[v].got /\ W!Pruned[v].got <= now
    BY <2>3, EntryFields DEF FetchInv, W!FetchSound, W!Stamped
  <2>5. hit => age \in W!Moments /\ age <= Ttl
    <3>1. hit => u \in W!Held(W!Pruned)
      BY DEF W!Held
    <3> QED BY <2>1, <2>3, <2>4, <3>1
  <2>6. ~hit => age = 0 /\ 0 \in W!Moments
    BY <2>1
  <2>7. made \in W!CallStates
    <3>1. age \in W!Moments
      BY <2>5, <2>6
    <3>2. 0 \in 0 .. MaxHops
      BY <2>1
    <3> HIDE DEF age
    <3> QED BY <2>1, <3>1, <3>2 DEF W!CallStates, W!Outcomes
  <2>8. fetch' \in [Fetches -> W!CallStates] /\ fetch'[c] = made /\ \A d \in Fetches : d # c => fetch'[d] = fetch[d]
    <3> HIDE DEF made
    <3> QED BY <2>1, <2>2, <2>7
  <2>9. cache' = W!Pruned
    BY <1>1, <1>4
  <2>10. W!TypeOK'
    BY <1>2, <2>1, <2>3, <2>8, <2>9 DEF W!TypeOK, Entry, W!Entries
  <2>11. Underway'
    <3>1. \A d \in Fetches : d # c => fetch'[d] = fetch[d]
      BY <2>8
    <3>2. fetch'[c].url = u /\ fetch'[c].at = u /\ fetch'[c].began = now
      BY <2>8
    <3> QED BY <1>2, <1>4, <2>1, <3>1, <3>2 DEF FetchInv, Underway
  <2>12. W!Bounded' /\ W!Stamped'
    BY <1>2, <2>3, <2>4, <2>9, FetchSizes DEF W!Bounded, W!Stamped, W!Held
  <2>13. W!Fresh'
    <3>1. fetch'[c].pc = "hit" => hit /\ fetch'[c].age = age
      BY <2>8
    <3>2. fetch'[c].pc = "hit" => fetch'[c].age <= Ttl
      BY <2>5, <3>1
    <3> QED BY <2>8, <3>2 DEF FetchInv, W!FetchSound, W!Fresh
  <2>14. W!SameHost'
    <3>1. \A v \in W!Held(cache') : HostOf[cache'[v].from] = HostOf[v] /\ cache'[v].from \notin Refused
      BY <2>3, <2>9 DEF FetchInv, W!FetchSound, W!SameHost
    <3>2. fetch'[c].at = fetch'[c].url
      BY <2>8
    <3>3. \A d \in Fetches : fetch'[d].pc = "fetching" => HostOf[fetch'[d].at] = HostOf[fetch'[d].url]
      BY <2>8, <3>2 DEF FetchInv, W!FetchSound, W!SameHost
    <3> QED BY <3>1, <3>3 DEF W!SameHost, W!Held
  <2> QED BY <2>10, <2>11, <2>12, <2>13, <2>14 DEF FetchInv, W!FetchSound
<1> QED BY <1>3, <1>4

\* A redirect is refused, handed back, or followed on the same host.
LEMMA RedirectFetch ==
    ASSUME W!WebFetchAssumption, FetchInv, NEW c \in Fetches, W!Redirect(c)
    PROVE  FetchInv'
<1>1. PICK v \in Urls :
        \/ W!Ends(c, "error") \/ W!Ends(c, "hint")
        \/ /\ v \notin Refused /\ HostOf[v] = HostOf[fetch[c].at] /\ fetch[c].hop # MaxHops
           /\ fetch' = [fetch EXCEPT ![c].at = v, ![c].hop = fetch[c].hop + 1]
  BY DEF W!Redirect, W!Leaves
<1>2. UNCHANGED <<now, cache, writes>> /\ fetch[c].pc = "fetching"
  BY DEF W!Redirect
<1>3. CASE W!Ends(c, "error") \/ W!Ends(c, "hint")
  BY <1>2, <1>3, EndsKeeps
<1>4. CASE /\ v \notin Refused /\ HostOf[v] = HostOf[fetch[c].at] /\ fetch[c].hop # MaxHops
           /\ fetch' = [fetch EXCEPT ![c].at = v, ![c].hop = fetch[c].hop + 1]
  <2> DEFINE moved == [fetch[c] EXCEPT !.at = v, !.hop = fetch[c].hop + 1]
  <2>1. fetch \in [Fetches -> W!CallStates] /\ fetch[c] \in W!CallStates /\ MaxHops \in Nat
    BY DEF FetchInv, W!TypeOK, W!WebFetchAssumption
  <2>2. fetch[c].hop + 1 \in 0 .. MaxHops
    BY <1>4, <2>1, CallFields DEF FetchInv
  <2>3. moved \in W!CallStates /\ moved.at = v /\ moved.pc = fetch[c].pc /\ moved.url = fetch[c].url /\ moved.began = fetch[c].began
    BY <2>1, <2>2 DEF W!CallStates
  <2>4. fetch' = [fetch EXCEPT ![c] = moved]
    BY <1>4, <2>1
  <2>5. fetch' \in [Fetches -> W!CallStates] /\ fetch'[c] = moved /\ \A d \in Fetches : d # c => fetch'[d] = fetch[d]
    <3> HIDE DEF moved
    <3> QED BY <2>1, <2>3, <2>4
  <2>6. W!TypeOK'
    BY <1>2, <2>5 DEF FetchInv, W!TypeOK
  <2> HIDE DEF moved
  <2>7. Underway'
    BY <1>2, <1>4, <2>3, <2>5 DEF FetchInv, Underway
  <2>8. W!FetchSound'
    BY <1>2, <1>4, <2>3, <2>5 DEF FetchInv, W!FetchSound, W!Bounded, W!Stamped, W!Fresh, W!SameHost, W!Held
  <2> QED BY <2>6, <2>7, <2>8 DEF FetchInv
<1> QED BY <1>1, <1>3, <1>4

\* A page arrives: room is made for it, and its entry is of the host that was asked for.
LEMMA ArriveFetch ==
    ASSUME W!WebFetchAssumption, FetchInv, NEW c \in Fetches, W!Arrive(c)
    PROVE  FetchInv'
<1> DEFINE m == W!RoomIn(cache)
           u == fetch[c].url
           place == IF m[u] # None THEN m[u].order ELSE writes
           entry == [ts |-> fetch[c].began, got |-> now, from |-> fetch[c].at, order |-> place]
<1>1. /\ fetch[c].pc = "fetching" /\ now' = now /\ writes' = writes + 1 /\ W!Ends(c, "page")
      /\ cache' = [m EXCEPT ![u] = entry]
  BY DEF W!Arrive, W!Stamp
<1>2. /\ now \in W!Moments /\ now \in Nat /\ writes \in Nat /\ MaxCache \in Nat
      /\ cache \in [Urls -> Entry \union {None}] /\ None \notin Entry
      /\ fetch[c].began \in W!Moments /\ fetch[c].began \in Nat
  <2>1. now \in W!Moments /\ writes \in Nat /\ fetch[c].began \in W!Moments /\ cache \in [Urls -> Entry \union {None}]
    BY CallFields DEF FetchInv, W!TypeOK, W!Entries, Entry
  <2>2. W!Moments \subseteq Nat /\ MaxCache \in Nat /\ None \notin Entry
    BY DEF W!WebFetchAssumption, W!Moments, W!Entries, Entry
  <2> QED BY <2>1, <2>2
<1>3. u \in Urls /\ fetch[c].at \in Urls /\ fetch[c].at \notin Refused /\ fetch[c].began <= now
      /\ HostOf[fetch[c].at] = HostOf[u]
  BY <1>1 DEF FetchInv, Underway, W!FetchSound, W!SameHost
<1>4. /\ m \in [Urls -> Entry \union {None}] /\ \A v \in Urls : m[v] \in {cache[v], None}
      /\ IsFiniteSet(W!Held(m)) /\ Cardinality(W!Held(m)) < MaxCache
  <2>1. Cardinality(W!Held(cache)) <= MaxCache
    BY FetchSizes DEF FetchInv, W!FetchSound, W!Bounded
  <2> QED BY <1>2, <2>1, RoomType
<1>5. entry \in Entry
  <2>1. m[u] # None => m[u].order \in Nat
    <3>1. m[u] # None => u \in W!Held(m)
      BY <1>3 DEF W!Held
    <3> HIDE DEF m, u
    <3> QED BY <1>4, <3>1, EntryFields
  <2>2. place \in Nat
    BY <1>2, <2>1
  <2> HIDE DEF place
  <2> QED BY <1>2, <1>3, <2>2 DEF Entry
<1>6. /\ cache' \in [Urls -> Entry \union {None}] /\ cache'[u] = entry
      /\ \A v \in Urls : v # u => cache'[v] \in {cache[v], None}
  <2> HIDE DEF m, u, entry, Entry
  <2> QED BY <1>1, <1>3, <1>4, <1>5
<1>7. W!Held(cache') = W!Held(m) \union {u}
  <2>1. entry # None
    BY <1>2, <1>5
  <2> HIDE DEF m, u, entry, Entry
  <2> QED BY <1>1, <1>3, <1>4, <1>5, <2>1 DEF W!Held
<1>8. Cardinality(W!Held(cache')) <= MaxCache
  <2>1. Cardinality(W!Held(m)) \in Nat
    BY <1>4, FS_CardinalityType
  <2>2. Cardinality(W!Held(m) \union {u}) = IF u \in W!Held(m) THEN Cardinality(W!Held(m)) ELSE Cardinality(W!Held(m)) + 1
    BY <1>4, FS_AddElement
  <2> HIDE DEF m, u
  <2> QED BY <1>2, <1>4, <1>7, <2>1, <2>2
<1>9. /\ fetch' \in [Fetches -> W!CallStates] /\ fetch'[c].pc = "page"
      /\ \A d \in Fetches : d # c => fetch'[d] = fetch[d]
  BY <1>1, EndsType DEF FetchInv, W!Outcomes
<1>10. \A v \in W!Held(cache') : v = u \/ (v \in W!Held(cache) /\ cache'[v] = cache[v])
  BY <1>6 DEF W!Held
<1> HIDE DEF m, u, place
<1>11. /\ entry.ts = fetch[c].began /\ entry.got = now /\ entry.from = fetch[c].at
  OBVIOUS
<1> HIDE DEF entry
<1>12. W!TypeOK'
  BY <1>1, <1>2, <1>6, <1>9 DEF FetchInv, W!TypeOK, W!Entries, Entry
<1>13. Underway'
  BY <1>1, <1>9 DEF FetchInv, Underway
<1>14. W!Bounded'
  BY <1>8, FetchSizes DEF W!Bounded, W!Held
<1>15. W!Stamped'
  <2>1. \A v \in W!Held(cache') : cache'[v].ts <= cache'[v].got /\ cache'[v].got <= now
    BY <1>2, <1>3, <1>6, <1>10, <1>11 DEF FetchInv, W!FetchSound, W!Stamped
  <2> QED BY <1>1, <2>1 DEF W!Stamped, W!Held
<1>16. W!Fresh'
  BY <1>9 DEF FetchInv, W!FetchSound, W!Fresh
<1>17. W!SameHost'
  <2>1. \A v \in W!Held(cache') : HostOf[cache'[v].from] = HostOf[v] /\ cache'[v].from \notin Refused
    BY <1>3, <1>6, <1>10, <1>11 DEF FetchInv, W!FetchSound, W!SameHost
  <2>2. \A d \in Fetches : fetch'[d].pc = "fetching" => HostOf[fetch'[d].at] = HostOf[fetch'[d].url]
    BY <1>9 DEF FetchInv, W!FetchSound, W!SameHost
  <2> QED BY <2>1, <2>2 DEF W!SameHost, W!Held
<1> QED BY <1>12, <1>13, <1>14, <1>15, <1>16, <1>17 DEF FetchInv, W!FetchSound

\* The clock ticks, and ages nothing that was told.
LEMMA TickFetch == W!WebFetchAssumption /\ FetchInv /\ W!Tick => FetchInv'
<1> SUFFICES ASSUME W!WebFetchAssumption, FetchInv, W!Tick PROVE FetchInv'
  OBVIOUS
<1>1. UNCHANGED <<cache, writes, fetch>> /\ now' = now + 1 /\ now \in Nat /\ now' \in W!Moments
  BY DEF W!Tick, FetchInv, W!TypeOK, W!Moments, W!WebFetchAssumption
<1>2. W!TypeOK'
  BY <1>1 DEF FetchInv, W!TypeOK
<1>3. Underway'
  <2>1. \A c \in Fetches : fetch[c].began \in Nat
    BY CallFields DEF FetchInv, W!Moments, W!WebFetchAssumption
  <2> QED BY <1>1, <2>1 DEF FetchInv, Underway
<1>4. W!Stamped'
  <2>1. cache \in [Urls -> Entry \union {None}]
    BY DEF FetchInv, W!TypeOK, W!Entries, Entry
  <2>2. \A u \in W!Held(cache) : cache[u].got \in Nat /\ cache[u].ts <= cache[u].got /\ cache[u].got <= now
    BY <2>1, EntryFields DEF FetchInv, W!FetchSound, W!Stamped
  <2>3. \A u \in W!Held(cache) : cache[u].ts <= cache[u].got /\ cache[u].got <= now + 1
    BY <1>1, <2>2
  <2> QED BY <1>1, <2>3 DEF W!Stamped, W!Held
<1>5. W!Bounded' /\ W!Fresh' /\ W!SameHost'
  BY <1>1 DEF FetchInv, W!FetchSound, W!Bounded, W!Fresh, W!SameHost, W!Held
<1> QED BY <1>2, <1>3, <1>4, <1>5 DEF FetchInv, W!FetchSound

\* Every step keeps the invariant.
LEMMA FetchKeeps == W!WebFetchAssumption /\ FetchInv /\ [W!Next]_W!vars => FetchInv'
<1> SUFFICES ASSUME W!WebFetchAssumption, FetchInv, [W!Next]_W!vars PROVE FetchInv'
  OBVIOUS
<1>1. CASE UNCHANGED W!vars
  BY <1>1 DEF W!vars, FetchInv, W!TypeOK, Underway, W!FetchSound, W!Bounded, W!Stamped, W!Fresh, W!SameHost, W!Held
<1>2. ASSUME NEW c \in Fetches, W!Fails(c) PROVE FetchInv'
  BY <1>2, EndsKeeps DEF W!Fails
<1> QED BY <1>1, <1>2, BeginFetch, RedirectFetch, ArriveFetch, TickFetch DEF W!Next

LEMMA FetchInvariance == ASSUME W!WebFetchAssumption PROVE W!Spec => []FetchInv
<1>1. W!Init => FetchInv
  BY FetchInit
<1>2. FetchInv /\ [W!Next]_W!vars => FetchInv'
  BY FetchKeeps
<1> QED BY <1>1, <1>2, PTL DEF W!Spec

\* The types of the cache and the calls.
THEOREM FetchTypeCorrect == ASSUME W!WebFetchAssumption PROVE W!Spec => []W!TypeOK
<1>1. FetchInv => W!TypeOK
  BY DEF FetchInv
<1> QED BY <1>1, FetchInvariance, PTL

\* The cache is bounded, no entry outlives its time, and a page is one of the host that
\* was asked for, for any number of overlapping calls, addresses and redirects
\* (pruneCache, evictOldest, the redirect loop of webFetchTool).
THEOREM FetchSoundHolds == ASSUME W!WebFetchAssumption PROVE W!Spec => []W!FetchSound
<1>1. FetchInv => W!FetchSound
  BY DEF FetchInv
<1> QED BY <1>1, FetchInvariance, PTL
=============================================================================
