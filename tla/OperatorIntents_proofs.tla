----------------------- MODULE OperatorIntents_proofs -----------------------
(***************************************************************************)
(* OperatorIntents, for every set of intents, limit and bound.             *)
(***************************************************************************)
EXTENDS OperatorIntents, FiniteSetTheorems, TLAPS

(* A fiber lives in a daemon and drives a running run, and it dispatched   *)
(* its handler only after a fold that found no cancel, and a second plan   *)
(* takes in later intents only if no cancel is among them.  What it folded *)
(* is what its commit consumes, so the batch, not the log, is what must be *)
(* free of cancels.                                                        *)
FiberInv ==
    /\ pc # "none" => status = "running" /\ daemon = "up"
    /\ pc \in {"work", "replan"} => \A j \in 1 .. upto : j > applied => log[j] # "cancel"

IInv == TypeOK /\ FiberInv /\ NoCancelBuried /\ RaisesLand

-----------------------------------------------------------------------------
\* Appending an intent leaves the ones before it in place.
LEMMA AppendKeeps ==
    ASSUME TypeOK, NEW k \in Kinds, AppendIntent(k)
    PROVE  /\ log' \in Seq(Kinds)
           /\ Len(log') = Len(log) + 1
           /\ Len(log) \in Nat
           /\ \A i \in 1 .. Len(log) : log'[i] = log[i]
  BY DEF TypeOK, AppendIntent

\* The initial state satisfies the inductive invariant.
LEMMA InitIInv == Init => IInv
<1> SUFFICES ASSUME Init PROVE IInv
  OBVIOUS
<1>1. log \in Seq(Kinds) /\ Len(log) = 0
  BY DEF Init
<1>2. tick \in 0 .. Len(Sweeps)
  BY DEF Init, Sweeps
<1>3. TypeOK
  <2>1. Len(log) <= MaxIntents /\ applied \in 0 .. Len(log) /\ upto \in applied .. Len(log)
    BY <1>1, IntentsAssumption DEF Init
  <2>2. seen \in 0 .. Len(log) /\ holding \in 0 .. Len(log) /\ quarAt \in 0 .. Len(log)
    BY <1>1 DEF Init
  <2>3. wakes \in [Seqs -> 0 .. 2]
    BY DEF Init
  <2> QED BY <1>1, <1>2, <2>1, <2>2, <2>3 DEF Init, TypeOK, Parked
<1>4. FiberInv /\ NoCancelBuried /\ RaisesLand
  BY DEF Init, FiberInv, NoCancelBuried, RaisesLand
<1> QED BY <1>3, <1>4 DEF IInv

\* The sweeps of one iteration stay within their list.
LEMMA NextSweepType ==
    ASSUME TypeOK, ~Idle, NextSweep PROVE tick' \in 0 .. Len(Sweeps)
  BY DEF TypeOK, Idle, NextSweep, Sweeps

\* Every step that is not an append leaves the log as it is.
LEMMA LogKept ==
    ASSUME [Next]_vars, ~\E k \in Kinds : AppendIntent(k) PROVE log' = log
  BY DEF Next, vars, ExecutorTick, BeginTick, Pass, WakeCancel, WakeHuman, WakeResume, RunResumed,
         WakeAutoResume, WakeUnquarantine, ClaimNextRun, TurnStep, EntryGate, FoldIntents,
         CommitCancel, CommitPause, StartRun, CommitDispatchMarker, ApplyLoopGate, DispatchHandler,
         Supervise, SupervisorTick, SupervisorReap, HandlerEnds, CommitDeferredPause, CommitContinue,
         CommitSuccess, CommitPark, CommitAbort, CommitExit, ReplanTransition, Shutdown, Crash, Boot,
         BootRequeue, BootQuarantine

\* Every variable keeps its type under every step.
LEMMA NextTypeOK == TypeOK /\ [Next]_vars => TypeOK'
<1> SUFFICES ASSUME TypeOK, [Next]_vars PROVE TypeOK'
  OBVIOUS
<1>a. applied \in Nat /\ upto \in Nat /\ Len(log) \in Nat /\ applied <= upto /\ upto <= Len(log)
  BY DEF TypeOK
<1>b. Batch \subseteq 1 .. Len(log) /\ UnappliedIntents \subseteq 1 .. Len(log)
  BY DEF Batch, UnappliedIntents
<1>c. /\ Of("raise", Batch) \subseteq 1 .. Len(log)
      /\ Of("pause", Batch) \subseteq 1 .. Len(log)
  BY <1>b DEF Of
<1>e. ASSUME NEW n \in {applied, upto}, log' = log, applied' = n, upto' = n
      PROVE  applied' \in 0 .. Len(log') /\ upto' \in applied' .. Len(log')
  BY <1>a, <1>e
<1>f. upto \in 0 .. Len(log)
  BY <1>a
<1>1. ASSUME NEW k \in Kinds, AppendIntent(k) PROVE TypeOK'
  <2>1. Len(log') <= MaxIntents
    BY <1>1, <1>a, AppendKeeps, IntentsAssumption DEF AppendIntent
  <2>2. UNCHANGED <<applied, row, daemon, tick, fiber, seen, called, stops, ghosts>>
    BY <1>1 DEF AppendIntent
  <2>3. 1 .. Len(log) \subseteq 1 .. Len(log') /\ 0 .. Len(log) \subseteq 0 .. Len(log')
    BY <1>1, <1>a, AppendKeeps
  <2>4. upto' \in applied' .. Len(log')
    BY <1>1, <1>a, <2>2, AppendKeeps DEF fiber
  <2>5. log' \in Seq(Kinds)
    BY <1>1, AppendKeeps
  <2> HIDE <1>1
  <2>6. /\ applied' \in 0 .. Len(log')
        /\ seen' \in 0 .. Len(log')
        /\ holding' \in 0 .. Len(log')
        /\ quarAt' \in 0 .. Len(log')
    BY <2>2, <2>3 DEF TypeOK, ghosts
  <2>7. /\ caps' \subseteq 1 .. Len(log')
        /\ overtaken' \subseteq 1 .. Len(log')
        /\ owed' \subseteq 1 .. Len(log')
        /\ retripped' \subseteq 1 .. Len(log')
    BY <2>2, <2>3 DEF TypeOK, row, ghosts
  <2>8. UNCHANGED <<status, started, marked, pauseMark, daemon, tick, pc,
                    dispatches, tripped, receipt, called, stops, wakes, prejudged>>
    BY <2>2 DEF row, fiber, ghosts
  <2>9. /\ status' \in {"queued", "running", "quarantined", "done"} \union Parked
        /\ daemon' \in {"up", "down"}
        /\ tick' \in 0 .. Len(Sweeps)
        /\ pc' \in {"none", "turn", "folded", "work", "replan"}
    BY <2>8, Zenon DEF TypeOK
  <2>10. /\ started' \in BOOLEAN /\ marked' \in BOOLEAN /\ pauseMark' \in BOOLEAN
         /\ tripped' \in BOOLEAN /\ receipt' \in BOOLEAN
         /\ called' \in BOOLEAN /\ prejudged' \in BOOLEAN
    BY <2>8, Zenon DEF TypeOK
  <2>11. dispatches' \in Nat /\ stops' \in Nat /\ wakes' \in [Seqs -> 0 .. 2]
    BY <2>8, Zenon DEF TypeOK
  <2> QED BY <2>1, <2>4, <2>5, <2>6, <2>7, <2>9, <2>10, <2>11, Zenon DEF TypeOK
<1> USE DEF TypeOK, row, fiber, ghosts, Parked
<1>2. CASE BeginTick
  <2>1. tick' \in 0 .. Len(Sweeps)
    BY <1>2 DEF BeginTick, Sweeps
  <2> QED BY <1>2, <2>1 DEF BeginTick
<1>3. CASE Pass
  <2>1. tick' \in 0 .. Len(Sweeps)
    BY <1>3, NextSweepType DEF Pass
  <2> QED BY <1>3, <2>1 DEF Pass
<1>4. ASSUME NEW i \in 1 .. Len(log), WakeCancel(i) PROVE TypeOK'
  <2>1. tick' \in 0 .. Len(Sweeps)
    BY <1>4, NextSweepType DEF WakeCancel, At
  <2> QED BY <1>4, <1>a, <2>1 DEF WakeCancel
<1>5. ASSUME NEW i \in 1 .. Len(log), WakeHuman(i) \/ WakeResume(i) PROVE TypeOK'
  <2>1. tick' \in 0 .. Len(Sweeps)
    BY <1>5, NextSweepType DEF WakeHuman, WakeResume, RunResumed, At
  <2>2. wakes' \in [Seqs -> 0 .. 2]
    BY <1>5 DEF WakeHuman, WakeResume, Woken
  <2>3. log' = log /\ status' = "queued" /\ holding' = 0
    BY <1>5 DEF WakeHuman, WakeResume, RunResumed
  <2>4. UNCHANGED <<applied, upto, prejudged, started, marked, caps, pauseMark, daemon, pc, dispatches,
                    tripped, receipt, seen, called, stops, overtaken, owed, retripped, quarAt>>
    BY <1>5 DEF WakeHuman, WakeResume, RunResumed
  <2> QED BY <1>a, <2>1, <2>2, <2>3, <2>4
<1>6. CASE WakeAutoResume
  <2>1. tick' \in 0 .. Len(Sweeps)
    BY <1>6, NextSweepType DEF WakeAutoResume, RunResumed, At
  <2> QED BY <1>6, <1>a, <2>1 DEF WakeAutoResume, RunResumed
<1>7. ASSUME NEW i \in 1 .. Len(log), NEW r \in {"cancel", "retry"}, WakeUnquarantine(i, r)
      PROVE  TypeOK'
  <2>1. tick' \in 0 .. Len(Sweeps)
    BY <1>7, NextSweepType DEF WakeUnquarantine, At
  <2>2. caps' \subseteq 1 .. Len(log)
    BY <1>7, <1>b DEF WakeUnquarantine, Of
  <2>3. prejudged' \in BOOLEAN
    BY <1>7, Zenon DEF WakeUnquarantine
  <2>4. status' \in {"done", "queued"}
    BY <1>7 DEF WakeUnquarantine
  <2>5. applied' = i /\ upto' = i /\ log' = log
    BY <1>7 DEF WakeUnquarantine
  <2>6. UNCHANGED <<started, marked, pauseMark, daemon, pc, dispatches, tripped, receipt, seen, called, stops,
                    wakes, holding, overtaken, owed, retripped, quarAt>>
    BY <1>7 DEF WakeUnquarantine
  <2> QED BY <1>a, <2>1, <2>2, <2>3, <2>4, <2>5, <2>6
<1>8. CASE ClaimNextRun
  <2>1. tick' \in 0 .. Len(Sweeps)
    BY <1>8, NextSweepType DEF ClaimNextRun, At
  <2> QED BY <1>8, <2>1 DEF ClaimNextRun
<1>9. CASE EntryGate \/ CommitCancel \/ ApplyLoopGate
  <2>1. applied' \in 0 .. Len(log') /\ upto' \in applied' .. Len(log')
    BY <1>9, <1>e DEF EntryGate, CommitCancel, ApplyLoopGate, NoAdvance
  <2> QED BY <1>9, <2>1 DEF EntryGate, CommitCancel, ApplyLoopGate, EndFiber
<1>10. CASE FoldIntents
  BY <1>10, <1>a DEF FoldIntents
<1>11. CASE CommitPause
  <2>1. applied' \in 0 .. Len(log') /\ upto' \in applied' .. Len(log')
    BY <1>11, <1>e DEF CommitPause, AdvanceAppliedTo
  <2> QED BY <1>11, <1>c, <1>f, <2>1 DEF CommitPause, EndFiber
<1>12. CASE StartRun
  <2>1. pauseMark' \in BOOLEAN
    BY <1>12, Zenon DEF StartRun
  <2>2. applied' \in 0 .. Len(log') /\ upto' \in applied' .. Len(log')
    BY <1>12, <1>e DEF StartRun, AdvanceAppliedTo
  <2> QED BY <1>12, <1>c, <2>1, <2>2 DEF StartRun
<1>13. CASE CommitDispatchMarker
  BY <1>13, <1>a DEF CommitDispatchMarker, NoAdvance
<1>14. CASE DispatchHandler
  BY <1>14 DEF DispatchHandler
<1>15. CASE SupervisorTick
  <2>1. tripped' \in BOOLEAN /\ receipt' \in BOOLEAN
    BY <1>15, Zenon DEF SupervisorTick
  <2>2. retripped' \subseteq 1 .. Len(log)
    BY <1>15, <1>b DEF SupervisorTick
  <2>3. seen' = Len(log)
    BY <1>15 DEF SupervisorTick
  <2>4. UNCHANGED <<log, applied, row, daemon, tick, pc, upto, dispatches,
                    called, stops, wakes, holding, overtaken, owed, quarAt, prejudged>>
    BY <1>15 DEF SupervisorTick
  <2> QED BY <1>a, <2>1, <2>2, <2>3, <2>4
<1>16. CASE SupervisorReap
  BY <1>16, <1>a DEF SupervisorReap
<1>17. CASE CommitDeferredPause
  <2>1. applied' \in 0 .. Len(log') /\ upto' \in applied' .. Len(log')
    BY <1>17, <1>e DEF CommitDeferredPause, CommitFold, AdvanceAppliedTo
  <2> QED BY <1>17, <1>c, <1>f, <2>1 DEF CommitDeferredPause, EndFiber, CommitFold
<1>18. CASE CommitContinue
  <2>1. applied' \in 0 .. Len(log') /\ upto' \in applied' .. Len(log')
    BY <1>18, <1>e DEF CommitContinue, CommitFold, AdvanceAppliedTo
  <2> QED BY <1>18, <1>c, <2>1 DEF CommitContinue, NextTurn, CommitFold
<1>19. ASSUME NEW s \in {"done", "paused_auto"}, CommitSuccess(s) PROVE TypeOK'
  <2>1. applied' \in 0 .. Len(log') /\ upto' \in applied' .. Len(log')
    BY <1>19, <1>e DEF CommitSuccess, CommitFold, AdvanceAppliedTo
  <2> QED BY <1>19, <1>c, <2>1 DEF CommitSuccess, EndFiber, CommitFold
<1>d. ASSUME NEW s, Forgoes(s) PROVE owed' \subseteq 1 .. Len(log)
  BY <1>d, <1>c DEF Forgoes
<1>20. ASSUME NEW s \in {"paused", "paused_human", "paused_auto", "done"}, CommitPark(s) PROVE TypeOK'
  <2>1. owed' \subseteq 1 .. Len(log)
    BY <1>20, <1>d DEF CommitPark
  <2>2. applied' \in 0 .. Len(log') /\ upto' \in applied' .. Len(log')
    BY <1>20, <1>e DEF CommitPark, CommitFold, AdvanceAppliedTo
  <2> QED BY <1>20, <1>c, <2>1, <2>2 DEF CommitPark, EndFiber, CommitFold
<1>21. CASE CommitAbort
  <2>1. owed' \subseteq 1 .. Len(log)
    BY <1>21, <1>d DEF CommitAbort
  <2>2. applied' \in 0 .. Len(log') /\ upto' \in applied' .. Len(log')
    BY <1>21, <1>e DEF CommitAbort, CommitFold, AdvanceAppliedTo
  <2> QED BY <1>21, <1>c, <2>1, <2>2 DEF CommitAbort, NextTurn, CommitFold
<1>22. CASE Shutdown
  <2>1. owed' \subseteq 1 .. Len(log)
    BY <1>22, <1>d DEF Shutdown
  <2>2. applied' \in 0 .. Len(log') /\ upto' \in applied' .. Len(log')
    BY <1>22, <1>e DEF Shutdown, CommitFold, AdvanceAppliedTo
  <2>3. stops' \in Nat /\ seen' \in 0 .. Len(log')
    BY <1>22, <1>a DEF Shutdown
  <2>4. caps' \subseteq 1 .. Len(log)
    BY <1>22, <1>c DEF Shutdown, CommitFold
  <2> QED BY <1>22, <2>1, <2>2, <2>3, <2>4 DEF Shutdown
<1>23. CASE Crash
  <2>1. 0 \in 0 .. Len(Sweeps)
    BY DEF Sweeps
  <2>2. applied' \in 0 .. Len(log') /\ upto' \in applied' .. Len(log')
    BY <1>23, <1>e DEF Crash
  <2>3. stops' \in Nat /\ seen' \in 0 .. Len(log')
    BY <1>23, <1>a DEF Crash
  <2> QED BY <1>23, <2>1, <2>2, <2>3 DEF Crash
<1>24. CASE Boot
  <2>1. CASE BootRequeue
    <3>1. marked' \in BOOLEAN
      BY <2>1, Zenon DEF BootRequeue
    <3> QED BY <2>1, <3>1 DEF BootRequeue
  <2>2. CASE BootQuarantine
    <3>1. quarAt' \in 0 .. Len(log')
      BY <2>2, <1>a DEF BootQuarantine
    <3> QED BY <2>2, <3>1 DEF BootQuarantine
  <2> QED BY <1>24, <2>1, <2>2 DEF Boot
<1>25. CASE ReplanTransition
  <2>1. upto' \in applied' .. Len(log') /\ applied' \in 0 .. Len(log') /\ log' = log
    BY <1>25, <1>a DEF ReplanTransition
  <2> QED BY <1>25, <2>1 DEF ReplanTransition
<1>26. CASE UNCHANGED vars
  BY <1>26 DEF vars
<1> QED BY <1>1, <1>2, <1>3, <1>4, <1>5, <1>6, <1>7, <1>8, <1>9, <1>10, <1>11, <1>12, <1>13, <1>14,
          <1>15, <1>16, <1>17, <1>18, <1>19, <1>20, <1>21, <1>22, <1>23, <1>24, <1>25, <1>26
       DEF Next, ExecutorTick, TurnStep, Supervise, HandlerEnds, CommitExit

-----------------------------------------------------------------------------
(* The fiber.                                                              *)

\* The executor loop leaves the fiber alone: a sweep that changes the run
\* finds it without one, and a claim starts one that has folded nothing.
LEMMA TickFiberInv == TypeOK /\ FiberInv /\ ExecutorTick => FiberInv'
<1> SUFFICES ASSUME TypeOK, FiberInv, ExecutorTick PROVE FiberInv'
  OBVIOUS
<1>1. CASE BeginTick \/ Pass
  BY <1>1 DEF BeginTick, Pass, FiberInv, row, fiber
<1>2. ASSUME NEW i \in 1 .. Len(log), WakeCancel(i) PROVE FiberInv'
  BY <1>2 DEF WakeCancel, Due, FiberInv, Parked
<1>3. ASSUME NEW i \in 1 .. Len(log), WakeHuman(i) PROVE FiberInv'
  BY <1>3 DEF WakeHuman, RunResumed, Due, FiberInv
<1>4. ASSUME NEW i \in 1 .. Len(log), WakeResume(i) PROVE FiberInv'
  BY <1>4 DEF WakeResume, RunResumed, Due, FiberInv, Parked
<1>5. ASSUME NEW i \in 1 .. Len(log), NEW r \in {"cancel", "retry"}, WakeUnquarantine(i, r)
      PROVE  FiberInv'
  <2>1. status = "quarantined" /\ pc' = pc
    BY <1>5 DEF WakeUnquarantine, Due
  <2> QED BY <2>1 DEF FiberInv
<1>6. CASE WakeAutoResume
  BY <1>6 DEF WakeAutoResume, RunResumed, FiberInv
<1>7. CASE ClaimNextRun
  BY <1>7 DEF ClaimNextRun, At, FiberInv
<1> QED BY <1>1, <1>2, <1>3, <1>4, <1>5, <1>6, <1>7 DEF ExecutorTick

\* Every step keeps the fiber's invariant.
LEMMA NextFiberInv == TypeOK /\ FiberInv /\ [Next]_vars => FiberInv'
<1> SUFFICES ASSUME TypeOK, FiberInv, [Next]_vars PROVE FiberInv'
  OBVIOUS
<1>1. ASSUME NEW k \in Kinds, AppendIntent(k) PROVE FiberInv'
  <2>1. UNCHANGED <<applied, status, daemon, pc, upto>>
    BY <1>1 DEF AppendIntent, row, fiber
  <2>2. Len(log) \in Nat /\ \A j \in 1 .. Len(log) : log'[j] = log[j]
    BY <1>1, AppendKeeps
  <2>3. applied \in 0 .. Len(log) /\ upto \in applied .. Len(log)
    BY DEF TypeOK
  <2>4. \A j \in 1 .. upto : log'[j] = log[j]
    BY <2>2, <2>3
  <2> QED BY <2>1, <2>4 DEF FiberInv
<1>2. CASE ExecutorTick
  BY <1>2, TickFiberInv
<1>3. CASE TurnStep
  <2>1. CASE EntryGate \/ CommitCancel \/ CommitPause \/ ApplyLoopGate
    BY <2>1 DEF EntryGate, CommitCancel, CommitPause, ApplyLoopGate, EndFiber, FiberInv
  <2>2. CASE FoldIntents
    BY <2>2 DEF FoldIntents, FiberAt, FiberInv, row
  <2>3. CASE StartRun \/ CommitDispatchMarker
    BY <2>3 DEF StartRun, CommitDispatchMarker, Proceeds, FiberAt, FiberInv
  <2>4. CASE DispatchHandler
    <3>1. ~FoldsCancel /\ pc = "folded" /\ UNCHANGED <<log, applied, status, daemon, upto>>
      BY <2>4 DEF DispatchHandler, Proceeds, FiberAt, row
    <3>2. \A j \in 1 .. upto : j > applied => log[j] # "cancel"
      BY <3>1 DEF FoldsCancel, Of, Batch, TypeOK
    <3> QED BY <3>1, <3>2 DEF FiberInv
  <2> QED BY <1>3, <2>1, <2>2, <2>3, <2>4 DEF TurnStep
<1>4. CASE Supervise
  BY <1>4 DEF Supervise, SupervisorTick, SupervisorReap, FiberInv, row, fiber
<1>5. CASE HandlerEnds
  <2>1. pc' = "none" \/ (pc' = "turn" /\ pc # "none" /\ UNCHANGED <<status, daemon>>)
    BY <1>5 DEF HandlerEnds, CommitDeferredPause, CommitContinue, CommitSuccess, CommitPark,
                CommitAbort, CommitExit, EndFiber, NextTurn, FiberAt, AtResult
  <2> QED BY <2>1 DEF FiberInv
<1>6. CASE Shutdown \/ Crash
  BY <1>6 DEF Shutdown, Crash, FiberInv
<1>7. CASE Boot
  BY <1>7 DEF Boot, BootRequeue, BootQuarantine, FiberInv, fiber
<1>8. CASE ReplanTransition
  <2>1. pc = "work" /\ pc' = "replan" /\ UNCHANGED <<log, applied, status, daemon>>
    BY <1>8 DEF ReplanTransition, FiberAt, row
  <2>2. CASE RefoldReplaces
    <3>1. \A j \in 1 .. Len(log) : j > applied => log[j] # "cancel"
      BY <2>2 DEF RefoldReplaces, Of, UnappliedIntents
    <3> QED BY <1>8, <2>1, <2>2, <3>1 DEF FiberInv, ReplanTransition
  <2>3. CASE ~RefoldReplaces
    BY <1>8, <2>1, <2>3 DEF FiberInv, ReplanTransition
  <2> QED BY <2>2, <2>3
<1>9. CASE UNCHANGED vars
  BY <1>9 DEF vars, row, fiber, FiberInv
<1> QED BY <1>1, <1>2, <1>3, <1>4, <1>5, <1>6, <1>7, <1>8, <1>9 DEF Next

-----------------------------------------------------------------------------
(* The watermark.                                                          *)

\* A step that moves the watermark to n, past no cancel and with every raise
\* in between merged or overtaken, and that does not revive a run that is
\* over, keeps both properties of the watermark.
LEMMA AdvanceKeeps ==
    ASSUME TypeOK, NoCancelBuried, RaisesLand,
           NEW n \in 0 .. Len(log), applied' = n, log' = log,
           status = "done" => status' = "done",
           caps \union overtaken \subseteq caps' \union overtaken',
           \A j \in 1 .. n : j > applied => log[j] # "cancel",
           \A j \in 1 .. n : j > applied /\ log[j] = "raise" => j \in caps' \union overtaken'
    PROVE  NoCancelBuried' /\ RaisesLand'
<1>1. applied \in Nat /\ n \in Nat
  BY DEF TypeOK
<1>2. NoCancelBuried'
  <2> SUFFICES ASSUME NEW j \in 1 .. n, log[j] = "cancel" PROVE status' = "done"
    BY DEF NoCancelBuried
  <2>1. j \in 1 .. applied
    BY <1>1
  <2> QED BY <2>1 DEF NoCancelBuried
<1>3. RaisesLand'
  <2> SUFFICES ASSUME status' # "done", NEW j \in 1 .. n, log[j] = "raise"
               PROVE  j \in caps' \union overtaken'
    BY DEF RaisesLand
  <2>1. CASE j > applied
    BY <2>1
  <2>2. CASE ~(j > applied)
    <3>1. j \in 1 .. applied
      BY <1>1, <2>2
    <3>2. j \in caps \union overtaken
      BY <3>1 DEF RaisesLand
    <3> QED BY <3>2
  <2> QED BY <2>1, <2>2
<1> QED BY <1>2, <1>3

\* A step that leaves the watermark where it is only has to leave a run that
\* is over alone.
LEMMA StillKeeps ==
    ASSUME TypeOK, NoCancelBuried, RaisesLand, applied' = applied, log' = log,
           status = "done" => status' = "done",
           caps \union overtaken \subseteq caps' \union overtaken'
    PROVE  NoCancelBuried' /\ RaisesLand'
<1>1. applied \in 0 .. Len(log) /\ applied \in Nat
  BY DEF TypeOK
<1>2. \A j \in 1 .. applied : ~(j > applied)
  BY <1>1
<1> QED BY <1>1, <1>2, AdvanceKeeps

\* The commit of a turn whose batch holds no cancel: the watermark moves to
\* the end of the batch and the batch's raises are merged or overtaken.
LEMMA BatchKeeps ==
    ASSUME TypeOK, NoCancelBuried, RaisesLand, applied' = upto, log' = log,
           status # "done",
           caps \union overtaken \union Of("raise", Batch) \subseteq caps' \union overtaken',
           \A j \in 1 .. upto : j > applied => log[j] # "cancel"
    PROVE  NoCancelBuried' /\ RaisesLand'
<1>1. upto \in 0 .. Len(log)
  BY DEF TypeOK
<1>2. \A j \in 1 .. upto : j > applied /\ log[j] = "raise" => j \in Of("raise", Batch)
  BY <1>1 DEF Of, Batch, TypeOK
<1> QED BY <1>1, <1>2, AdvanceKeeps

\* A run that is over keeps both properties whatever the watermark.
LEMMA DoneKeeps == ASSUME status' = "done" PROVE NoCancelBuried' /\ RaisesLand'
  BY DEF NoCancelBuried, RaisesLand

\* The sweeps and the claim keep both properties.
LEMMA TickWatermark == IInv /\ ExecutorTick => NoCancelBuried' /\ RaisesLand'
<1> SUFFICES ASSUME IInv, ExecutorTick PROVE NoCancelBuried' /\ RaisesLand'
  OBVIOUS
<1> USE DEF IInv
<1>1. CASE BeginTick \/ Pass
  <2>1. UNCHANGED <<applied, log, status, caps, overtaken>>
    BY <1>1 DEF BeginTick, Pass, row, ghosts
  <2> QED BY <2>1, StillKeeps
<1>2. ASSUME NEW i \in 1 .. Len(log), WakeCancel(i) PROVE NoCancelBuried' /\ RaisesLand'
  BY <1>2, DoneKeeps DEF WakeCancel
<1>3. ASSUME NEW i \in 1 .. Len(log), WakeHuman(i) \/ WakeResume(i)
      PROVE  NoCancelBuried' /\ RaisesLand'
  <2>1. UNCHANGED <<applied, log, caps, overtaken>> /\ status \in Parked
    BY <1>3 DEF WakeHuman, WakeResume, RunResumed, Due, Parked
  <2> QED BY <2>1, StillKeeps DEF Parked
<1>4. ASSUME NEW i \in 1 .. Len(log), NEW r \in {"cancel", "retry"}, WakeUnquarantine(i, r)
      PROVE  NoCancelBuried' /\ RaisesLand'
  <2> DEFINE pending == {j \in UnappliedIntents : j <= i}
  <2>1. CASE status' = "done"
    BY <2>1, DoneKeeps
  <2>2. CASE status' # "done"
    <3>1. Of("cancel", pending) = {} /\ caps' = caps \union Of("raise", pending)
      BY <1>4, <2>2 DEF WakeUnquarantine
    <3>2. applied' = i /\ log' = log /\ overtaken' = overtaken /\ status = "quarantined"
      BY <1>4 DEF WakeUnquarantine, Due
    <3>3. \A j \in 1 .. i : j > applied => j \in pending
      BY DEF UnappliedIntents, TypeOK
    <3>4. \A j \in 1 .. i : j > applied => log[j] # "cancel"
      BY <3>1, <3>3 DEF Of
    <3>5. \A j \in 1 .. i : j > applied /\ log[j] = "raise" => j \in caps'
      BY <3>1, <3>3 DEF Of
    <3>6. i \in 0 .. Len(log)
      BY DEF TypeOK
    <3> HIDE DEF pending
    <3>7. caps \union overtaken \subseteq caps' \union overtaken'
      BY <3>1, <3>2
    <3> QED BY <3>2, <3>4, <3>5, <3>6, <3>7, AdvanceKeeps
  <2> QED BY <2>1, <2>2
<1>5. CASE WakeAutoResume
  <2>1. UNCHANGED <<applied, log, caps, overtaken>> /\ status = "paused_auto"
    BY <1>5 DEF WakeAutoResume, RunResumed
  <2> QED BY <2>1, StillKeeps
<1>6. CASE ClaimNextRun
  <2>1. UNCHANGED <<applied, log, caps, overtaken>> /\ status = "queued"
    BY <1>6 DEF ClaimNextRun, ghosts
  <2> QED BY <2>1, StillKeeps
<1> QED BY <1>1, <1>2, <1>3, <1>4, <1>5, <1>6 DEF ExecutorTick

\* The turn keeps both: a commit that consumes the batch follows a fold that
\* found no cancel in it.
LEMMA TurnWatermark == IInv /\ TurnStep => NoCancelBuried' /\ RaisesLand'
<1> SUFFICES ASSUME IInv, TurnStep PROVE NoCancelBuried' /\ RaisesLand'
  OBVIOUS
<1> USE DEF IInv
<1>1. pc # "none" /\ status = "running" /\ log' = log
  BY DEF TurnStep, EntryGate, FoldIntents, CommitCancel, CommitPause, StartRun,
         CommitDispatchMarker, ApplyLoopGate, DispatchHandler, Proceeds, FiberAt, FiberInv
<1>2. ~FoldsCancel => \A j \in 1 .. upto : j > applied => log[j] # "cancel"
  BY DEF FoldsCancel, Of, Batch, TypeOK
<1>3. CASE EntryGate \/ FoldIntents \/ CommitCancel \/ CommitDispatchMarker \/ ApplyLoopGate
           \/ DispatchHandler
  <2>1. UNCHANGED <<applied, caps, overtaken>>
    BY <1>3 DEF EntryGate, FoldIntents, CommitCancel, CommitDispatchMarker, ApplyLoopGate,
                DispatchHandler, NoAdvance, row, ghosts
  <2> QED BY <1>1, <2>1, StillKeeps
<1>4. CASE CommitPause
  <2>1. /\ applied' = upto /\ caps' = caps /\ overtaken' = overtaken \union Of("raise", Batch)
        /\ ~FoldsCancel
    BY <1>4 DEF CommitPause, AdvanceAppliedTo
  <2>2. caps \union overtaken \union Of("raise", Batch) \subseteq caps' \union overtaken'
    BY <2>1
  <2> QED BY <1>1, <1>2, <2>1, <2>2, BatchKeeps
<1>5. CASE StartRun
  <2>1. /\ applied' = upto /\ overtaken' = overtaken /\ caps' = caps \union Of("raise", Batch)
        /\ ~FoldsCancel
    BY <1>5 DEF StartRun, Proceeds, AdvanceAppliedTo, ghosts
  <2>2. caps \union overtaken \union Of("raise", Batch) \subseteq caps' \union overtaken'
    BY <2>1
  <2> QED BY <1>1, <1>2, <2>1, <2>2, BatchKeeps
<1> QED BY <1>3, <1>4, <1>5 DEF TurnStep

\* Every commit that ends a dispatch consumes a batch the fiber's invariant
\* knows to be free of cancels, and merges its raises.
LEMMA CommitWatermark == IInv /\ (HandlerEnds \/ Shutdown) => NoCancelBuried' /\ RaisesLand'
<1> SUFFICES ASSUME IInv, HandlerEnds \/ Shutdown PROVE NoCancelBuried' /\ RaisesLand'
  OBVIOUS
<1>1. pc \in {"work", "replan"} /\ CommitFold /\ log' = log /\ overtaken' = overtaken
  BY DEF HandlerEnds, Shutdown, CommitDeferredPause, CommitContinue, CommitSuccess, CommitPark,
         CommitAbort, CommitExit, FiberAt, AtResult, ghosts
<1>2. applied' = upto /\ caps' = caps \union Of("raise", Batch)
  BY <1>1 DEF CommitFold, AdvanceAppliedTo
<1>3. status = "running" /\ \A j \in 1 .. upto : j > applied => log[j] # "cancel"
  BY <1>1 DEF IInv, FiberInv
<1>4. caps \union overtaken \union Of("raise", Batch) \subseteq caps' \union overtaken'
  BY <1>1, <1>2
<1> QED BY <1>1, <1>2, <1>3, <1>4, BatchKeeps DEF IInv

\* Every step keeps both properties.
LEMMA NextWatermark == IInv /\ [Next]_vars => NoCancelBuried' /\ RaisesLand'
<1> SUFFICES ASSUME IInv, [Next]_vars PROVE NoCancelBuried' /\ RaisesLand'
  OBVIOUS
<1>1. ASSUME NEW k \in Kinds, AppendIntent(k) PROVE NoCancelBuried' /\ RaisesLand'
  <2>1. UNCHANGED <<applied, status, caps, overtaken>>
    BY <1>1 DEF AppendIntent, row, ghosts
  <2>2. TypeOK
    BY DEF IInv
  <2>3. Len(log) \in Nat /\ \A j \in 1 .. Len(log) : log'[j] = log[j]
    BY <1>1, <2>2, AppendKeeps
  <2>4. applied \in 0 .. Len(log)
    BY <2>2 DEF TypeOK
  <2>5. \A j \in 1 .. applied : log'[j] = log[j]
    BY <2>3, <2>4
  <2> QED BY <2>1, <2>5 DEF IInv, NoCancelBuried, RaisesLand
<1>2. CASE ExecutorTick
  BY <1>2, TickWatermark
<1>3. CASE TurnStep
  BY <1>3, TurnWatermark
<1>4. CASE HandlerEnds \/ Shutdown
  BY <1>4, CommitWatermark
<1>5. CASE Supervise \/ ReplanTransition \/ Crash \/ Boot \/ UNCHANGED vars
  <2>1. UNCHANGED <<log, applied, caps, overtaken>> /\ (status = "done" => status' = "done")
    BY <1>5 DEF Supervise, SupervisorTick, SupervisorReap, ReplanTransition, Crash, Boot, BootRequeue,
                BootQuarantine, row, ghosts, vars
  <2> QED BY <2>1, StillKeeps DEF IInv
<1> QED BY <1>1, <1>2, <1>3, <1>4, <1>5 DEF Next

-----------------------------------------------------------------------------
\* The inductive invariant holds in every reachable state.
LEMMA Invariant == Spec => []IInv
<1>1. IInv /\ [Next]_vars => IInv'
  BY NextTypeOK, NextFiberInv, NextWatermark DEF IInv
<1> QED BY <1>1, InitIInv, PTL DEF Spec

\* Every reachable state of OperatorIntents is well typed: the watermark
\* stays within the log, a turn's batch between the two.
THEOREM IntentsTypeCorrect == Spec => []TypeOK
<1>1. IInv => TypeOK
  BY DEF IInv
<1> QED BY <1>1, Invariant, PTL

\* No commit and no wake consumes a cancel without ending the run, for every
\* number of intents, dispatch ceiling and number of crashes.
THEOREM NoCancelBuriedHolds == Spec => []NoCancelBuried
<1>1. IInv => NoCancelBuried
  BY DEF IInv
<1> QED BY <1>1, Invariant, PTL

\* No commit and no wake moves the watermark past a raise that is neither
\* merged into routing nor folded together with a pause.
THEOREM RaisesLandHolds == Spec => []RaisesLand
<1>1. IInv => RaisesLand
  BY DEF IInv
<1> QED BY <1>1, Invariant, PTL

-----------------------------------------------------------------------------
(* The operator pause.                                                     *)

\* The pause in force was consumed with its batch.
HoldInv == holding <= applied

\* The watermark never moves back, and a pause takes effect with the commit
\* that consumes it.
LEMMA NextHoldInv ==
    ASSUME TypeOK, HoldInv, [Next]_vars PROVE HoldInv'
<1>1. applied \in Nat /\ upto \in Nat /\ holding \in Nat /\ applied <= upto
  BY DEF TypeOK
<1>2. CASE UNCHANGED <<applied, holding>>
  BY <1>2 DEF HoldInv
<1>3. ASSUME applied' = upto, holding' \in {holding, upto} PROVE HoldInv'
  BY <1>1, <1>3 DEF HoldInv
<1>4. ASSUME holding' = 0, applied' = applied PROVE HoldInv'
  BY <1>1, <1>4 DEF HoldInv
<1>5. ASSUME NEW i \in 1 .. Len(log), i \in UnappliedIntents, applied' = i, holding' = holding
      PROVE  HoldInv'
  BY <1>1, <1>5 DEF HoldInv, UnappliedIntents
<1>6. CASE ExecutorTick
  <2>1. CASE BeginTick \/ Pass \/ ClaimNextRun
    BY <1>2, <2>1 DEF BeginTick, Pass, ClaimNextRun, ghosts
  <2>2. ASSUME NEW i \in 1 .. Len(log),
               WakeCancel(i) \/ \E r \in {"cancel", "retry"} : WakeUnquarantine(i, r)
        PROVE  HoldInv'
    BY <1>5, <2>2 DEF WakeCancel, WakeUnquarantine, NextPendingIntent, Of, ghosts
  <2>3. ASSUME NEW i \in 1 .. Len(log), WakeHuman(i) \/ WakeResume(i) PROVE HoldInv'
    BY <1>4, <2>3 DEF WakeHuman, WakeResume, RunResumed
  <2>4. CASE WakeAutoResume
    BY <1>4, <2>4 DEF WakeAutoResume, RunResumed
  <2> QED BY <1>6, <2>1, <2>2, <2>3, <2>4 DEF ExecutorTick
<1>7. CASE TurnStep
  <2>1. CASE EntryGate \/ FoldIntents \/ CommitCancel \/ CommitDispatchMarker \/ ApplyLoopGate
             \/ DispatchHandler
    BY <1>2, <2>1 DEF EntryGate, FoldIntents, CommitCancel, CommitDispatchMarker, ApplyLoopGate,
                      DispatchHandler, NoAdvance, ghosts
  <2>2. CASE CommitPause \/ StartRun
    BY <1>3, <2>2 DEF CommitPause, StartRun, AdvanceAppliedTo, ghosts
  <2> QED BY <1>7, <2>1, <2>2 DEF TurnStep
<1>8. CASE HandlerEnds \/ Shutdown
  BY <1>3, <1>8 DEF HandlerEnds, Shutdown, CommitDeferredPause, CommitContinue, CommitSuccess,
                    CommitPark, CommitAbort, CommitExit, CommitFold, AdvanceAppliedTo, ghosts
<1>9. CASE (\E k \in Kinds : AppendIntent(k)) \/ Supervise \/ ReplanTransition \/ Crash \/ Boot
           \/ UNCHANGED vars
  BY <1>2, <1>9 DEF AppendIntent, Supervise, SupervisorTick, SupervisorReap, ReplanTransition,
                    Crash, Boot, BootRequeue, BootQuarantine, ghosts, vars
<1> HIDE DEF HoldInv
<1> QED BY <1>6, <1>7, <1>8, <1>9 DEF Next

\* Only wakeResume, on an unapplied resume, takes a run out of an operator's
\* pause: a fiber writes a status under a running row, and the other sweeps
\* look for other statuses.
LEMMA PauseLeftByResume ==
    ASSUME IInv, [Next]_vars, status = "paused", status' = "queued"
    PROVE  \E i \in 1 .. Len(log) : i > applied /\ log[i] = "resume"
<1>1. pc = "none"
  BY DEF IInv, FiberInv
<1>2. ~(TurnStep \/ HandlerEnds \/ Shutdown \/ ReplanTransition \/ Boot)
  BY <1>1 DEF TurnStep, EntryGate, FoldIntents, CommitCancel, CommitPause, StartRun,
              CommitDispatchMarker, ApplyLoopGate, DispatchHandler, Proceeds, FiberAt, AtResult,
              HandlerEnds, Shutdown, CommitDeferredPause, CommitContinue, CommitSuccess,
              CommitPark, CommitAbort, CommitExit, ReplanTransition, Boot, BootRequeue,
              BootQuarantine
<1>3. ~((\E k \in Kinds : AppendIntent(k)) \/ Supervise \/ Crash \/ UNCHANGED vars)
  BY DEF AppendIntent, Supervise, SupervisorTick, SupervisorReap, Crash, vars, row
<1>4. ExecutorTick
  BY <1>2, <1>3 DEF Next
<1>5. PICK i \in 1 .. Len(log) : WakeResume(i)
  <2>1. ~(BeginTick \/ Pass \/ WakeAutoResume \/ ClaimNextRun)
    BY DEF BeginTick, Pass, WakeAutoResume, ClaimNextRun, row
  <2>2. ASSUME NEW i \in 1 .. Len(log)
        PROVE  ~(WakeCancel(i) \/ WakeHuman(i) \/ \E r \in {"cancel", "retry"} : WakeUnquarantine(i, r))
    BY DEF WakeCancel, WakeHuman, WakeUnquarantine, Due
  <2> QED BY <1>4, <2>1, <2>2 DEF ExecutorTick
<1> QED BY <1>5 DEF WakeResume, RunResumed, NextPendingIntent, Of, UnappliedIntents

\* An operator pause is left only by a resume issued after it, whatever was
\* queued, folded or deferred when it took effect.
THEOREM OperatorPauseHoldsAlways == Spec => OperatorPauseHolds
<1> DEFINE Held ==
      holding # 0 /\ status = "paused" /\ status' = "queued" =>
          \E i \in holding + 1 .. Len(log) : log[i] = "resume"
<1>1. Init => HoldInv
  BY DEF Init, HoldInv
<1>2. IInv /\ HoldInv /\ [Next]_vars => HoldInv'
  BY NextHoldInv DEF IInv
<1>3. IInv /\ HoldInv /\ [Next]_vars => [Held]_vars
  <2> SUFFICES ASSUME IInv, HoldInv, [Next]_vars, status = "paused", status' = "queued"
               PROVE  \E i \in holding + 1 .. Len(log) : log[i] = "resume"
    OBVIOUS
  <2>1. PICK i \in 1 .. Len(log) : i > applied /\ log[i] = "resume"
    BY PauseLeftByResume
  <2>2. holding \in Nat /\ applied \in Nat /\ holding <= applied /\ Len(log) \in Nat
    BY DEF IInv, TypeOK, HoldInv
  <2>3. i \in holding + 1 .. Len(log)
    BY <2>1, <2>2
  <2> QED BY <2>1, <2>3
<1> QED BY Invariant, <1>1, <1>2, <1>3, PTL DEF Spec, OperatorPauseHolds

-----------------------------------------------------------------------------
(* One wake per intent.                                                    *)

\* Every daemon so far has the run's contract version in its window.
Admitted == \A n \in 0 .. stops : Compatible[n]

\* A wake that the watermark has not passed is on its way to a fold: its run is
\* not parked, and no dispatch happens before a batch that holds it.
OnItsWay(i) ==
    /\ i <= Len(log)
    /\ status \notin Parked
    /\ pc \in {"turn", "folded"} => dispatches = 0
    /\ pc \in {"folded", "work", "replan"} => i <= upto

WakeInv ==
    Admitted => \A i \in Seqs : /\ wakes[i] <= 1
                                /\ wakes[i] > 0 /\ i > applied => OnItsWay(i)

\* The contract versions of the daemons so far only grow in number.
LEMMA AdmittedBefore == ASSUME TypeOK, [Next]_vars, Admitted' PROVE Admitted
<1>1. stops \in Nat /\ (stops' = stops \/ stops' = stops + 1)
  BY DEF TypeOK, Next, vars, AppendIntent, ExecutorTick, BeginTick, Pass, WakeCancel, WakeHuman,
         WakeResume, RunResumed, WakeAutoResume, WakeUnquarantine, ClaimNextRun, TurnStep,
         EntryGate, FoldIntents, CommitCancel, CommitPause, StartRun, CommitDispatchMarker,
         ApplyLoopGate, DispatchHandler, Supervise, SupervisorTick, SupervisorReap, HandlerEnds,
         CommitDeferredPause, CommitContinue, CommitSuccess, CommitPark, CommitAbort, CommitExit,
         ReplanTransition, Shutdown, Crash, Boot, BootRequeue, BootQuarantine
<1> QED BY <1>1 DEF Admitted

\* A fiber's turn state starts below its dispatch ceiling.
LEMMA CeilingPositive == ASSUME TypeOK PROVE EffectiveMaxLoops \in Nat \ {0}
<1>1. IsFiniteSet(1 .. Len(log))
  BY FS_Interval DEF TypeOK
<1>2. caps \union Of("raise", Batch) \subseteq 1 .. Len(log)
  BY DEF TypeOK, Of, Batch
<1>3. Cardinality(caps \union Of("raise", Batch)) \in Nat
  BY <1>1, <1>2, FS_Subset, FS_CardinalityType
<1> QED BY <1>3, IntentsAssumption DEF EffectiveMaxLoops

\* A step that changes no wake count keeps every wake that is still unapplied
\* on its way, if it keeps OnItsWay of those it does not apply.
LEMMA WakesKept ==
    ASSUME TypeOK, WakeInv, wakes' = wakes, Admitted' => Admitted,
           \A i \in Seqs : wakes[i] > 0 /\ i > applied' => i > applied,
           \A i \in Seqs : Admitted /\ wakes[i] > 0 /\ i > applied' /\ OnItsWay(i) => OnItsWay(i)'
    PROVE  WakeInv'
  BY DEF WakeInv

\* The executor loop wakes a parked run for an unapplied intent, and a parked run
\* has no wake on its way.
LEMMA TickWakeInv == ASSUME IInv, WakeInv, ExecutorTick, Admitted' => Admitted PROVE WakeInv'
<1>a. TypeOK /\ applied \in Nat /\ Len(log) \in Nat
  BY DEF IInv, TypeOK
<1>1. CASE BeginTick \/ Pass
  <2>1. UNCHANGED <<log, applied, status, pc, dispatches, upto, wakes>>
    BY <1>1 DEF BeginTick, Pass, row, fiber, ghosts
  <2> QED BY <1>a, <2>1, WakesKept DEF OnItsWay
<1>2. ASSUME NEW i \in 1 .. Len(log),
             WakeCancel(i) \/ \E r \in {"cancel", "retry"} : WakeUnquarantine(i, r)
      PROVE  WakeInv'
  <2>1. /\ UNCHANGED <<log, pc, dispatches, wakes>>
        /\ applied' = i /\ i > applied /\ status' \in {"done", "queued"} /\ pc = "none"
    BY <1>2 DEF WakeCancel, WakeUnquarantine, NextPendingIntent, Of, UnappliedIntents, ghosts,
                Due, Parked, IInv, FiberInv
  <2>2. \A j \in Seqs : j > i => j > applied
    BY <1>a, <2>1 DEF Seqs
  <2> QED BY <1>a, <2>1, <2>2, WakesKept DEF OnItsWay, Parked
<1>3. ASSUME NEW i \in 1 .. Len(log), WakeHuman(i) \/ WakeResume(i) PROVE WakeInv'
  <2>1. /\ UNCHANGED <<log, pc, dispatches, applied>>
        /\ i > applied /\ status \in Parked /\ status' = "queued" /\ pc = "none" /\ Woken(i)
    BY <1>3 DEF WakeHuman, WakeResume, RunResumed, NextPendingIntent, Of, UnappliedIntents, ghosts,
                Due, Parked, IInv, FiberInv
  <2>2. Admitted => \A j \in Seqs : wakes[j] > 0 => ~(j > applied)
    BY <2>1 DEF WakeInv, OnItsWay
  <2>3. wakes \in [Seqs -> 0 .. 2] /\ i \in Seqs
    BY <1>a, IntentsAssumption DEF TypeOK, Seqs
  <2>4. \A j \in Seqs : wakes'[j] = IF j = i THEN (IF wakes[j] < 2 THEN wakes[j] + 1 ELSE wakes[j])
                                             ELSE wakes[j]
    BY <2>1, <2>3 DEF Woken
  <2>5. Admitted => wakes[i] = 0
    BY <2>1, <2>2, <2>3
  <2>6. Admitted' => \A j \in Seqs : wakes'[j] <= 1
    BY <2>3, <2>4, <2>5 DEF WakeInv
  <2>7. Admitted' => \A j \in Seqs : wakes'[j] > 0 /\ j > applied' => OnItsWay(j)'
    BY <2>1, <2>2, <2>4, <1>a DEF OnItsWay, Parked
  <2> QED BY <2>6, <2>7 DEF WakeInv
<1>4. CASE WakeAutoResume
  <2>1. UNCHANGED <<log, applied, pc, dispatches, upto, wakes>> /\ status' = "queued"
    BY <1>4 DEF WakeAutoResume, RunResumed
  <2> QED BY <1>a, <2>1, WakesKept DEF OnItsWay, Parked
<1>5. CASE ClaimNextRun
  <2>1. /\ UNCHANGED <<log, applied, upto, wakes>> /\ status' = "running"
        /\ pc' = "turn" /\ dispatches' = 0
    BY <1>5 DEF ClaimNextRun, ghosts
  <2> QED BY <1>a, <2>1, WakesKept DEF OnItsWay, Parked
<1> QED BY <1>1, <1>2, <1>3, <1>4, <1>5 DEF ExecutorTick

\* A turn of an admitted run folds every wake on its way, and the dispatch ceiling
\* cannot park it before its first dispatch.
LEMMA TurnWakeInv == ASSUME IInv, WakeInv, TurnStep, Admitted' => Admitted PROVE WakeInv'
<1>a. /\ TypeOK /\ applied \in Nat /\ upto \in Nat /\ Len(log) \in Nat /\ applied <= upto
      /\ upto <= Len(log) /\ dispatches \in Nat /\ stops \in Nat
  BY DEF IInv, TypeOK
<1>b. status = "running"
  BY DEF IInv, FiberInv, TurnStep, EntryGate, FoldIntents, CommitCancel, CommitPause, StartRun,
         CommitDispatchMarker, ApplyLoopGate, DispatchHandler, Proceeds, FiberAt
<1>c. ASSUME wakes' = wakes, applied' = upto, pc = "folded" PROVE WakeInv'
  <2>1. \A i \in Seqs : i > applied' => i > applied
    BY <1>a, <1>c DEF Seqs
  <2>2. \A i \in Seqs : i > applied' => ~OnItsWay(i)
    BY <1>a, <1>c DEF OnItsWay, Seqs
  <2> QED BY <1>a, <1>c, <2>1, <2>2, WakesKept
<1>1. CASE EntryGate
  <2>1. wakes' = wakes /\ applied' = applied /\ ~Admitted
    BY <1>1, <1>a DEF EntryGate, NoAdvance, ghosts, Admitted
  <2> QED BY <2>1 DEF WakeInv
<1>2. CASE FoldIntents
  <2>1. /\ UNCHANGED <<log, applied, status, dispatches, wakes>>
        /\ upto' = Len(log) /\ pc = "turn" /\ pc' = "folded"
    BY <1>2 DEF FoldIntents, FiberAt, row, ghosts
  <2> QED BY <1>a, <2>1, WakesKept DEF OnItsWay
<1>3. CASE CommitCancel
  <2>1. UNCHANGED <<log, applied, dispatches, wakes>> /\ pc' = "none" /\ status' = "done"
    BY <1>3 DEF CommitCancel, EndFiber, NoAdvance, ghosts
  <2> QED BY <1>a, <2>1, WakesKept DEF OnItsWay, Parked
<1>4. CASE CommitPause \/ StartRun
  BY <1>c, <1>4 DEF CommitPause, StartRun, Proceeds, FiberAt, AdvanceAppliedTo, ghosts
<1>5. CASE CommitDispatchMarker
  <2>1. UNCHANGED <<log, applied, status, dispatches, wakes>> /\ pc = "folded" /\ pc' = "turn"
    BY <1>5 DEF CommitDispatchMarker, Proceeds, FiberAt, NoAdvance, ghosts
  <2> QED BY <1>a, <2>1, WakesKept DEF OnItsWay
<1>6. CASE ApplyLoopGate
  <2>1. wakes' = wakes /\ applied' = applied /\ pc = "folded" /\ dispatches >= EffectiveMaxLoops
    BY <1>6 DEF ApplyLoopGate, Proceeds, FiberAt, NoAdvance, ghosts
  <2>2. dispatches # 0
    BY <1>a, <2>1, CeilingPositive
  <2>3. \A i \in Seqs : ~OnItsWay(i)
    BY <2>1, <2>2 DEF OnItsWay
  <2> QED BY <1>a, <2>1, <2>3, WakesKept
<1>7. CASE DispatchHandler
  <2>1. UNCHANGED <<log, applied, status, upto, wakes>> /\ pc = "folded" /\ pc' = "work"
    BY <1>7 DEF DispatchHandler, Proceeds, FiberAt, row, ghosts
  <2> QED BY <1>a, <2>1, WakesKept DEF OnItsWay
<1> QED BY <1>1, <1>2, <1>3, <1>4, <1>5, <1>6, <1>7 DEF TurnStep

\* No step wakes a run twice for one intent while every daemon admits it.
LEMMA NextWakeInv == ASSUME IInv, WakeInv, [Next]_vars PROVE WakeInv'
<1>a. /\ TypeOK /\ applied \in Nat /\ upto \in Nat /\ Len(log) \in Nat /\ applied <= upto
      /\ upto <= Len(log)
  BY DEF IInv, TypeOK
<1>b. Admitted' => Admitted
  BY <1>a, AdmittedBefore
<1>1. ASSUME NEW k \in Kinds, AppendIntent(k) PROVE WakeInv'
  <2>1. UNCHANGED <<applied, status, pc, dispatches, upto, wakes>>
    BY <1>1 DEF AppendIntent, row, fiber, ghosts
  <2>2. Len(log') = Len(log) + 1
    BY <1>a, <1>1, AppendKeeps
  <2>3. \A i \in Seqs : OnItsWay(i) => OnItsWay(i)'
    BY <1>a, <2>1, <2>2 DEF OnItsWay, Seqs
  <2> QED BY <1>a, <1>b, <2>1, <2>3, WakesKept
<1>2. CASE ExecutorTick
  BY <1>2, <1>b, TickWakeInv
<1>3. CASE TurnStep
  BY <1>3, <1>b, TurnWakeInv
<1>4. CASE Supervise \/ UNCHANGED vars
  <2>1. UNCHANGED <<log, applied, status, pc, dispatches, upto, wakes>>
    BY <1>4 DEF Supervise, SupervisorTick, SupervisorReap, row, fiber, ghosts, vars
  <2> QED BY <1>a, <1>b, <2>1, WakesKept DEF OnItsWay
<1>5. CASE ReplanTransition
  <2>1. /\ UNCHANGED <<log, applied, status, dispatches, wakes>> /\ pc = "work" /\ pc' = "replan"
        /\ upto' \in {upto, Len(log)}
    BY <1>5 DEF ReplanTransition, FiberAt, row, ghosts
  <2> QED BY <1>a, <1>b, <2>1, WakesKept DEF OnItsWay
<1>6. CASE HandlerEnds \/ Shutdown
  <2>1. wakes' = wakes /\ applied' = upto /\ pc \in {"work", "replan"}
    BY <1>6 DEF HandlerEnds, Shutdown, CommitDeferredPause, CommitContinue, CommitSuccess,
                CommitPark, CommitAbort, CommitExit, CommitFold, AdvanceAppliedTo, FiberAt,
                AtResult, ghosts
  <2>2. \A i \in Seqs : i > applied' => i > applied /\ ~OnItsWay(i)
    BY <1>a, <2>1 DEF OnItsWay, Seqs
  <2> QED BY <1>a, <1>b, <2>1, <2>2, WakesKept
<1>7. CASE Crash
  <2>1. UNCHANGED <<log, applied, status, wakes>> /\ pc' = "none"
    BY <1>7 DEF Crash, row, ghosts
  <2> QED BY <1>a, <1>b, <2>1, WakesKept DEF OnItsWay
<1>8. CASE Boot
  <2>1. /\ UNCHANGED <<log, applied, pc, dispatches, upto, wakes>>
        /\ status' \in {status, "queued", "quarantined"}
    BY <1>8 DEF Boot, BootRequeue, BootQuarantine, fiber, ghosts
  <2> QED BY <1>a, <1>b, <2>1, WakesKept DEF OnItsWay, Parked
<1> QED BY <1>1, <1>2, <1>3, <1>4, <1>5, <1>6, <1>7, <1>8 DEF Next

\* A resume or a human input wakes an admitted run at most once: whatever the turn
\* it woke decides, across stops and crashes, the commit that parks the run again
\* has consumed it.
THEOREM AdmittedWakesOnceHolds == Spec => []AdmittedWakesOnce
<1>1. Init => WakeInv
  BY DEF Init, WakeInv
<1>2. IInv /\ WakeInv /\ [Next]_vars => WakeInv'
  BY NextWakeInv
<1>3. WakeInv => AdmittedWakesOnce
  BY DEF WakeInv, AdmittedWakesOnce, Admitted, WakesOnce
<1> QED BY Invariant, <1>1, <1>2, <1>3, PTL DEF Spec
=============================================================================
