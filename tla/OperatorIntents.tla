-------------------------- MODULE OperatorIntents --------------------------
(***************************************************************************)
(* Operator intents and the applied watermark.  Clients append intents to  *)
(* a run's event log at any moment; the daemon never marks one of them by  *)
(* itself, it only moves run_state.last_applied_seq.  Four readers share   *)
(* that watermark: the fold at the start of a turn, the commit that ends   *)
(* the turn (with the batch folded before the handler ran), the wake       *)
(* sweeps of the executor loop over runs that are not dispatching, and the *)
(* supervisor, which aborts the handler in flight when an intent arrives.  *)
(*                                                                         *)
(* One run, one daemon at a time, linear nodes.  The sequence number of an *)
(* intent is its position in the log.  Every cap raise (budget, retries,   *)
(* goal gate, loops, priority) is a "raise"; its landing place in routing  *)
(* is the set caps.  All facts about the run are appended by this daemon,  *)
(* one fiber at a time: a commit's version check fails only after the      *)
(* supervisor's steering receipt (RunOwnership has the other cases).       *)
(***************************************************************************)
EXTENDS Integers, Sequences, FiniteSets

CONSTANTS Kinds,       \* the intents clients append
          Compatible,  \* whether the n-th daemon's window has the run's contract version
          MaxLoops,    \* dispatch ceiling of one fiber, before any raise
          MaxIntents,  \* bound: intents appended
          MaxStops     \* bound: daemons stopped or lost

AllKinds == {"cancel", "pause", "resume", "steer", "human", "raise", "unquarantine"}

ASSUME IntentsAssumption ==
    /\ Kinds \subseteq AllKinds
    /\ Compatible \in [0 .. MaxStops -> BOOLEAN]
    /\ MaxLoops \in Nat \ {0}
    /\ MaxIntents \in Nat
    /\ MaxStops \in Nat

VARIABLES log,        \* the intents of the run, oldest first
          applied,    \* run_state.last_applied_seq
          status,     \* run_state.status
          started,    \* run_state.current_node is not NULL
          marked,     \* run_state.dispatch_started_at is not NULL
          caps,       \* raises merged into run_state.routing
          pauseMark,  \* routing.internal.pause_after_dispatch
          daemon,     \* the daemon process
          tick,       \* the executor loop: idle, or its next sweep
          pc,         \* the run's fiber
          upto,       \* newest intent of the batch this turn folded
          dispatches, \* RunTurnState.dispatches
          tripped,    \* the handler's controller was aborted by an intent
          receipt,    \* the supervisor recorded a steering delivery in this dispatch
          seen,       \* supervisor's lastIntentSeq for the run, 0 if absent
          called,     \* a handler ran, so a call of its may be an orphan
          stops,      \* daemons stopped or lost
          wakes,      \* history: how often each intent woke the run (not at all, once, more)
          holding,    \* history: newest intent folded by the operator pause in force
          overtaken,  \* history: raises folded together with a pause
          owed,       \* history: deferred pauses whose turn ended otherwise
          retripped,  \* history: trips by intents the dispatch had folded
          quarAt,     \* history: length of the log at the last quarantine
          prejudged   \* history: resumed by a resolution older than its quarantine

row    == <<status, started, marked, caps, pauseMark>>
fiber  == <<pc, upto, dispatches, tripped, receipt>>
ghosts == <<wakes, holding, overtaken, owed, retripped, quarAt, prejudged>>
vars   == <<log, applied, row, daemon, tick, fiber, seen, called, stops, ghosts>>

Seqs   == 1 .. MaxIntents
Parked == {"paused", "paused_human", "paused_auto"}
Sweeps == <<"cancel", "human", "resume", "auto", "unquarantine", "claim">>

TypeOK ==
    /\ log \in Seq(Kinds)
    /\ Len(log) <= MaxIntents
    /\ applied \in 0 .. Len(log)
    /\ status \in {"queued", "running", "quarantined", "done"} \union Parked
    /\ started \in BOOLEAN
    /\ marked \in BOOLEAN
    /\ caps \subseteq 1 .. Len(log)
    /\ pauseMark \in BOOLEAN
    /\ daemon \in {"up", "down"}
    /\ tick \in 0 .. Len(Sweeps)
    /\ pc \in {"none", "turn", "folded", "work", "replan"}
    /\ upto \in applied .. Len(log)
    /\ dispatches \in Nat
    /\ tripped \in BOOLEAN
    /\ receipt \in BOOLEAN
    /\ seen \in 0 .. Len(log)
    /\ called \in BOOLEAN
    /\ stops \in Nat
    /\ wakes \in [Seqs -> 0 .. 2]
    /\ holding \in 0 .. Len(log)
    /\ overtaken \subseteq 1 .. Len(log)
    /\ owed \subseteq 1 .. Len(log)
    /\ retripped \subseteq 1 .. Len(log)
    /\ quarAt \in 0 .. Len(log)
    /\ prejudged \in BOOLEAN

Init ==
    /\ log = <<>>
    /\ applied = 0
    /\ status = "queued"
    /\ started = FALSE
    /\ marked = FALSE
    /\ caps = {}
    /\ pauseMark = FALSE
    /\ daemon = "up"
    /\ tick = 0
    /\ pc = "none"
    /\ upto = 0
    /\ dispatches = 0
    /\ tripped = FALSE
    /\ receipt = FALSE
    /\ seen = 0
    /\ called = FALSE
    /\ stops = 0
    /\ wakes = [i \in Seqs |-> 0]
    /\ holding = 0
    /\ overtaken = {}
    /\ owed = {}
    /\ retripped = {}
    /\ quarAt = 0
    /\ prejudged = FALSE

----------------------------------------------------------------------------
(* Reading the log.                                                        *)

Of(k, S) == {i \in S : log[i] = k}

UnappliedIntents == {i \in 1 .. Len(log) : i > applied}

\* The batch the current turn folded: nothing moves the watermark between
\* the fold and the commit of the same turn.
Batch == {i \in 1 .. Len(log) : applied < i /\ i <= upto}

\* i is the oldest unapplied intent of kind k.
NextPendingIntent(k, i) ==
    /\ i \in Of(k, UnappliedIntents)
    /\ \A j \in Of(k, UnappliedIntents) : i <= j

\* R1: a cancel short-circuits the fold.
FoldsCancel == Of("cancel", Batch) # {}

\* Steering or human input addresses the handler, so it must be dispatched.
HasSpecific == Of("steer", Batch) \union Of("human", Batch) # {}

\* R4: a pause alone takes effect at once.
ShouldPause == Of("pause", Batch) # {} /\ ~HasSpecific

\* R3: with steering or human input it takes effect after the dispatch.
ShouldPauseAfterDispatch == Of("pause", Batch) # {} /\ HasSpecific

\* The decision of this turn, or the marker an earlier turn left in routing.
DeferredPause == ShouldPauseAfterDispatch \/ pauseMark

----------------------------------------------------------------------------
(* Clients.                                                                *)

\* The version is not bumped: an intent never invalidates a commit.
AppendIntent(k) ==
    /\ status # "done"
    /\ Len(log) < MaxIntents
    /\ log' = Append(log, k)
    /\ UNCHANGED <<applied, row, daemon, tick, fiber, seen, called, stops, ghosts>>

----------------------------------------------------------------------------
(* The executor loop.  One iteration is synchronous: neither the fiber nor *)
(* the supervisor runs inside it, clients of other processes do.  While    *)
(* the run is running or done every sweep passes it by.                    *)

Idle == tick = 0

BeginTick ==
    /\ daemon = "up"
    /\ Idle
    /\ status \notin {"running", "done"}
    /\ tick' = 1
    /\ UNCHANGED <<log, applied, row, daemon, fiber, seen, called, stops, ghosts>>

\* The sweep finds this run and an intent to act on.
Due(sweep) ==
    \/ /\ sweep = "cancel"
       /\ status \in Parked \union {"quarantined", "queued"}
       /\ Of("cancel", UnappliedIntents) # {}
    \/ sweep = "human" /\ status = "paused_human" /\ Of("human", UnappliedIntents) # {}
    \/ sweep = "resume" /\ status \in Parked /\ Of("resume", UnappliedIntents) # {}
    \/ /\ sweep = "unquarantine"
       /\ status = "quarantined"
       /\ Of("unquarantine", UnappliedIntents) # {}

At(sweep) == daemon = "up" /\ ~Idle /\ Sweeps[tick] = sweep

NextSweep == tick' = IF tick = Len(Sweeps) THEN 0 ELSE tick + 1

\* Nothing to do, a backoff timer still running, or the slot went elsewhere.
Pass ==
    /\ daemon = "up"
    /\ ~Idle
    /\ ~Due(Sweeps[tick])
    /\ NextSweep
    /\ UNCHANGED <<log, applied, row, daemon, fiber, seen, called, stops, ghosts>>

WakeCancel(i) ==
    /\ At("cancel")
    /\ Due("cancel")
    /\ NextPendingIntent("cancel", i)
    /\ status' = "done"
    /\ applied' = i
    /\ upto' = i
    /\ NextSweep
    /\ UNCHANGED <<log, started, marked, caps, pauseMark, daemon, pc,
                   dispatches, tripped, receipt, seen, called, stops, ghosts>>

\* fact.run_resumed: the intent stays unapplied for the woken turn's fold.
RunResumed ==
    /\ status' = "queued"
    /\ holding' = 0
    /\ NextSweep
    /\ UNCHANGED <<log, started, marked, caps, pauseMark, daemon, pc,
                   dispatches, tripped, receipt, seen, called, stops, overtaken, owed,
                   retripped, quarAt>>

Woken(i) == wakes' = [wakes EXCEPT ![i] = IF @ < 2 THEN @ + 1 ELSE @]

WakeHuman(i) ==
    /\ At("human")
    /\ Due("human")
    /\ NextPendingIntent("human", i)
    /\ RunResumed
    /\ Woken(i)
    /\ UNCHANGED <<applied, upto, prejudged>>

\* Fault: the wake itself consumes the resume.
FaultWakeResume(i) ==
    /\ At("resume")
    /\ Due("resume")
    /\ NextPendingIntent("resume", i)
    /\ RunResumed
    /\ Woken(i)
    /\ applied' = i
    /\ upto' = i
    /\ UNCHANGED prejudged

WakeResume(i) ==
    /\ At("resume")
    /\ Due("resume")
    /\ NextPendingIntent("resume", i)
    /\ RunResumed
    /\ Woken(i)
    /\ UNCHANGED <<applied, upto, prejudged>>

\* routing.internal.auto_resume_at has passed.
WakeAutoResume ==
    /\ At("auto")
    /\ status = "paused_auto"
    /\ RunResumed
    /\ UNCHANGED <<applied, upto, wakes, prejudged>>

\* Every intent up to the resolution is folded: a cancel among them wins, and
\* raises land; steering, human input and pauses are audited as dropped.
WakeUnquarantine(i, resolution) ==
    LET pending == {j \in UnappliedIntents : j <= i}
    IN  /\ At("unquarantine")
        /\ Due("unquarantine")
        /\ NextPendingIntent("unquarantine", i)
        /\ status' = IF resolution = "cancel" \/ Of("cancel", pending) # {}
                     THEN "done" ELSE "queued"
        /\ caps' = IF Of("cancel", pending) = {} THEN caps \union Of("raise", pending)
                                                 ELSE caps
        /\ applied' = i
        /\ upto' = i
        /\ prejudged' = (prejudged \/ (status' = "queued" /\ i <= quarAt))
        /\ NextSweep
        /\ UNCHANGED <<log, started, marked, pauseMark, daemon, pc, dispatches,
                       tripped, receipt, seen, called, stops,
                       wakes, holding, overtaken, owed, retripped, quarAt>>

\* A claimed run gets a fiber with a fresh turn state.
ClaimNextRun ==
    /\ At("claim")
    /\ status = "queued"
    /\ status' = "running"
    /\ pc' = "turn"
    /\ dispatches' = 0
    /\ NextSweep
    /\ UNCHANGED <<log, applied, started, marked, caps, pauseMark, daemon,
                   upto, tripped, receipt, seen, called, stops, ghosts>>

----------------------------------------------------------------------------
(* One turn of the fiber: entry gate, fold, then the first gate that       *)
(* applies, in the order of dispatchTurn.                                  *)

FiberAt(p) == daemon = "up" /\ Idle /\ pc = p

EndFiber(s) ==
    /\ status' = s
    /\ marked' = FALSE
    /\ pc' = "none"
    /\ tripped' = FALSE
    /\ receipt' = FALSE

NextTurn ==
    /\ marked' = FALSE
    /\ pc' = "turn"
    /\ tripped' = FALSE
    /\ receipt' = FALSE
    /\ UNCHANGED status

\* Fault: moves the watermark to the newest intent instead of the newest folded.
FaultAdvanceToNewest(n) == applied' = Len(log) /\ upto' = Len(log)

\* The turn's commit moves the watermark to the newest intent it folded.
AdvanceAppliedTo(n) == applied' = n /\ upto' = n

NoAdvance == applied' = applied /\ upto' = applied

\* The contract-version gate parks the run before anything is folded.
EntryGate ==
    /\ FiberAt("turn")
    /\ ~Compatible[stops]
    /\ EndFiber("paused")
    /\ NoAdvance
    /\ UNCHANGED <<log, started, caps, pauseMark, daemon, tick, dispatches,
                   seen, called, stops, ghosts>>

FoldIntents ==
    /\ FiberAt("turn")
    /\ Compatible[stops]
    /\ upto' = Len(log)
    /\ pc' = "folded"
    /\ UNCHANGED <<log, applied, row, daemon, tick, dispatches, tripped, receipt, seen,
                   called, stops, ghosts>>

CommitCancel ==
    /\ FiberAt("folded")
    /\ FoldsCancel
    /\ EndFiber("done")
    /\ NoAdvance
    /\ UNCHANGED <<log, started, caps, pauseMark, daemon, tick, dispatches,
                   seen, called, stops, ghosts>>

\* Fault: the pause is committed without the watermark.
FaultCommitPause ==
    /\ FiberAt("folded")
    /\ ~FoldsCancel
    /\ ShouldPause
    /\ EndFiber("paused")
    /\ NoAdvance
    /\ holding' = upto
    /\ UNCHANGED <<log, started, caps, pauseMark, daemon, tick, dispatches,
                   seen, called, stops, wakes, overtaken, owed, retripped,
                   quarAt, prejudged>>

\* Only the watermark is committed with the pause, not the fold's raises.
CommitPause ==
    /\ FiberAt("folded")
    /\ ~FoldsCancel
    /\ ShouldPause
    /\ EndFiber("paused")
    /\ AdvanceAppliedTo(upto)
    /\ holding' = upto
    /\ overtaken' = overtaken \union Of("raise", Batch)
    /\ UNCHANGED <<log, started, caps, pauseMark, daemon, tick, dispatches,
                   seen, called, stops, wakes, owed, retripped, quarAt,
                   prejudged>>

Proceeds == FiberAt("folded") /\ ~FoldsCancel /\ ~ShouldPause

\* fact.run_started; steering and a deferred pause are stashed in routing.
StartRun ==
    /\ Proceeds
    /\ ~started
    /\ started' = TRUE
    /\ marked' = TRUE
    /\ caps' = caps \union Of("raise", Batch)
    /\ pauseMark' = (pauseMark \/ ShouldPauseAfterDispatch)
    /\ AdvanceAppliedTo(upto)
    /\ pc' = "turn"
    /\ UNCHANGED <<log, status, daemon, tick, dispatches, tripped, receipt, seen,
                   called, stops, ghosts>>

\* fact.dispatch_started takes a turn of its own and consumes nothing.
CommitDispatchMarker ==
    /\ Proceeds
    /\ started
    /\ ~marked
    /\ marked' = TRUE
    /\ NoAdvance
    /\ pc' = "turn"
    /\ UNCHANGED <<log, status, started, caps, pauseMark, daemon, tick,
                   dispatches, tripped, receipt, seen, called, stops, ghosts>>

EffectiveMaxLoops == MaxLoops + Cardinality(caps \union Of("raise", Batch))

ApplyLoopGate ==
    /\ Proceeds
    /\ started
    /\ marked
    /\ dispatches >= EffectiveMaxLoops
    /\ EndFiber("paused")
    /\ NoAdvance
    /\ UNCHANGED <<log, started, caps, pauseMark, daemon, tick, dispatches,
                   seen, called, stops, ghosts>>

DispatchHandler ==
    /\ Proceeds
    /\ started
    /\ marked
    /\ dispatches < EffectiveMaxLoops
    /\ dispatches' = dispatches + 1
    /\ called' = TRUE
    /\ pc' = "work"
    /\ UNCHANGED <<log, applied, row, daemon, tick, upto, tripped, receipt, seen, stops, ghosts>>

----------------------------------------------------------------------------
(* The supervisor.                                                         *)

\* Fault: pauses are among the non-tripping intents.
FaultTripsOnCancelOnly ==
    /\ FiberAt("work")
    /\ UnappliedIntents # {}
    /\ Len(log) > seen
    /\ tripped' = (tripped \/ \E i \in UnappliedIntents : i > seen /\ log[i] = "cancel")
    /\ seen' = Len(log)
    /\ UNCHANGED <<log, applied, row, daemon, tick, pc, upto, dispatches, receipt,
                   called, stops, ghosts>>

\* Only a handler in flight is registered: the intents newer than the last
\* tick's newest are looked at, and a cancel or pause among them aborts it.
\* Otherwise steering among them is handed to the handler, with a receipt
\* (fact.steering_applied) that moves the row's version.
SupervisorTick ==
    /\ FiberAt("work")
    /\ UnappliedIntents # {}
    /\ Len(log) > seen
    /\ LET trips == {i \in UnappliedIntents : i > seen /\ log[i] \in {"cancel", "pause"}}
       IN  /\ tripped' = (tripped \/ trips # {})
           /\ receipt' = (receipt \/ (trips = {} /\ \E i \in Of("steer", UnappliedIntents) : i > seen))
           /\ retripped' = retripped \union {i \in trips : i <= upto}
    /\ seen' = Len(log)
    /\ UNCHANGED <<log, applied, row, daemon, tick, pc, upto, dispatches,
                   called, stops, wakes, holding, overtaken, owed, quarAt,
                   prejudged>>

\* A tick that finds no handler registered forgets what it had seen.
SupervisorReap ==
    /\ daemon = "up"
    /\ Idle
    /\ pc # "work"
    /\ seen # 0
    /\ seen' = 0
    /\ UNCHANGED <<log, applied, row, daemon, tick, fiber, called, stops, ghosts>>

----------------------------------------------------------------------------
(* The end of a dispatch.                                                  *)

\* The result of a handler, committed as it is or on a second plan.
AtResult == FiberAt("work") \/ FiberAt("replan")

\* refoldForReplan: what arrived since the fold may be consumed as well only if
\* it has no effect but its raises, or defers to the steering folded before.
RefoldReplaces ==
    /\ Of("cancel", UnappliedIntents) = {}
    /\ Of("pause", UnappliedIntents) = {} \/ HasSpecific
    /\ Of("steer", UnappliedIntents) = Of("steer", Batch)
    /\ Of("human", UnappliedIntents) = Of("human", Batch) \/ Of("human", Batch) # {}

\* A receipt took the version the result was planned on: it is planned again on
\* the row as it is now.  A repeated human input may equal the one folded.
ReplanTransition ==
    /\ FiberAt("work")
    /\ receipt
    /\ pc' = "replan"
    /\ upto' = IF RefoldReplaces THEN Len(log) ELSE upto
    /\ UNCHANGED <<log, applied, row, daemon, tick, dispatches, tripped, receipt,
                   seen, called, stops, ghosts>>

\* Fault: the turn's commit leaves the watermark behind.
FaultCommitFold ==
    /\ caps' = caps \union Of("raise", Batch)
    /\ NoAdvance

\* The raises of the turn's batch ride every commit that ends a dispatch.
CommitFold ==
    /\ caps' = caps \union Of("raise", Batch)
    /\ AdvanceAppliedTo(upto)

\* A pause folded with steering that this commit consumes although the run
\* goes on by itself.
Forgoes(s) ==
    owed' = IF ShouldPauseAfterDispatch /\ s \in {"running", "paused_auto"}
            THEN owed \union Of("pause", Batch) ELSE owed

\* R3 swaps a success continuation for the operator's pause.
CommitDeferredPause ==
    /\ AtResult
    /\ DeferredPause
    /\ EndFiber("paused")
    /\ CommitFold
    /\ pauseMark' = FALSE
    /\ holding' = upto
    /\ UNCHANGED <<log, started, daemon, tick, dispatches, seen, called, stops,
                   wakes, overtaken, owed, retripped, quarAt, prejudged>>

\* The handler's result advances the run.
CommitContinue ==
    /\ AtResult
    /\ ~DeferredPause
    /\ NextTurn
    /\ CommitFold
    /\ UNCHANGED <<log, started, pauseMark, daemon, tick, dispatches, seen,
                   called, stops, ghosts>>

\* It completes the run, or is to be retried after a backoff.
CommitSuccess(s) ==
    /\ AtResult
    /\ ~DeferredPause
    /\ EndFiber(s)
    /\ CommitFold
    /\ UNCHANGED <<log, started, pauseMark, daemon, tick, dispatches, seen,
                   called, stops, ghosts>>

\* It parks or halts the run: no continuation to swap, deferred pause or not.
CommitPark(s) ==
    /\ AtResult
    /\ EndFiber(s)
    /\ CommitFold
    /\ Forgoes(s)
    /\ UNCHANGED <<log, started, pauseMark, daemon, tick, dispatches, seen,
                   called, stops, wakes, holding, overtaken, retripped, quarAt,
                   prejudged>>

\* The handler gave in to the supervisor's abort; the next turn folds afresh.
CommitAbort ==
    /\ FiberAt("work")
    /\ tripped
    /\ NextTurn
    /\ CommitFold
    /\ Forgoes("running")
    /\ UNCHANGED <<log, started, pauseMark, daemon, tick, dispatches, seen,
                   called, stops, wakes, holding, overtaken, retripped, quarAt,
                   prejudged>>

\* The abort ceiling, the deadline, a throw, a leak or the budget ended it:
\* planExit carries the same batch, with nothing to swap either.
CommitExit(s) == FiberAt("work") /\ CommitPark(s)

----------------------------------------------------------------------------
(* Shutdown, crash and boot.                                               *)

\* The shutdown signal reached the handler: its node_aborted is committed
\* with the batch, and the run stays running for the next boot's sweep.
Shutdown ==
    /\ stops < MaxStops
    /\ FiberAt("work")
    /\ CommitFold
    /\ Forgoes("running")
    /\ daemon' = "down"
    /\ marked' = FALSE
    /\ pc' = "none"
    /\ tripped' = FALSE
    /\ receipt' = FALSE
    /\ seen' = 0
    /\ stops' = stops + 1
    /\ UNCHANGED <<log, status, started, pauseMark, tick, dispatches, called,
                   wakes, holding, overtaken, retripped, quarAt, prejudged>>

\* The process is lost at any point; what is not committed is gone.
Crash ==
    /\ stops < MaxStops
    /\ daemon = "up"
    /\ daemon' = "down"
    /\ tick' = 0
    /\ pc' = "none"
    /\ upto' = applied
    /\ tripped' = FALSE
    /\ receipt' = FALSE
    /\ seen' = 0
    /\ stops' = stops + 1
    /\ UNCHANGED <<log, applied, row, dispatches, called, ghosts>>

\* The startup sweep requeues a run left running.
BootRequeue ==
    /\ daemon = "down"
    /\ daemon' = "up"
    /\ status' = IF status = "running" THEN "queued" ELSE status
    /\ marked' = (marked /\ status # "running")
    /\ UNCHANGED <<log, applied, started, caps, pauseMark, tick, fiber, seen,
                   called, stops, ghosts>>

\* It quarantines one that left an orphan side effect (module SideEffects).
BootQuarantine ==
    /\ daemon = "down"
    /\ status = "running"
    /\ called
    /\ daemon' = "up"
    /\ status' = "quarantined"
    /\ started' = FALSE
    /\ marked' = FALSE
    /\ quarAt' = Len(log)
    /\ UNCHANGED <<log, applied, caps, pauseMark, tick, fiber, seen, called,
                   stops, wakes, holding, overtaken, owed, retripped,
                   prejudged>>

----------------------------------------------------------------------------

ExecutorTick ==
    \/ BeginTick
    \/ Pass
    \/ \E i \in 1 .. Len(log) : \/ WakeCancel(i)
                               \/ WakeHuman(i)
                               \/ WakeResume(i)
                               \/ \E r \in {"cancel", "retry"} : WakeUnquarantine(i, r)
    \/ WakeAutoResume
    \/ ClaimNextRun

TurnStep ==
    \/ EntryGate
    \/ FoldIntents
    \/ CommitCancel
    \/ CommitPause
    \/ StartRun
    \/ CommitDispatchMarker
    \/ ApplyLoopGate
    \/ DispatchHandler

Supervise == SupervisorTick \/ SupervisorReap

HandlerEnds ==
    \/ CommitDeferredPause
    \/ CommitContinue
    \/ \E s \in {"done", "paused_auto"} : CommitSuccess(s)
    \/ \E s \in {"paused", "paused_human", "paused_auto", "done"} : CommitPark(s)
    \/ CommitAbort
    \/ \E s \in {"paused", "paused_auto", "done"} : CommitExit(s)

Boot == BootRequeue \/ BootQuarantine

Next ==
    \/ \E k \in Kinds : AppendIntent(k)
    \/ ExecutorTick
    \/ TurnStep
    \/ Supervise
    \/ ReplanTransition
    \/ HandlerEnds
    \/ Shutdown
    \/ Crash
    \/ Boot

\* Event-loop turns of the executor, the fiber and the supervisor keep
\* coming, a daemon is restarted, and a handler honours its abort signal.
\* One that was not aborted may run for ever.
Fairness ==
    /\ WF_vars(ExecutorTick)
    /\ WF_vars(TurnStep)
    /\ WF_vars(SupervisorTick)
    /\ WF_vars((tripped \/ pc = "replan") /\ HandlerEnds)
    /\ WF_vars(Boot)

Spec == Init /\ [][Next]_vars /\ Fairness

----------------------------------------------------------------------------
(* Properties.                                                             *)

\* The watermark never passes a cancel without the run being over: a cancel
\* that arrives after the fold is not consumed by that turn's commit, nor by
\* a wake, whatever else is folded with it.
NoCancelBuried ==
    \A i \in 1 .. applied : log[i] = "cancel" => status = "done"

\* A cap raise the watermark has passed is in routing, unless a pause was
\* folded in the same batch: no wake and no commit moves past it unread.
RaisesLand ==
    status # "done" =>
        \A i \in 1 .. applied : log[i] = "raise" => i \in caps \union overtaken

\* One resume or human input wakes the run once: the turn it woke consumes
\* it, whatever that turn decides, so a run that parks again stays parked.
WakesOnce == \A i \in Seqs : wakes[i] <= 1

\* WakesOnce for a run that every daemon so far admits: EntryGate, which parks a run
\* without consuming the wake, is the only way to wake it twice, across stops and
\* whatever else is folded with the wake.
AdmittedWakesOnce == (\A n \in 0 .. stops : Compatible[n]) => WakesOnce

\* An operator pause is left only by a resume issued after it: a resume that
\* was already queued, or folded with the pause, does not undo it.
OperatorPauseHolds ==
    [][holding # 0 /\ status = "paused" /\ status' = "queued" =>
           \E i \in holding + 1 .. Len(log) : log[i] = "resume"]_vars

\* A cancel ends the run from every status, also while a handler that would
\* never return is in flight and across crashes.
CancelEnds == (\E i \in 1 .. Len(log) : log[i] = "cancel") ~> status = "done"

\* A pause that arrives while the run is running is not waited out: the run
\* leaves running even if its handler would never return.
PauseStops ==
    status = "running" /\ Of("pause", UnappliedIntents) # {} ~> status # "running"

\* What the operator tells a run to do is done: a cancel ends it and a pause
\* stops it, whatever its handler does (startSupervisor, dispatchTurn, wakeCancel).
ControlTaken == CancelEnds /\ PauseStops

----------------------------------------------------------------------------
(* What the docs and comments say and the code does not keep in every      *)
(* case: the first when a pause is folded beside a raise.  The           *)
(* README gives the configurations and the counterexamples of the others.  *)

\* docs/intent-fold.md: the fold's raises ride the pause commit as well.
RaisesAlwaysLand ==
    status # "done" => \A i \in 1 .. applied : log[i] = "raise" => i \in caps

\* docs/intent-fold.md R3: a pause folded with steering or human input is
\* effected, on a later boundary.
DeferredPausesLand == owed = {}

\* supervisor.ts: a handler is tripped by new intents only, not by one that
\* its own dispatch has folded already.
TripsOnNewIntents == retripped = {}

\* A quarantine waits for the operator: the resolution that resumes the run
\* was issued after the run was quarantined.
ResolutionFollowsQuarantine == ~prejudged
============================================================================
