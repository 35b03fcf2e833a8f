------------------------------- MODULE MCEngine -------------------------------
(* The engine on small instances: a fan-out of two branches, daemons that   *)
(* come and go around one run, operator control around a stop of the        *)
(* daemon, and the tool step and its processes. The constants of the        *)
(* configuration are those of FanOut.                                       *)
EXTENDS FanOut

VARIABLES
    part,   \* the component this behaviour runs
    ownRows, ownOrphans, ownLock, ownStale, ownDaemon, ownWakes, ownSweep, ownSnap,
    ownFibers,
    opLog, opApplied, opStatus, opStarted, opMarked, opCaps, opPauseMark, opDaemon,
    opTick, opPc, opUpto, opDispatches, opTripped, opReceipt, opSeen, opCalled, opStops,
    opWakes, opHolding, opOvertaken, opOwed, opRetripped, opQuarAt, opPrejudged,
    tsNode, tsUp, tsN, tsPc, tsAborted, tsCall, tsGroup, tsArmed, tsLost, tsPath,
    tsInode, tsResult, tsTold

ownVars == <<
    ownRows, ownOrphans, ownLock, ownStale, ownDaemon, ownWakes, ownSweep, ownSnap,
    ownFibers>>
opVars == <<
    opLog, opApplied, opStatus, opStarted, opMarked, opCaps, opPauseMark, opDaemon,
    opTick, opPc, opUpto, opDispatches, opTripped, opReceipt, opSeen, opCalled, opStops,
    opWakes, opHolding, opOvertaken, opOwed, opRetripped, opQuarAt, opPrejudged>>
tsVars == <<
    tsNode, tsUp, tsN, tsPc, tsAborted, tsCall, tsGroup, tsArmed, tsLost, tsPath,
    tsInode, tsResult, tsTold>>
allVars == <<part, vars, ownVars, opVars, tsVars>>

\* A branch of two nodes and one of one node.
TwoBranches == {<<"a1", "a2">>, <<"b1">>}

O == INSTANCE RunOwnership WITH
         Pids <- {"p1", "p2"}, Runs <- {"r"}, Reaper <- "reaper", NoPid <- None,
         MaxInFlight <- 1, MaxVersion <- [r \in {"r"} |-> 3], MaxBeats <- 2,
         FlakyHeals <- {}, rows <- ownRows, orphans <- ownOrphans, lock <- ownLock,
         stale <- ownStale, daemon <- ownDaemon, wakes <- ownWakes, sweep <- ownSweep,
         snap <- ownSnap, fibers <- ownFibers

I == INSTANCE OperatorIntents WITH
         Kinds <- {"cancel", "pause", "resume", "raise", "unquarantine"},
         Compatible <- [n \in 0 .. 1 |-> n = 0], MaxLoops <- 2, MaxIntents <- 2,
         MaxStops <- 1, log <- opLog, applied <- opApplied, status <- opStatus,
         started <- opStarted, marked <- opMarked, caps <- opCaps,
         pauseMark <- opPauseMark, daemon <- opDaemon, tick <- opTick, pc <- opPc,
         upto <- opUpto, dispatches <- opDispatches, tripped <- opTripped,
         receipt <- opReceipt, seen <- opSeen, called <- opCalled, stops <- opStops,
         wakes <- opWakes, holding <- opHolding, overtaken <- opOvertaken,
         owed <- opOwed, retripped <- opRetripped, quarAt <- opQuarAt,
         prejudged <- opPrejudged

T == INSTANCE ToolStep WITH
         MaxDispatches <- 2,
         Commands <- {"runs", "blocked", "unspawnable", "empty", "unresolved"},
         None <- None, node <- tsNode, up <- tsUp, n <- tsN, pc <- tsPc,
         aborted <- tsAborted, call <- tsCall, group <- tsGroup, armed <- tsArmed,
         lost <- tsLost, path <- tsPath, inode <- tsInode, result <- tsResult,
         told <- tsTold

ASSUME ToolStepAssumption == T!ToolStepAssumption

\* A component with several initial states stays in one of them while another runs.
tsIdle == T!Init /\ tsNode = [command |-> "empty", produces |-> FALSE]

EngineInit ==
    \/ part = "fanout" /\ O!Init /\ I!Init /\ tsIdle /\ Init
    \/ part = "ownership" /\ Init /\ I!Init /\ tsIdle /\ O!Init
    \/ part = "control" /\ Init /\ O!Init /\ tsIdle /\ I!Init
    \/ part = "tool" /\ Init /\ O!Init /\ I!Init /\ T!Init

EngineNext ==
    \/ part = "fanout" /\ Next /\ UNCHANGED <<part, ownVars, opVars, tsVars>>
    \/ part = "ownership" /\ O!Next /\ UNCHANGED <<part, vars, opVars, tsVars>>
    \/ part = "control" /\ I!Next /\ UNCHANGED <<part, vars, ownVars, tsVars>>
    \/ part = "tool" /\ T!Next /\ UNCHANGED <<part, vars, ownVars, opVars>>

\* Each component's own fairness, while it is the one that runs.
EngineFairness ==
    /\ WF_vars(part = "fanout" /\ Progress)
    /\ WF_vars(part = "fanout" /\ Handlers)
    /\ WF_vars(part = "fanout" /\ status = "auto" /\ Wake)
    /\ \A p \in {"p1", "p2"} : WF_ownVars(part = "ownership" /\ O!DaemonStep(p))
    /\ \A p \in {"p1", "p2"} : WF_ownVars(part = "ownership" /\ O!SweepStep(p))
    /\ WF_ownVars(part = "ownership" /\ O!LockExpires)
    /\ WF_opVars(part = "control" /\ I!ExecutorTick)
    /\ WF_opVars(part = "control" /\ I!TurnStep)
    /\ WF_opVars(part = "control" /\ I!SupervisorTick)
    /\ WF_opVars(part = "control" /\ (opTripped \/ opPc = "replan") /\ I!HandlerEnds)
    /\ WF_opVars(part = "control" /\ I!Boot)

EngineSpec == EngineInit /\ [][EngineNext]_allVars /\ EngineFairness

-------------------------------------------------------------------------------
\* The region joins, halts, or rests at a pause only an operator can lift.
RegionComesToRest == part = "fanout" => RegionSettles

\* A run left running by a dead process is eventually picked up again or
\* ends, as long as some daemon stays up.
StrandedIsRecovered == part = "ownership" => O!StrandedIsRecovered

\* A cancel ends the run and a pause makes it leave running, whatever handler
\* they find and whether or not the daemon stops in between, also when the
\* next daemon runs an incompatible engine.
ControlTaken == part = "control" => I!ControlTaken

\* No process of a command that was stopped, timed out or ended outlives the
\* reaping of its group, what a step emits was written by its own dispatch,
\* and a stop is neither a success nor a failure of the command.
ToolStepSound == part = "tool" => T!ToolStepSound

\* What the engine has begun comes to rest: the three together.
EngineSettles == RegionComesToRest /\ StrandedIsRecovered /\ ControlTaken

===============================================================================
