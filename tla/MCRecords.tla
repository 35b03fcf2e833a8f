------------------------------ MODULE MCRecords -------------------------------
(* What is kept of a run and where it goes, on small instances: the work in *)
(* its checkout or worktree, the views of its log, the steers on their way  *)
(* to its agents, the transcript of its threads, its bundles, a run of ci   *)
(* and the schema of the store. The constants of the configuration are      *)
(* those of Checkout.                                                       *)
EXTENDS Checkout, Integers, Sequences

VARIABLES
    part,   \* the component this behaviour runs
    vwLog, vwRow, vwBatches, vwFaults, vwReader, vwPage, vwCmd,
    stPc, stStage, stFrontier, stIssued, stApplied, stPending, stUpTo, stGiven, stAgent,
    stQueue, stBuffer, stSeen, stHeard, stMissed, stWaived, stFaults,
    trPlan, trNode, trPhase, trRows, trMsgs, trHydrated, trLastUser, trReminded,
    trCaptured, trFailure, trTurns, trFirstId, trNextId, trCuts, trScarred, trOutcome,
    bdRun, bdLog, bdArtifacts, bdCreds, bdRotations, bdReading, bdBundles, bdRow,
    bdStored, bdBlobRows, bdImp,
    ciDb, ciExport, ciDest, ciCreds, ciGiven, ciOthers, ciStatus, ciLog, ciDriver,
    ciSignal, ciTail, ciOverran, ciPhase, ciCode,
    scInstalled, scVersion, scObjects, scData, scLive, scProc, scRaced, scDropped

vwVars == <<
    vwLog, vwRow, vwBatches, vwFaults, vwReader, vwPage, vwCmd>>
stVars == <<
    stPc, stStage, stFrontier, stIssued, stApplied, stPending, stUpTo, stGiven, stAgent,
    stQueue, stBuffer, stSeen, stHeard, stMissed, stWaived, stFaults>>
trVars == <<
    trPlan, trNode, trPhase, trRows, trMsgs, trHydrated, trLastUser, trReminded,
    trCaptured, trFailure, trTurns, trFirstId, trNextId, trCuts, trScarred, trOutcome>>
bdVars == <<
    bdRun, bdLog, bdArtifacts, bdCreds, bdRotations, bdReading, bdBundles, bdRow,
    bdStored, bdBlobRows, bdImp>>
ciVars == <<
    ciDb, ciExport, ciDest, ciCreds, ciGiven, ciOthers, ciStatus, ciLog, ciDriver,
    ciSignal, ciTail, ciOverran, ciPhase, ciCode>>
scVars == <<
    scInstalled, scVersion, scObjects, scData, scLive, scProc, scRaced, scDropped>>
allVars == <<part, vars, vwVars, stVars, trVars, bdVars, ciVars, scVars>>

\* Which runs are asked for: in the checkout, on a fresh worktree, on a dirty base.
CheckoutPlans == {<<"checkout", "checkout">>, <<"fresh", "checkout">>, <<"dirty", "checkout">>}

V == INSTANCE Views WITH
         Loop <- "a", Par <- "p", Branches <- {"b"}, MaxBatches <- 5, MaxFaults <- 1,
         MaxFetches <- 2, None <- None, log <- vwLog, row <- vwRow,
         batches <- vwBatches, faults <- vwFaults, reader <- vwReader, page <- vwPage,
         cmd <- vwCmd

T == INSTANCE Steering WITH
         Stages <- <<{"t"}, {"a", "b"}, {"c"}>>, LlmNodes <- {"a", "b", "c"},
         BufferCap <- 1, MaxSteers <- 2, MaxFaults <- 1, pc <- stPc, stage <- stStage,
         frontier <- stFrontier, issued <- stIssued, applied <- stApplied,
         pending <- stPending, upTo <- stUpTo, given <- stGiven, agent <- stAgent,
         queue <- stQueue, buffer <- stBuffer, seen <- stSeen, heard <- stHeard,
         missed <- stMissed, waived <- stWaived, faults <- stFaults

ASSUME SteeringAssumption == T!SteeringAssumption

\* Two steps of one shared thread, routed or with an output, and a step that is its own thread.
ThreadPlans ==
    {[exits |-> <<"route", "route">>, shared |-> TRUE],
     [exits |-> <<"emit_output", "emit_output">>, shared |-> TRUE],
     [exits |-> <<"emit_output">>, shared |-> FALSE]}

M == INSTANCE Transcript WITH
         Plans <- ThreadPlans, MaxCalls <- 3, MaxTurns <- 2, MaxCuts <- 2, None <- None,
         plan <- trPlan, node <- trNode, phase <- trPhase, rows <- trRows,
         msgs <- trMsgs, hydrated <- trHydrated, lastUser <- trLastUser,
         reminded <- trReminded, captured <- trCaptured, failure <- trFailure,
         turns <- trTurns, firstId <- trFirstId, nextId <- trNextId, cuts <- trCuts,
         scarred <- trScarred, outcome <- trOutcome

\* A run whose intent holds a credential, and one whose output and artifacts do.
BundledRuns ==
    {[events |-> <<<<"intent", "s">>, <<"intent", "plain">>>>, artifacts |-> <<>>],
     [events |-> <<<<"delta", "s">>, <<"output", "s">>>>, artifacts |-> <<<<"text", "s">>, <<"binary", "s">>>>]}

B == INSTANCE Bundles WITH
         Secrets <- {"s"}, Importers <- {1, 2}, Runs <- BundledRuns, MaxExports <- 3,
         MaxRotations <- 1, RaceAttempts <- 3, None <- None, run <- bdRun, log <- bdLog,
         artifacts <- bdArtifacts, creds <- bdCreds, rotations <- bdRotations,
         reading <- bdReading, bundles <- bdBundles, row <- bdRow, stored <- bdStored,
         blobRows <- bdBlobRows, imp <- bdImp

ASSUME BundlesAssumption == B!BundlesAssumption

I == INSTANCE Ci WITH
         Batch <- 1, MaxLog <- 4, None <- None, db <- ciDb, export <- ciExport,
         dest <- ciDest, creds <- ciCreds, given <- ciGiven, others <- ciOthers,
         status <- ciStatus, log <- ciLog, driver <- ciDriver, signal <- ciSignal,
         tail <- ciTail, overran <- ciOverran, phase <- ciPhase, code <- ciCode

ASSUME CiAssumption == I!CiAssumption

Z == INSTANCE Schema WITH
         Procs <- {"p1", "p2"}, Binaries <- {8, 11}, Starts <- {None, 1, 6},
         Targets <- {1, 4, 6, 11}, Tracked <- {"schedules.title", "run_state.checkout"},
         None <- None, installed <- scInstalled, version <- scVersion,
         objects <- scObjects, data <- scData, live <- scLive, proc <- scProc,
         raced <- scRaced, dropped <- scDropped

\* A component with several initial states stays in one of them while another runs.
coIdle == Init /\ run[1].kind = "checkout"
vwIdle == V!Init /\ vwReader = "page"
trIdle == M!Init /\ trPlan = [exits |-> <<"emit_output">>, shared |-> FALSE]
bdIdle == B!Init /\ bdRun.artifacts = <<>> /\ bdRow = None
ciIdle == I!Init /\ ciDb = "temp" /\ ciExport = [wanted |-> FALSE, live |-> FALSE] /\ ciDest = None
scIdle == Z!Init /\ scVersion = None

RecordsInit ==
    \/ part = "checkout" /\ vwIdle /\ T!Init /\ trIdle /\ bdIdle /\ ciIdle /\ scIdle /\ Init
    \/ part = "views" /\ coIdle /\ T!Init /\ trIdle /\ bdIdle /\ ciIdle /\ scIdle /\ V!Init
    \/ part = "steering" /\ coIdle /\ vwIdle /\ trIdle /\ bdIdle /\ ciIdle /\ scIdle /\ T!Init
    \/ part = "transcript" /\ coIdle /\ vwIdle /\ T!Init /\ bdIdle /\ ciIdle /\ scIdle /\ M!Init
    \/ part = "bundles" /\ coIdle /\ vwIdle /\ T!Init /\ trIdle /\ ciIdle /\ scIdle /\ B!Init
    \/ part = "ci" /\ coIdle /\ vwIdle /\ T!Init /\ trIdle /\ bdIdle /\ scIdle /\ I!Init
    \/ part = "schema" /\ coIdle /\ vwIdle /\ T!Init /\ trIdle /\ bdIdle /\ ciIdle /\ Z!Init

RecordsNext ==
    \/ part = "checkout" /\ Next /\ UNCHANGED <<part, vwVars, stVars, trVars, bdVars, ciVars, scVars>>
    \/ part = "views" /\ V!Next /\ UNCHANGED <<part, vars, stVars, trVars, bdVars, ciVars, scVars>>
    \/ part = "steering" /\ T!Next /\ UNCHANGED <<part, vars, vwVars, trVars, bdVars, ciVars, scVars>>
    \/ part = "transcript" /\ M!Next /\ UNCHANGED <<part, vars, vwVars, stVars, bdVars, ciVars, scVars>>
    \/ part = "bundles" /\ B!Next /\ UNCHANGED <<part, vars, vwVars, stVars, trVars, ciVars, scVars>>
    \/ part = "ci" /\ I!Next /\ UNCHANGED <<part, vars, vwVars, stVars, trVars, bdVars, scVars>>
    \/ part = "schema" /\ Z!Next /\ UNCHANGED <<part, vars, vwVars, stVars, trVars, bdVars, ciVars>>

RecordsSpec == RecordsInit /\ [][RecordsNext]_allVars

-------------------------------------------------------------------------------
\* The row the SQL writes keep is the row a replay of the log folds, a page
\* that folds live frames over a snapshot, whose row and events were read one
\* after the other, and that may be fetched again, shows what a fresh
\* snapshot would show unless the run moved between the two reads, and the
\* steps of a run account for its cost across loops, resumes, regions and
\* crashes.
OneRunSeen == part = "views" => V!OneRunSeen

\* A steer forwarded to one branch of a region reaches every branch that is
\* in flight.
BroadcastReachesAll == part = "steering" => T!BroadcastReachesAll

\* The status a failed provider call is classified by is the status of that
\* call.
StatusIsCurrent == part = "transcript" => M!StatusIsCurrent

\* The version a store names is the shape it has, unless an open worked from
\* a version that was no longer there, and no walk drops rows nothing else
\* records unless the operator allowed it.
SchemaSound == part = "schema" => Z!SchemaSound

\* What a run says on the way to and from its agents arrives: the steers it applied,
\* the exit a step settles on, the history a provider is handed.
SessionSound ==
    /\ part = "steering" => T!SteerAccounted
    /\ part = "transcript" => M!ThreadSound

\* What leaves the store is complete and clean: a bundle and its import, what ci
\* leaves behind and the exit code it gives.
TravelSound ==
    /\ part = "bundles" => B!BundleSound
    /\ part = "ci" => I!CiSound

===============================================================================
