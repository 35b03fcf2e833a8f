--------------------------------- MODULE Ci ---------------------------------
(***************************************************************************)
(* fragua ci: one run driven to a stop by an executor inside the command   *)
(* (packages/cli/src/commands/ci.ts, ci-drive.ts, env-creds.ts).           *)
(*                                                                         *)
(* Two fibers share the process: the driver wakes, claims and dispatches   *)
(* until the run rests, the tailer reads the log in pages and keeps the    *)
(* reason of the last stop. Then the exit code is chosen, the bundle is    *)
(* made and only afterwards the credentials leave the store. A store that  *)
(* was there before (--db) is the operator's and may hold other runs.      *)
(***************************************************************************)
EXTENDS Naturals, Sequences, FiniteSets, FiniteSetsExt

CONSTANTS Batch,      \* events of one page
          MaxLog,     \* bound: events of the run
          None

VARIABLES db,        \* "temp", "fresh" or "existing"
          export,    \* --export was given, and a binary artifact will hold a credential
          dest,      \* what is at the export's path
          creds,     \* credentials in the store
          given,     \* history: the credentials the run was given
          others,    \* another run of the store
          status,    \* run_state.status of the run
          log,       \* its events; a stop carries its reason
          driver,    \* the drive loop
          signal,    \* SIGINT or SIGTERM
          tail,      \* the tailer: cursor, the reasons it has seen, whether it is done
          overran,   \* history: more than two pages were left when the driver ended
          phase,     \* the command
          code       \* its exit code

vars == <<db, export, dest, creds, given, others, status, log, driver, signal, tail, overran, phase, code>>
setup == <<db, export, given>>
result == <<phase, code>>

Usage == <<"usage", None>>
Cancelled == <<"interrupted", None>>
ScrubLeak == <<"scrubLeak", None>>
Stale == [needles |-> {}, live |-> FALSE, old |-> TRUE]

Kinds == {"halt", "pause", "quarantine"}

\* Where a turn may leave the run, and the reasons of a stop.
Rests == {"completed", "cancelled", "halted", "paused", "paused_human", "quarantined", "paused_auto"}
KindOf(s) ==
    IF s = "halted" THEN "halt" ELSE IF s \in {"paused", "paused_auto"} THEN "pause"
    ELSE IF s = "quarantined" THEN "quarantine" ELSE None
Reasons == {"r1", "r2"}
Entries == {None} \union [kind : Kinds, reason : Reasons]

CiAssumption == Batch \in Nat \ {0} /\ MaxLog \in Nat \ {0}

Init ==
    /\ db \in {"temp", "fresh", "existing"}
    /\ export \in [wanted : BOOLEAN, live : BOOLEAN]
    /\ dest \in {None, Stale}
    /\ creds = IF db = "existing" THEN {"own"} ELSE {}
    /\ given = {}
    /\ others \in (IF db = "existing" THEN {None, "queued"} ELSE {None})
    /\ status = None /\ log = <<>> /\ driver = "off" /\ signal = FALSE
    /\ tail = [cursor |-> 0, seen |-> [k \in Kinds |-> None], done |-> FALSE]
    /\ overran = FALSE /\ phase = "seed" /\ code = Usage

----------------------------------------------------------------------------
\* Credentials and the enqueue

\* A name of --allow-env is a provider's, or the workflow is not there: refused
\* before any store is opened.
RefuseAllowEnv ==
    /\ phase = "seed"
    /\ phase' = "ended"
    /\ UNCHANGED <<setup, dest, creds, others, status, log, driver, signal, tail, overran, code>>

\* The global store's providers, resolved there, and the keys of the environment on
\* top; a store that was there already is used as it is.
FromGlobal == {{}, {"global"}}
FromEnv == {{}, {"env"}}
Seed ==
    /\ phase = "seed"
    /\ IF db = "existing" THEN UNCHANGED creds ELSE \E g \in FromGlobal, e \in FromEnv : creds' = g \union e
    /\ given' = creds'
    /\ phase' = "enqueue"
    /\ UNCHANGED <<db, export, dest, others, status, log, driver, signal, tail, overran, code>>

\* The workflow does not parse, the inputs do not fit, a timeout is not valid.
RefuseUsage ==
    /\ phase = "enqueue"
    /\ phase' = "export"
    /\ UNCHANGED <<setup, dest, creds, others, status, log, driver, signal, tail, overran, code>>

Enqueue ==
    /\ phase = "enqueue"
    /\ status' = "queued" /\ log' = <<None>>
    /\ driver' = "loop" /\ phase' = "drive"
    /\ UNCHANGED <<setup, dest, creds, others, signal, tail, overran, code>>

----------------------------------------------------------------------------
\* driveCiRun

DriverDone ==
    /\ driver' = "done"
    /\ overran' = (Len(log) - tail.cursor > 2 * Batch)

Interrupted ==
    /\ driver = "loop" /\ signal
    /\ DriverDone
    /\ UNCHANGED <<setup, dest, creds, others, status, log, signal, tail, result>>

\* wakePending: an auto pause whose time has come is queued again.
Wake ==
    /\ driver = "loop" /\ ~signal
    /\ status = "paused_auto"
    /\ status' = "queued"
    /\ UNCHANGED <<setup, dest, creds, others, log, driver, signal, tail, overran, result>>

\* claimNextRun(1) takes the oldest queued run of the store, whichever it is, and
\* none while another one runs.
ClaimAndDispatch ==
    /\ driver = "loop" /\ ~signal
    /\ others = None
    /\ status = "queued"
    /\ status' = "running" /\ driver' = "turn"
    /\ UNCHANGED <<setup, dest, creds, others, log, signal, tail, overran, result>>

\* It was not this run: false, and this run, still queued, is not an auto pause.
ClaimsOther ==
    /\ driver = "loop" /\ ~signal
    /\ others = "queued" /\ status = "queued"
    /\ others' = "claimed"
    /\ DriverDone
    /\ UNCHANGED <<setup, dest, creds, status, log, signal, tail, result>>

\* The clock tick is the driver's: every other rest has no responder here.
DriverStops ==
    /\ driver = "loop" /\ ~signal
    /\ status \notin {"queued", "paused_auto"}
    /\ DriverDone
    /\ UNCHANGED <<setup, dest, creds, others, status, log, signal, tail, result>>

\* runOne, which a signal cuts short.
Work ==
    /\ driver = "turn" /\ Len(log) < MaxLog - 1
    /\ log' = Append(log, None)
    /\ UNCHANGED <<setup, dest, creds, others, status, driver, signal, tail, overran, result>>

Rest(s, r) ==
    /\ driver = "turn" /\ Len(log) < MaxLog
    /\ s = "paused_auto" => Len(log) < MaxLog - 2
    /\ log' = Append(log, IF KindOf(s) = None THEN None ELSE [kind |-> KindOf(s), reason |-> r])
    /\ status' = s /\ driver' = "loop"
    /\ UNCHANGED <<setup, dest, creds, others, signal, tail, overran, result>>

\* It throws: the driver with it, and the command ends as a usage error.
Throws ==
    /\ driver = "turn"
    /\ driver' = "threw"
    /\ overran' = (Len(log) - tail.cursor > 2 * Batch)
    /\ UNCHANGED <<setup, dest, creds, others, status, log, signal, tail, result>>

CutShort ==
    /\ driver = "turn" /\ signal
    /\ status' = "queued" /\ driver' = "loop"
    /\ UNCHANGED <<setup, dest, creds, others, log, signal, tail, overran, result>>

Signal ==
    /\ phase = "drive" /\ ~signal
    /\ signal' = TRUE
    /\ UNCHANGED <<setup, dest, creds, others, status, log, driver, tail, overran, result>>

----------------------------------------------------------------------------
\* The tailer

\* emit: the last reason of each kind among the events read.
Seen(seen, events) ==
    [k \in Kinds |->
        LET at == {n \in DOMAIN events : events[n] # None /\ events[n].kind = k}
        IN IF at = {} THEN seen[k] ELSE events[Max(at)].reason]

ReadTo(c, last) ==
    tail' = [cursor |-> c, seen |-> Seen(tail.seen, SubSeq(log, tail.cursor + 1, c)), done |-> last]

\* Full pages are read without a pause in between, so a poll catches up.
Poll ==
    /\ phase = "drive" /\ ~tail.done
    /\ driver \notin {"done", "threw"}
    /\ ReadTo(Len(log), FALSE)
    /\ UNCHANGED <<setup, dest, creds, others, status, log, driver, signal, overran, result>>

\* One page and no second one for what came after the driver returned.
FaultDrain ==
    /\ phase = "drive" /\ ~tail.done
    /\ driver \in {"done", "threw"}
    /\ ReadTo(Min({Len(log), tail.cursor + Batch}), TRUE)
    /\ UNCHANGED <<setup, dest, creds, others, status, log, driver, signal, overran, result>>

\* The driver has returned: this page, one more, and no further.
Drain ==
    /\ phase = "drive" /\ ~tail.done
    /\ driver \in {"done", "threw"}
    /\ ReadTo(Min({Len(log), tail.cursor + 2 * Batch}), TRUE)
    /\ UNCHANGED <<setup, dest, creds, others, status, log, driver, signal, overran, result>>

----------------------------------------------------------------------------
\* The end of the command

\* cliExitCode: one code for each reason of a stop, zero only for completed.
ExitCode(s, reason) == <<s, IF KindOf(s) = None THEN None ELSE reason>>

\* The tables are pruned before the bundle is made.
FaultDecide ==
    /\ phase = "drive" /\ tail.done
    /\ code' = IF driver = "threw" THEN Usage ELSE IF signal THEN Cancelled
               ELSE ExitCode(status, IF KindOf(status) = None THEN None ELSE tail.seen[KindOf(status)])
    /\ creds' = IF db = "existing" THEN creds ELSE {}
    /\ phase' = "export"
    /\ UNCHANGED <<setup, dest, others, status, log, driver, signal, tail, overran>>

Decide ==
    /\ phase = "drive" /\ tail.done
    /\ code' = IF driver = "threw" THEN Usage ELSE IF signal THEN Cancelled
               ELSE ExitCode(status, IF KindOf(status) = None THEN None ELSE tail.seen[KindOf(status)])
    /\ phase' = "export"
    /\ UNCHANGED <<setup, dest, creds, others, status, log, driver, signal, tail, overran>>

\* The bundle is scrubbed of what the store and the environment hold at this moment.
Bundle == [needles |-> creds, live |-> export.live /\ creds # {}, old |-> FALSE]

\* writeCiBundle, and a failed export, which leaves the path alone.
ExportBundle ==
    /\ phase = "export"
    /\ IF ~export.wanted \/ status = None
          THEN UNCHANGED <<dest, code>>
          ELSE \/ /\ dest' = IF Bundle.live THEN None ELSE Bundle
                  /\ code' = IF Bundle.live THEN ScrubLeak ELSE code
               \/ UNCHANGED <<dest, code>>
    /\ phase' = "prune"
    /\ UNCHANGED <<setup, creds, others, status, log, driver, signal, tail, overran>>

\* retainPortableTables on a store ci made and leaves behind, which may fail with no
\* more than a warning; a temporary store goes as a whole.
Prune ==
    /\ phase = "prune"
    /\ \/ creds' = (IF db = "existing" THEN creds ELSE {}) /\ phase' = "ended"
       \/ db = "fresh" /\ phase' = "unpruned" /\ UNCHANGED creds
    /\ UNCHANGED <<setup, dest, others, status, log, driver, signal, tail, overran, code>>

----------------------------------------------------------------------------
Drive == Interrupted \/ Wake \/ ClaimAndDispatch \/ ClaimsOther \/ DriverStops
Turn == (\E s \in Rests, r \in Reasons : Rest(s, r)) \/ Throws \/ CutShort
Command == RefuseAllowEnv \/ Seed \/ Enqueue \/ RefuseUsage \/ Drain \/ Decide \/ ExportBundle \/ Prune

Next == Drive \/ Turn \/ Command \/ Work \/ Signal \/ Poll

Spec == Init /\ [][Next]_vars

----------------------------------------------------------------------------
Credentials == {"own", "global", "env"}
Exports == [needles : SUBSET Credentials, live : BOOLEAN, old : BOOLEAN]

TypeOK ==
    /\ db \in {"temp", "fresh", "existing"} /\ export \in [wanted : BOOLEAN, live : BOOLEAN]
    /\ dest \in {None} \union Exports /\ creds \subseteq Credentials /\ given \subseteq Credentials
    /\ others \in {None, "queued", "claimed"} /\ status \in {None, "queued", "running"} \union Rests
    /\ log \in Seq(Entries) /\ Len(log) <= MaxLog
    /\ driver \in {"off", "loop", "turn", "done", "threw"} /\ signal \in BOOLEAN /\ overran \in BOOLEAN
    /\ tail \in [cursor : 0 .. Len(log), seen : [Kinds -> Reasons \union {None}], done : BOOLEAN]
    /\ phase \in {"seed", "enqueue", "drive", "export", "prune", "ended", "unpruned"}
    /\ code \in {Usage, Cancelled, ScrubLeak} \union ((Rests \union {"queued"}) \X (Reasons \union {None}))

\* The last stop of the run's kind in its log.
Told == Seen([k \in Kinds |-> None], log)

\* The exit code tells how the run ended: the code of its status and of the reason
\* its last stop gave, whatever stops it went through before and however the two
\* fibers interleave. A run cut short by a signal is a cancellation; two pages
\* behind, the tailer does not get to the last stop.
CodeTellsOutcome ==
    phase \in {"prune", "ended", "unpruned"} /\ status # None /\ ~signal /\ driver = "done" /\ code # ScrubLeak =>
        \/ code = ExitCode(status, IF KindOf(status) = None THEN None ELSE Told[KindOf(status)])
        \/ overran

\* The code tells it however far behind the tailer is: "Drain events committed
\* after the executor returned" reads one page, so this is not what it does.
CodeAlwaysTells ==
    phase \in {"prune", "ended", "unpruned"} /\ status # None /\ ~signal /\ driver = "done" /\ code # ScrubLeak =>
        code = ExitCode(status, IF KindOf(status) = None THEN None ELSE Told[KindOf(status)])

\* A bundle this command leaves behind was scrubbed of every credential the run was
\* given, none is left where one held a live credential, the credentials do not
\* outlive the command in a store it made and pruned, and the operator's own are untouched.
EgressIsClean ==
    /\ dest \notin {None, Stale} => dest.needles = given /\ (export.live => given = {})
    /\ code = ScrubLeak => dest = None
    /\ phase = "ended" => (db # "existing" => creds = {}) /\ (db = "existing" => creds = {"own"})

\* The command answers for the run: its code tells the outcome, and what it leaves
\* behind is clean.
CiSound == CodeTellsOutcome /\ EgressIsClean

\* The driver leaves a run of its own at rest, and another run of the store alone.
\* The claim takes whichever run is next, so in a store of the operator it is not so.
DriverMindsItsRun ==
    driver = "done" /\ ~signal => status \in Rests \ {"paused_auto"} /\ others # "claimed"
=============================================================================
