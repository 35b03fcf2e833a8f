------------------------------- MODULE Schema -------------------------------
(***************************************************************************)
(* The store's schema: creation, the automatic walk when a harness or a    *)
(* maintenance verb opens the store, the explicit walk of `fragua db       *)
(* migrate --to`, up and down, and the binary that `fragua upgrade`        *)
(* replaces under running processes (packages/store/src/migrations.ts,     *)
(* pragmas.ts, schema.sql, store.ts, packages/cli/src/commands/db.ts,      *)
(* upgrade.ts, store-client.ts).                                           *)
(*                                                                         *)
(* The model keeps every step of SCHEMA_MIGRATIONS, by the columns, tables *)
(* and indexes it adds. What all versions share is left out. A transaction *)
(* is one step; what a process reads before it takes the write lock may be *)
(* old when it gets it.                                                    *)
(***************************************************************************)
EXTENDS Integers, Sequences, FiniteSets, SequencesExt

CONSTANTS Procs,     \* processes that open or migrate the store
          Binaries,  \* CURRENT_SCHEMA_VERSION of the releases in play
          Starts,    \* versions the store may have at the beginning, None for no store
          Targets,   \* versions an operator migrates to
          Tracked,   \* columns and tables whose rows the model follows
          None

VARIABLES installed, \* the installed binary
          version,   \* schema_version, None before the store exists
          objects,   \* columns, tables and indexes that came with a step
          data,      \* those that hold rows
          live,      \* processes that hold the daemon lock with a fresh heartbeat
          proc,      \* processes: where, which binary, the version read, what was asked
          raced,     \* history: an open worked from a version that was no longer there
          dropped    \* history: data a walk dropped without the operator's consent

vars == <<installed, version, objects, data, live, proc, raced, dropped>>

AtRest == [pc |-> "idle", bin |-> None, seen |-> None, target |-> None, consent |-> FALSE]
MIN_COMPATIBLE == 1

----------------------------------------------------------------------------
\* SCHEMA_MIGRATIONS. Step 2 renames a column, the others add.

Adds == <<{"schedules.input"}, {"schedules.title"}, {"outputs", "idx_outputs_run"}, {"messages.pass"}, {"mcp_oauth"},
          {"run_state.base_head_sha"}, {"run_state.checkout", "idx_run_state_checkout"}, {"run_state.claim_epoch"},
          {"daemon_lock.harness_pid", "server_endpoint.hostname"}, {"events.outputs_blob_sha", "idx_events_outputs_blob"},
          {"idx_events_side_effect_key"}>>
Versions == DOMAIN Adds

\* Indexes over a column that a step adds: created after it, by migrations.ts alone.
Late == {"idx_run_state_checkout", "idx_events_outputs_blob"}
Column == [idx_run_state_checkout |-> "run_state.checkout", idx_events_outputs_blob |-> "events.outputs_blob_sha"]
Columns == {"schedules.input", "schedules.title", "messages.pass", "run_state.base_head_sha", "run_state.checkout",
            "run_state.claim_epoch", "daemon_lock.harness_pid", "server_endpoint.hostname", "events.outputs_blob_sha"}
\* Dropping these loses what nothing else records.
SourceOfTruth == {"schedules.title", "messages.pass", "mcp_oauth", "run_state.base_head_sha", "run_state.checkout"}

\* The canonical shape of a version: what schema.sql of that release describes.
Shape(v) == IF v = 1 THEN Adds[1] ELSE UNION {Adds[u] : u \in 2 .. v}
\* What a re-run of schema.sql adds to a store that has the tables: new tables and
\* indexes, never a column of an existing table.
Additive(b) == Shape(b) \ (Columns \union Late)

\* A statement over a column that is not there throws, and the walk rolls back.
Up(s, v) ==
    IF s = None THEN None
    ELSE IF v = 2 THEN IF "schedules.input" \in s THEN (s \ Adds[1]) \union Adds[2] ELSE None
    ELSE s \union Adds[v]
Down(s, v) ==
    IF s = None \/ ~(Adds[v] \intersect Columns \subseteq s) THEN None
    ELSE IF v = 2 THEN (s \ Adds[2]) \union Adds[1]
    ELSE s \ Adds[v]
UpWalk(s, from, to) == FoldLeft(Up, s, [i \in 1 .. to - from |-> from + i])
DownWalk(s, from, to) == FoldLeft(Down, s, [i \in 1 .. from - to |-> from + 1 - i])

\* Bootstrap of a store at the binary's version: schema.sql and the late indexes.
Bootstrap(s, b) ==
    LET late == Shape(b) \intersect Late
    IN IF \A i \in late : Column[i] \in s THEN s \union Additive(b) \union late ELSE None

\* classOf: the steps whose down loses data.
FaultLossy == {4, 5, 6}
Lossy == {4, 5, 6, 7}

\* Rows live on where their column or table does; a rename carries them.
Carried(o) == IF o \in Adds[1] \union Adds[2] THEN Adds[1] \union Adds[2] ELSE {o}
Surviving(s) == {o \in s : Carried(o) \intersect data # {}}

Init ==
    /\ installed \in Binaries /\ \A b \in Binaries : installed <= b
    /\ version \in Starts
    /\ objects = IF version = None THEN {} ELSE Shape(version)
    /\ data = {} /\ live = {} /\ proc = [p \in Procs |-> AtRest]
    /\ raced = FALSE /\ dropped = {}

----------------------------------------------------------------------------
\* new SqliteStore with migrate: the harness, the daemon, db vacuum and gc-blobs

\* migrate reads the version outside its transaction. A version above the binary's is
\* refused.
OpenReads(p) ==
    /\ proc[p].pc = "idle"
    /\ version # None => version \in MIN_COMPATIBLE .. installed
    /\ proc' = [proc EXCEPT ![p] = [AtRest EXCEPT !.pc = "opening", !.bin = installed, !.seen = version]]
    /\ UNCHANGED <<installed, version, objects, data, live, raced, dropped>>

\* What the transaction makes of the store, None when it throws: a second creation
\* violates the key of schema_version.
FaultWalked(p) ==
    LET b == proc[p].bin  seen == proc[p].seen
    IN CASE seen = None -> IF version = None THEN Shape(b) ELSE None
         [] seen = b -> Bootstrap(objects, b)
         [] OTHER -> UpWalk(objects \union Additive(b), seen, b - 1)
Walked(p) ==
    LET b == proc[p].bin  seen == proc[p].seen
    IN CASE seen = None -> IF version = None THEN Shape(b) ELSE None
         [] seen = b -> Bootstrap(objects, b)
         [] OTHER -> UpWalk(objects \union Additive(b), seen, b)

OpenCommits(p) ==
    /\ proc[p].pc = "opening" /\ Walked(p) # None
    /\ objects' = Walked(p) /\ data' = Surviving(Walked(p))
    /\ version' = IF proc[p].seen = proc[p].bin THEN version ELSE proc[p].bin
    /\ raced' = (raced \/ version # proc[p].seen)
    /\ proc' = [proc EXCEPT ![p].pc = "open"]
    /\ UNCHANGED <<installed, live, dropped>>

OpenThrows(p) ==
    /\ proc[p].pc = "opening" /\ Walked(p) = None
    /\ proc' = [proc EXCEPT ![p] = AtRest]
    /\ UNCHANGED <<installed, version, objects, data, live, raced, dropped>>

\* A daemon takes the lock only after its store is open.
TakeLock(p) ==
    /\ proc[p].pc = "open" /\ live = {} /\ live' = {p}
    /\ UNCHANGED <<installed, version, objects, data, proc, raced, dropped>>

\* The process ends; after a crash the heartbeat stays fresh until it lapses.
Close(p) ==
    /\ proc[p].pc = "open" /\ proc' = [proc EXCEPT ![p] = AtRest]
    /\ live' = live \ {p}
    /\ UNCHANGED <<installed, version, objects, data, raced, dropped>>
Crash(p) ==
    /\ proc[p].pc # "idle" /\ proc' = [proc EXCEPT ![p] = AtRest]
    /\ UNCHANGED <<installed, version, objects, data, live, raced, dropped>>
Lapse ==
    /\ \E p \in live : proc[p].pc = "idle" /\ live' = live \ {p}
    /\ UNCHANGED <<installed, version, objects, data, proc, raced, dropped>>

\* verifySchema: a store client works only on a store of its own version, and writes
\* rows where there is room for them.
ClientWrites ==
    /\ version = installed
    /\ \E o \in objects \intersect Tracked : o \notin data /\ data' = data \union {o}
    /\ UNCHANGED <<installed, version, objects, live, proc, raced, dropped>>

\* fragua upgrade: only forward, the file replaced at once or not at all; a pin, a
\* failed download or a wrong digest leaves it.
Upgrade ==
    /\ \E b \in Binaries : b > installed /\ installed' = b
    /\ UNCHANGED <<version, objects, data, live, proc, raced, dropped>>

----------------------------------------------------------------------------
\* fragua db migrate --to

\* planMigration accepts the walk.
Plans(b, from, to) == to \in MIN_COMPATIBLE .. b /\ from <= b

\* Probe, plan and the first liveness gate; then the dump, which the model leaves out.
MigrateProbe(p) ==
    /\ proc[p].pc = "idle" /\ version # None /\ live = {}
    /\ \E t \in Targets, c \in BOOLEAN :
         /\ Plans(installed, version, t) /\ t # version
         /\ proc' = [proc EXCEPT ![p] = [pc |-> "planned", bin |-> installed, seen |-> version, target |-> t, consent |-> c]]
    /\ UNCHANGED <<installed, version, objects, data, live, raced, dropped>>

\* Under the write lock: the second gate, then migrateTo, which plans anew from the
\* version it finds there.
Refused(p) ==
    \/ live # {} \/ ~Plans(proc[p].bin, version, proc[p].target)
    \/ ~proc[p].consent /\ \E v \in proc[p].target + 1 .. version : v \in Lossy
Result(p) ==
    LET t == proc[p].target IN
    IF t >= version
    THEN UpWalk(IF t = proc[p].bin /\ t > version THEN objects \union Additive(t) ELSE objects, version, t)
    ELSE DownWalk(objects, version, t)

MigrateWalk(p) ==
    /\ proc[p].pc = "planned" /\ ~Refused(p) /\ Result(p) # None
    /\ objects' = Result(p) /\ version' = proc[p].target /\ data' = Surviving(Result(p))
    /\ dropped' = IF proc[p].consent THEN dropped
                  ELSE dropped \union {o \in data \intersect SourceOfTruth : Surviving(Result(p)) \intersect Carried(o) = {}}
    /\ proc' = [proc EXCEPT ![p] = AtRest]
    /\ UNCHANGED <<installed, live, raced>>

\* Refused or thrown: nothing changed (the dump taken before, now only a copy, goes).
MigrateAborts(p) ==
    /\ proc[p].pc = "planned" /\ (Refused(p) \/ Result(p) = None)
    /\ proc' = [proc EXCEPT ![p] = AtRest]
    /\ UNCHANGED <<installed, version, objects, data, live, raced, dropped>>

Next ==
    \/ \E p \in Procs : \/ OpenReads(p) \/ OpenCommits(p) \/ OpenThrows(p) \/ TakeLock(p) \/ Close(p) \/ Crash(p)
                        \/ MigrateProbe(p) \/ MigrateWalk(p) \/ MigrateAborts(p)
    \/ Lapse \/ ClientWrites \/ Upgrade

----------------------------------------------------------------------------
(* Whatever walks led there, up and down, whole or partial, with whichever binary, *)
(* the store has exactly the shape its version names, as long as no open worked    *)
(* from a version another process had meanwhile moved (migrations.ts, migrate).    *)
VersionIsShape == ~raced /\ version # None => objects = Shape(version)

(* No walk drops rows that nothing else records unless the operator allowed data   *)
(* loss (migrations.ts, migrateTo).                                                *)
LossIsConsented == dropped = {}

(* VersionIsShape and LossIsConsented. *)
SchemaSound == VersionIsShape /\ LossIsConsented

(* A store that names a version has every column and table of it, so that a client *)
(* which verified the version can run its queries. db.ts says of its second gate   *)
(* that it closes the gap to a harness that boots meanwhile; the harness that read *)
(* the version before the walk took the lock walks on from what it read.           *)
VersionIsKept == version # None => Shape(version) \subseteq objects
=============================================================================
