# fragua in TLA+

fragua runs workflows of LLM, tool, judge and human steps from an append-only event
log in SQLite. A daemon claims queued runs and drives each with a fiber; it must
survive crashes, restarts, replaced processes and operators who write to the same
store at any moment, from a command line or a web page. This directory holds TLA+
models of the parts where that is decided, TLC configurations that check them on
small instances, and TLAPS proofs of the central properties for every instance.

Paths below are relative to `src/packages/` unless they begin with `docs/`.

## 1. Inventory

| Part | State | Operations | What is hard | What makes it correct |
|---|---|---|---|---|
| Daemon lock, boot, takeover (`store/src/store-coordinator.ts`, `daemon/src/entrypoint.ts`, `supervisor.ts`) | one `daemon_lock` row, heartbeat | acquire, see stale, force, heartbeat, release, evict | check-then-act across processes; a paused holder comes back | one process drives the runs; a replaced one does no harm |
| Startup sweep (`store/src/sweep.ts`) | running rows and orphan intents | quarantine, then requeue, one transaction per run | a stale list; heals fail one by one; a crash in the middle | no interrupted run is lost, no unknown side effect repeated |
| Executor, claims, turns (`daemon/src/executor.ts`, `dispatch-turn.ts`, `transition-planner.ts`, `abort-planner.ts`, `store/src/store-writer.ts`) | `run_state`: status, version, claim_epoch, routing; fibers in memory | claim, turn, commit, second plan, retry, retarget, pause, wake, release, drain | zombie fibers, version races, counters split between log and memory | one owner; caps hold; the run settles |
| Side effects (`core/src/handler/external-call.ts`, `daemon/src/recorder.ts`) | intent, done and failed facts under an idempotency key | record, call, settle, abort, resolve | a crash between a call and its record; keys reused by loops | no blind retry |
| Operator intents (`core/src/handler/intent-fold.ts`, `core/src/intent-plane`, `daemon/src/wake-pending.ts`) | log of intents, `last_applied_seq` | append, fold, wake, trip | four readers of one watermark; arrival between fold and commit | nothing is lost or applied twice; a cancel ends the run |
| Steering (`agent/src/steering-registry.ts`, `daemon/src/supervisor.ts`, `steer-delivery.ts`) | buffer, live agents, `pending_steer` | forward, broadcast, buffer, fold, receipt | two delivery paths for one steer; branches register one by one | a steer is heard or still on its way |
| OCC controller, spend (`daemon/src/occ-append.ts`) | conflict counter, held spend | attempt, back off, halt, commit spend | a batch that loses, halts or crashes carries money | spend is counted once |
| Fan-out (`daemon/src/fanout*.ts`) | frontier in routing, pool | seed, dispatch, settle, bail, join | branches commit in any order; partial progress at a crash | each branch settles once, the join is a barrier |
| Schedules (`daemon/src/schedule-dispatcher.ts`, `store/src/store-schedules.ts`) | `next_fire_at`, `last_run_id` | due scan, skip, fire, pause | enqueue and record are two transactions | overlap is respected, a due row does not stay due |
| Checkout, worktrees, snapshots (`workspace/src`, `daemon/src/worktree-provisioner.ts`, `snapshot-service.ts`, `cli/src/commands/run.ts`) | `checkout_path`, worktrees, snapshot refs | provision, capture, snapshot, accept, discard, release, gc | daemon, clients and operator share directories without a lock | one holder; no work lost before somebody decides |
| Event feeds (`server/src/store/sse.ts`, `web/src/lib/use*Stream.ts`, `useRunLive.ts`) | cursors, open sockets, the page's folds | forward scan, rescan, reconnect, snapshot, prune | ties in a millisecond; replays; a snapshot that catches up | every event once |
| Views of a run (`store/src/reducers.ts`, `server/src/store`, `web/src/lib/useDetailOverlay.ts`, `cli/src/commands/wait.ts`) | the row, node states, steps, overlay | fold, derive, follow, wait | the same log folded four times by different code | all readers see one run |
| Console (`cli/src/commands/operator.ts`, `server/src/store/routes.ts`, `web/src/components/Run*.tsx`) | what a page shows, requests under way | verbs, answers to gates | answers arrive after the run moved | an answer meets its gate |
| Agent session (`agent/src/backend.ts`, `handler-bridge.ts`, `transcript.ts`, `provider-errors.ts`) | messages table, the agent's memory | hydrate, turn, result, remind, settle | a dispatch cut off anywhere and resumed | a dispatch ends on its own exit; history replays |
| Workflow language (`core/src/parser`, `core/src/engine`) | none | parse, validate, select edge, dominance | shapes nobody wrote a test for | what is accepted can be walked |
| Typed values (`core/src/engine/outputs-*.ts`, `inputs.ts`) | declarations, emitted values | parse, validate, read, coerce | nested and optional fields | a promised field is there |
| Judge (`core/src/handler/handlers/judge.ts`, `judge-*.ts`) | chunks, answers | plan, ask, retry, fold, route | indices across chunks and retries | a verdict rests on its own item |
| Tool step (`core/src/handler/handlers/tool.ts`, `workspace/src/local-env.ts`) | process groups, scratch file | spawn, time out, abort, reap, read back | processes that outlive their step | nobody is stranded; an emission is fresh |
| MCP servers, logins (`workspace/src/mcp`, `cli/src/commands/mcp.ts`) | pool, leases, OAuth row | acquire, connect, list, release, log in | every await lets another step in | a step that calls has a connection; a login can be refreshed |
| Providers (`agent/src/credentials`, `store/src/provider-*-queries.ts`) | two tables, the registry's watermark | read, write whole map, refresh, load | read-modify-write across processes | a current registry has every definition |
| Bundles (`store/src/store-bundle-*.ts`, `scrub/`), ci (`cli/src/commands/ci*.ts`) | imported runs; the driven store | export, scrub, classify, fence, write; drive, tail, clean up | concurrent imports; driver against tailer | what travels is complete and clean; the exit code tells |
| Schema (`store/src/migrations.ts`, `pragmas.ts`, `cli/src/commands/db.ts`) | version, shape | bootstrap, walk up and down | several binaries open one store | the version names the shape |
| Blob store (`store/src/blob-fs.ts`, `artifact-queries.ts`, `daemon/src/blob-gc.ts`) | files by sha, rows, roots | put, commit, re-put, collect | files outside transactions; deduplication against deletion | a referenced blob has content; garbage goes away |
| File tools, fetches (`workspace/src/tools.ts`, `path-utils.ts`, `edit-diff.ts`, `truncate-v2.ts`, `grep.ts`, `find.ts`, `ls.ts`, `web-fetch.ts`) | mutation queues by key, temporary files, the page cache | write, edit, read by pages, run, search, list, fetch | an edit awaits between its read and its write; limits within limits | no update is lost; what is cut is named; a cached page is its host's and young |
| Harness, serve, daemon stop (`cli/src/commands/harness.ts`, `serve.ts`, `daemon.ts`) | child, timers, failures; the rows `daemon_lock` and `server_endpoint` | check, bind, publish, spawn, gate, restart, tick, give up, stop | rows are read and deleted in two steps; several events end one attempt | a failure counts once; a live daemon keeps its lock; the daemon comes back |
| Write queue, analytics, titles, rendering | | ordering, queries, I/O | | |

The parts meet in the store. Every process (daemon, harness, server, CLI) opens the
same SQLite file; write transactions are serialised, everything else interleaves.
Intents go into the log without touching a run's version; facts are appended with an
expected version and, by a fiber, under its claim epoch. The supervisor shares memory
with the executor of its own process only. `PROJECT.json` lists all parts with their
status and 40 hazards, each at its line.

## 2. Plan

Done, in this order: ownership, side effects, intents and blobs with their proofs;
the abstract life cycle and its refinement; fan-out and the conflict controller;
the single-step turn with its caps; schedules; the checkout; the two event streams;
the views; steering and transcripts; the operator's console; providers, bundles and
ci; the language, typed values, judge, tool and MCP steps; schema; the agent's file
tools, command output and fetches; the harness with its servers.

Proved since: the refinement of `Lifecycle`, the holder's duty, what a pause and a wake
promise; spend, tokens and the riding fold of a region; gates, tries and routing of a
turn; the checkout, bundles and unattended runs; steers, answers and the live page; the
tool step, edits and fetches; the harness and its locks; schedules, the model registry,
logins and the connections of MCP steps (section 6).

Next, all of it proof:

1. `FeedIsTail` of `GlobalFeed`: the page's list for any writers.
2. `OneRunSeen` of `Views`: the row SQL writes against the row the reducer folds.
3. `ThreadSound` of `Transcript`.
4. `SchemaSound` for any set of binaries, over the fixed list of migrations.

## 3. Modules and code

Each module names the code it follows in its header; `PROJECT.json` maps every
definition to its lines. Variables marked *history* are not in the code: they record
what a property needs to remember.

### RunOwnership, Lifecycle

Processes `Pids` and the harness `Reaper` share `lock`; `rows` is `run_state` cut down
to status, version and claim_epoch; `fibers` holds the run fibers of every process,
those of a replaced process included. `completed`, `cancelled` and `halted` are
`"done"`; the three pauses are `"paused"`.

- Lock: `AcquireDaemonLock`, `SeeStaleLock` then `ForceAcquireDaemonLock` (two calls of
  `startDaemon`), `HeartbeatOwned`, `HeartbeatLost`, `ReleaseDaemonLock`,
  `EvictSnapshot`, `EvictDelete` and the reaper's own sweep. `LockExpires` is the
  passing of the TTL: a clock is not modelled, a holder may always be late.
- Sweep: `SweepScan` reads outside any transaction; `HealQuarantine` and `HealRequeue`
  are one transaction per run with the status read again; `HealFails` is a heal that
  spent its `SQLITE_BUSY` budget.
- Fibers: `ClaimNextRun`, `FiberTurn` (the read), `FiberCommit` (the guarded append),
  `FiberRejected` (lost claim ends the fiber, lost version is planned again),
  `RecordEffect`, `ReleaseClaim`, `FiberStops`. `SteeringApplied` is the supervisor's
  receipt, the one fact that moves a running row without its claim. `WakeRead` and
  `WakeCommit` are the read and the append of `wakePending`.

`Lifecycle` says what all of this is for, without locks, versions or sweeps: a run is
worked on by at most one process, which alone decides how its turn ends; otherwise it
is taken back whole; an ended run stays ended. `RunOwnership!ImplementsLifecycle` is
that specification under the mapping status of the row and fibers with a current epoch.

### SideEffects, OperatorIntents, BlobStore

`SideEffects` is a chain of tool nodes with an optional fail edge each. `intents` and
`settled` are the keys that have facts in the log; a key is node and iteration. A
command that exits is recorded done whatever its exit code; an abort leaves the intent
open; a leak ends the turn while the call goes on. `HealQuarantine` comes before
`HealRequeue` at every boot.

`OperatorIntents`: `log` is the run's intents, `applied` the watermark, `upto` the newest
intent the turn in progress has folded. One tick of the executor is synchronous, so
fiber and supervisor do not run inside it, while clients of other processes do; `tick`
walks through `Sweeps` in the code's order. A turn is `EntryGate`, `FoldIntents`, then
the first of cancel, pause, start, marker, loop gate, dispatch. `ReplanTransition` is the
second fold after a steering receipt took the version.

`BlobStore`: a writer puts the file, commits row and reference in one transaction, and
puts the file again; between any two of these steps other writers and sweepers act.
`GcRows` is pass 1 of `gcOrphanBlobs`, `GcWalk` and `GcFiles` the unlocked and the locked
half of pass 2. `forfeited` (history) records the shas whose content nobody is going to
restore.

### FanOut, Dispatch

`FanOut` is one parallel region: a frontier of tokens on the log, a pool of handlers
under a limit, one commit lane with the conflict ladder of `commitWithOcc`, early bail,
drain and join. A handler invocation has an identity, so that its spend can be followed
through parks, re-commits and abandoned batches.

`Dispatch` is the linear run turn by turn: claim, fold, gates, handler, and every way a
handler can end (success, failure, provider refusal, timeout, abort, leak, budget
breach), with the edges, goal gates, retargets, retries, automatic pauses and wakes the
two planners decide on. `run` is the projection with its routing keys, `fiber` what
lives in memory only and is gone after a crash.

### Schedules, Providers, Bundles, Ci, Schema

`Schedules`: the due scan is one read, kept as the set of rows it returned, of which the
loop takes the one with the earliest `next_fire_at` next; skip, auto-pause, enqueue and
record are transactions of their own, with operators, crashes and exceptions between them.
`Providers`: a credential write reads every row, changes one and writes back every row;
a refresh awaits the token endpoint between the read and the writes; the registry
reloads when the watermark of the definitions moves: a load takes the watermark, then reads
the rows, and the read may throw, which leaves no definition and the watermark
(`BeginLoad`, `LoadFails`, `LoadModels`). `Bundles`: an export filters,
scrubs and re-addresses; an import classifies before it takes the write lock and checks
under it. `Ci`: a driver and a tailer in one process, the exit code, the bundle, the
clean-up. `Schema`: every step of `SCHEMA_MIGRATIONS` by the columns, tables and indexes
it adds; opens and walks of several binaries, with what they read before the lock.

### FileTools, ToolOutput, WebFetch

`FileTools`: a call begins, enters the queue of its key, waits for its turn, reads, matches
and splices (edits), opens, fills and renames a temporary file, and leaves; between any two
of these other calls, commands of the agent, failures and a crash act. `FileOf` and `KeyOf`
are what the worktree and the daemon's directory make of a name. Texts are short sequences
of tokens, enough for line ends, a byte-order mark and a quote that only a fuzzy match
finds. `ToolOutput`: pages of a file; the rolling buffer, spill file and final cut of a
command; searches and listings under their limits; a line is its length. `WebFetch`: the
cache, redirects, stamps and the room made for an entry, over overlapping calls.

### Harness

Harnesses, servers and daemons share the rows `lock` and `endpoint` and nothing else. An
action of a harness is one turn of its event loop, cut where a read and the write that
rests on it are two transactions: `BootReads` and `BootEvicts`, `TickReads` and `TickEvicts`,
`Bind` and `Publish`, `StopReads` and `StopSignals`. `attempt` is the state of one spawn
(`Attempt` and its gate), `watched` says that its exit handler has not run; `snap` is the row
an eviction has read, still the same or moved on. A pid of another host is never found
here (`Foreign`), and a dead one may be found because another process has it (`Recycled`).

### Checkout

Fresh, dirty and checkout runs. Content is a set of marks: `<<r, n>>` is the n-th change
of run r, `<<0, 1>>` an edit of the operator. Clients are `checked`, then `captured`, then
enqueue; fibers provision or adopt, work, snapshot, settle, record, dispose. Accept,
discard, release and gc are read and act.

### GlobalFeed, RunStream, Views, Console

`GlobalFeed`: writers stamp an event and then wait for the write lock, the server drains
with a forward cursor and a rescan of the boundary millisecond, the browser backfills,
subscribes, loses the socket and reconnects. `RunStream`: one run watched live, with the
snapshot, live cost, streaming buffer and message refetches of the page. A snapshot reads the
row and then the log, with commits between, and the row counts the cost of a step when the
step ends (`Projects`), while its frames come earlier. `Views`: the log
of one run and everything read off it: the row (as SQL writes it and as the reducer
folds it), node states, steps, outcome, overlay, `wait` and following. Its snapshot, too, is a row (`FetchRow`) and a
log read later (`FetchLog`), and may be fetched again over what the page holds
(`TakeSnapshot`). `Console`: verbs,
notices, cards and requests on one side, wakes and folds on the other; an intent names
no gate, so what the operator was looking at is kept beside it as history.

### Steering, Transcript

`Steering`: stages of one step or of several branches; a steer is forwarded to live
agents, buffered, or folded and handed to the next dispatch. `Transcript`: the rows of a
thread, the agent hydrated from them on every dispatch, cuts by crash, abort, provider
or empty answer, and what the end of the conversation is taken for. The agent loop and
the provider are external: a model turn is any message they may produce.

### Workflow, Dominance, TypedValues, Judge, ToolStep, Mcp, McpLogin

`Workflow`: authored steps, the graph they compile to, the diagnostics, the walk over an
accepted graph. `Dominance` is `buildRunDominance` step by step. `TypedValues` relates
declaration, profile, check and read. `Judge`: chunks under the provider's limits,
requests, retries, composites, routes with their two floors (confidence and probability). `ToolStep`: process groups, the kill timers and
the scratch file over several dispatches. `Mcp`: the connection pool; every await is a
point where another step may run. `McpLogin`: the OAuth row shared by login, daemon and
ci copies.

### MC modules, proof modules, faults

`MCRunOwnership` and `MCOperatorIntents` give symmetry, depths and sets of intents to their
configurations; `MCSideEffects` puts two instances of `SideEffects` side by side, and the
tools of the agent beside them. The runs of `Harness` need no module of their own. `MCEngine`,
`MCServices`, `MCFeeds`, `MCRecords` and `MCSteps` extend one module and instantiate several
more with the constants shown in them: the initial state chooses the `part` a behaviour
runs, the variables of the others stay at rest, and a property speaks about its own part.
The state space is the sum of the parts', not their product; the parts of one such module
share a run, not a state.

`X_proofs` extends `X` and holds its inductive invariant and theorems. `Delivery_proofs`
extends `Console` and instantiates `Steering` and `RunStream`; `Records_proofs` extends
`Checkout` and instantiates `Bundles` and `Ci`; `Services_proofs` extends `BlobStore` and
instantiates `Schedules`, `Providers`, `McpLogin` and `Mcp`; `SideEffects_proofs` also
instantiates `ToolStep`, `FileTools` and `WebFetch`, and `RunOwnership_proofs` `Harness`.

Definitions named `Fault...` are deliberately wrong versions of the definition that
follows them: with one in place of the original, TLC finds the property violated, which
is how each property is known to depend on the code.

## 4. Runs

| Run | Parts and instance | Distinct states | Shows |
|---|---|---|---|
| `ownership` | `RunOwnership`: 2 processes, reaper, 2 runs (version up to 3 and 1), 1 slot, 2 late heartbeats, the heal of one run may fail | 784,851 | `OneOwner`, `ClaimUndisturbed`, `HolderDrivesAll`, `ImplementsLifecycle` |
| `effects` | `SideEffects` twice, 2 nodes, 4 calls, 2 crashes: an uncounted fail loop with failing heals, a counted one without; `FileTools` (2 calls, 3 names, 2 keys, 1 command, 1 fault), `ToolOutput` (6 files, 4 limits, 4 chunks), `WebFetch` (3 calls, 4 addresses, room for 2) | 798,084 | `QuarantineIsWarranted`, `NoBlindRetry`, `LostCallsReachOperator`, `ToolsSound`, `NoUpdateLost` |
| `harness` | `Harness`: 1 harness, 1 server, 3 daemons of which one is of another host and one pid is used again; it gives up after 1 failure that is not forgiven, and 1 thing comes from outside | 509,573 | `HarnessSound`, `SparesTheLiving`, `Recovers` |
| `two_harnesses` | `Harness`: 2 harnesses, 2 daemons, 1 late heartbeat | 1,945,137 | `HarnessSound`, `SparesTheLiving` |
| `intents` | `OperatorIntents`: 3 intents of 7 kinds, 2 stops, the last into a release that no longer admits the run | 2,309,468 | `NoCancelBuried`, `RaisesLand`, `AdmittedWakesOnce`, `OperatorPauseHolds` |
| `engine` | `FanOut` (branches of 2 and 1 nodes, limit 2, 2 disturbances), `RunOwnership` (1 run, version 3, 2 late heartbeats), `OperatorIntents` (2 control intents, an upgrade that no longer admits the run), `ToolStep` (2 dispatches, 5 kinds of command) | 810,826 | `SpendSettled`, `RegionSafe`, `FoldRides`, `EngineSettles`, `ToolStepSound` |
| `services` | `BlobStore` (2 shas, 2 writers, 3 writes, 1 fault), `Schedules` (2 ids, 3 instants, 1 fault, 1 verb), `Providers` (2 providers, daemon and CLI, 2 writes, 1 fault) | 379,414 | `ContentSafe`, `ServicesSound`, `ServicesProgress` |
| `feeds` | `GlobalFeed` (2 writers, 2 instants, 2 events each, pages of 1), `RunStream` (2 events, pages of 1, 2 snapshots), `Console` (2 intents, 2 gates); 1 lost connection or fault each | 257,193 | `PageInStep`, `AnswerMeetsItsGate`, `FeedsProgress` |
| `records` | `Checkout` (2 runs, 2 clients), `Views` (5 transactions, of which 1 may be a crash and a second snapshot counts for two), `Steering` (a step and a region, 2 steers), `Transcript` (2 steps, 2 cuts), `Bundles` (3 exports, 2 importers), `Ci` (4 events), `Schema` (2 processes, 2 binaries, walks to 4 of the versions) | 1,897,414 | `CheckoutSafe`, `OneRunSeen`, `SessionSound`, `TravelSound`, `SchemaSound` |
| `steps` | `Dispatch` (4 steps, a loop, a gate, 2 operator calls), `Workflow` (authored workflows of 4 steps), `Dominance` (every graph of 4 nodes), `TypedValues`, `Judge`, `Mcp` (2 steps, 2 connections), `McpLogin` (4 nonces, 4 grants) | 1,174,742 | `TurnSafe`, `RoutingHeld`, `TurnsSettle`, `LanguageSound`, `ResultsHold`, `McpSound` |
| `import_reap`, `steer_broadcast` | smallest that shows it | | a statement of the docs or comments that the code does not keep (section 7) |

Some of the properties are conjunctions of what the parts of their run promise:
`EngineSettles` is `RegionComesToRest`, `StrandedIsRecovered` and `ControlTaken`; `ServicesSound`
is `OverlapNeedsAnExcuse` and `RegistryCurrent`; `ServicesProgress` is `Reclaims`, `DueServed` and
`ExpiredIsRefreshed`; `FeedsProgress` is `FeedComplete`, `EventuallyHeard` and `AnswerMovesRun`;
`ToolsSound` is `FileToolsSound`, `OutputSound` and `FetchSound`.

What the properties say, in one line each:

- `OneOwner`, `ClaimUndisturbed`: two fibers never hold the same claim, and nobody
  parks, ends or requeues a run under one. `HolderDrivesAll`, `StrandedIsRecovered`: the
  lock holder drives every running run; what a dead process left is taken back.
- `NoBlindRetry`, `QuarantineIsWarranted`, `LostCallsReachOperator`: a call whose outcome
  was unknown when a daemon stopped is not made again before an operator decides, is
  always put before one, and nothing else is.
- `NoCancelBuried`, `RaisesLand`, `AdmittedWakesOnce`, `OperatorPauseHolds`, `ControlTaken`: the
  watermark buries no cancel and no raise, a wake intent of an
  admitted run wakes it once, only a later resume
  lifts a pause, cancels end and pauses stop whatever the handler does.
- `FileToolsSound`, `NoUpdateLost`: mutations of one key take turns in the order of asking,
  nobody waits for a call that has ended, no file is half written, an edit changes what
  it matched; it replaces the text it read unless a command, or a call that knows the file
  under another key, wrote since. `OutputSound`, `FetchSound`: pages follow without gap, the
  tail is the tail, what is left out is named; the cache is bounded, young and honest.
- `HarnessSound`, `SparesTheLiving`, `Recovers`: the lock credits a daemon to its own harness,
  a running child is minded, every failure of an attempt counts once, discovery names no
  closed server; no live daemon loses its row to an eviction before a TTL without a beat;
  whatever ends a child, it is back with the lock again and again, or the harness ends.
- `SpendSettled`, `RegionSafe`, `FoldRides`, `RegionComesToRest`: the cost of a handler is
  on the totals once, on its way, or among the known losses; no branch is lost or doubled
  and the join is a barrier; what a turn folded is applied with its first commit and not
  again; the region joins, halts or rests.
- `TurnSafe`, `RoutingHeld`, `TurnsSettle`: no completion over a failed gate, no step tried
  more often than it may; a park waits for a time still ahead and keeps a deferred pause;
  automatic retries, retargets and wakes never keep a run going for ever.
- `ContentSafe`, `Reclaims`: a reference finds its content, garbage goes.
- `OverlapNeedsAnExcuse`, `DueServed`: two overlapping fires of a `skip` schedule need an
  unrecorded fire or a lifted quarantine; a due row does not stay due.
- `RegistryCurrent`, `ExpiredIsRefreshed`: the registry's watermark never covers a write
  it has not loaded, unless its read of them threw; an expired token is refreshed or gives way.
- `FeedComplete`, `PageInStep`, `EventuallyHeard`: what is committed ahead of the cursor is
  shown; a page has no hole and shows every cost once, except those its
  snapshot's events cover and the row does not count yet; every event reaches a subscribed
  page although settled runs close the stream.
- `AnswerMeetsItsGate`, `AnswerMovesRun`: an answer to an open gate goes to that gate and
  settles it.
- `CheckoutSafe`, `OneRunSeen`, `SessionSound`, `TravelSound`, `SchemaSound`, `LanguageSound`,
  `ResultsHold`, `ToolStepSound`, `McpSound`: conjunctions of the named
  parts in their modules, each with its own comment.

Why the bounds are enough for the cases at hand:

- Two processes and the reaper give every pairing of holder, successor and evictor; a
  third process repeats a role. `ownership` stops the versions of its first run at 3: a
  claim, one fact, a park, and either its wake or the write of a zombie. A second late
  heartbeat is for a holder that is late, beats, and is late again. The second run, with
  one version, makes the one slot bind, and its heal is the one that may fail.
- Four calls over two nodes reach a second call of a settled key, a crash inside it and
  another one during the sweep that follows.
- One harness, three daemons and one event from outside give its child, one started by
  hand or by another host, and a row left by either; the pid used again is what makes a dead
  holder look alive. Two harnesses with two daemons take the lock from each other, also
  from a daemon that is only late.
- Two calls under three names of one file, two of which share a key, give the calls that
  wait for each other and the calls that do not; three fetches into a cache of two overlap
  twice and fill it.
- Three intents reach every pair that one turn can fold plus one that arrives later.
- Branches of two and one nodes under a limit of two let one branch finish while the
  other commits its first node; two disturbances give a conflict together with a crash,
  a breach or a pause.
- A page of one event makes every batch full and every rescan cross a page; two writers
  in two instants tie, overtake and fall behind the cursor.
- Two clients and two runs give every race of check against enqueue, accept against gc,
  and release against the next run's work.
- Four nodes give every shape the dominator computation distinguishes (a chain, a
  diamond, a loop into a branch, an unreachable part); workflows of four steps contain a
  fork with its join and one step on either side.
- Five transactions, of which a crash takes one and a second fetch two, reach a step that waits
  and goes on, a region cut by a crash, and a snapshot whose log is read after the run moved
  on; a page that holds one snapshot and takes another sees the run begin, park or end, and wake.
- Two dispatches that share a connection, a scratch path, a thread or a login row are
  enough for one to find what the other left.
  `Mcp` is checked with one node and one credential; that several keys of the pool do not
  disturb each other is proved only (`NobodyLeaksHolds`, `AsksMetHolds`).

A `TypeOK` is proved for `RunOwnership`, `Harness`, `SideEffects`, `ToolStep`, `FileTools`,
`WebFetch`, `OperatorIntents`, `BlobStore`, `Schedules`, `Providers`, `McpLogin`, `Mcp`, `FanOut`,
`Dispatch`, `Checkout`, `Steering`, `Console`, `RunStream`, `Bundles` and `Ci`; the other modules
state theirs, and it can be added to a configuration.

## 5. Fairness

- `RunOwnership`: a started process goes on booting, sweeping, polling and exiting
  (each is straight-line code or a timer loop), and a heartbeat nobody renews grows old.
  Nothing is assumed of operators, fibers, crashes or the harness. Some process is
  always left to start (`Spare`), because the harness restarts a daemon that is gone.
- `Harness`: daemons and servers go on, a harness's event loop takes its turns, the TTL window
  of a failure and the age of a heartbeat pass, and `daemon stop` ends. Nobody has to start,
  stop or break anything. `Recovers` is "again and again", not "for ever from some point on":
  a child that is slow to take the lock may be given up at the gate every time but the last.
- `SideEffects`: boot and the two passes of the sweep. The liveness property is about
  what a boot does.
- `OperatorIntents`: executor ticks, turn steps and supervisor ticks keep coming, a daemon
  is restarted, and a handler that was aborted ends, because `invokeHandler` gives up on
  one that outlives its signal by the leak grace. A handler that was not aborted may run
  for ever. `SupervisorReap` is not fair: it races the next dispatch.
- `FanOut`, `Dispatch`: the executor's loop goes on, handlers return or hit their
  deadline, back-off timers elapse and the wake pass lifts automatic pauses. Operators,
  faults and crashes are not fair.
- `BlobStore`: a write that began ends, time passes, the daemon's collector keeps
  sweeping. `Schedules`: the dispatcher ticks and a daemon that is gone is started.
  `Providers`: models are called, an operation under way settles (a hanging exchange by
  its deadline), the back-off window passes.
- `GlobalFeed`, `RunStream`: the server's loop and the browser's reconnect, which
  EventSource does by itself. `Console`: the wake pass and the turns. Nothing is assumed
  of pages or operators.
- `Checkout` states that a settling fiber goes on; no run depends on it. The other
  modules, `FileTools`, `ToolOutput` and `WebFetch` among them, have safety properties only.

## 6. Proofs

The theorems hold for every value of the constants that the module's assumption allows,
bounds included. Apart from naming numbers and saying that `None` is no datum, an
assumption states what other code guarantees:

- `RegionAssumption`: no node in two branches, none twice in a branch (the validator's
  E044, `core/src/engine/validator.ts:1239` and `:1311`).
- `WorkflowAssumption`: edges and retargets lead to nodes or to `exit` (E032, E057).
- `SchedulesAssumption`: at most one dispatcher. The daemon lock sees to that; two at once
  would break `OverlapNeedsAnExcuse`.
- `FileToolsAssumption` and `WebFetchAssumption` type the constants; which names share a key or a
  file, and which addresses a host, is left open. `HarnessAssumption`: a harness is no server
  of `fragua serve`, and it gives up after one failure at the earliest.
- `ConsoleAssumption`: the verbs of the pages are not answers, which have a route of their
  own. `McpLoginAssumption`: the clients a server knows are clients.

`RunOwnership_proofs`: `TypeCorrect`, `OneOwnerHolds`, `ClaimUndisturbedHolds`,
`EndedIsFinalHolds`, `OnlyOwnerMovesRunningHolds`, `CapacityHolds`, `HolderDrivesAllHolds`,
`LifecycleImplemented`. `OneOwner` is not inductive: a zombie's epoch could become current
again. The invariant adds that an epoch is never ahead of its row's (`EpochsBounded`), that
no two fibers of a run share one, past or present (`EpochsDistinct`), and that a wake whose
version still matches is about a parked run (`WakesFresh`); with `ClaimUndisturbed` these are
preserved by every action. The action properties follow from one lemma, `StepRows`, that
lists the seven ways a row can change; capacity from `StepRunning`, which shows that a step
adds at most one running run and only when a slot is free. For `HolderDrivesAll` the sweep
comes in: only a booting process sweeps, and the list of a booting holder covers every
running run whose heal does not fail (`BootSweeps`); nobody else starts a run meanwhile
(`BootHoldsStill`). `HarnessTypeCorrect`, `HarnessSoundHolds` and `SparesTheLivingHolds` for any
harnesses, servers and daemons, any foreign and reused pids: besides `HarnessSound` the invariant
says that whom a harness waits for is its own spawn, that a running child nobody
waits for has been told to end, that the child a harness remembers is its own, and that a row it
has read and nobody has written since may still be deleted. `LifecycleImplemented` maps the initial states and every action to a step
or a stutter of `Lifecycle`.

`SideEffects_proofs`: `EffectsTypeCorrect`, `NoBlindRetryHolds`,
`QuarantineIsWarrantedHolds`. The invariant says that the log is written ahead (what is
open has its intent, what looks like an orphan is open) and that, once a boot has
passed its quarantine step, an orphan of an earlier daemon is in a run nobody claims.
`ToolStepTypeCorrect` and `ToolStepSoundHolds` for any commands and any number of dispatches:
what is not spawned yet is untouched, a kill reaps the group, a group that survives has a
timer ahead of it or an executor that is gone, and what a dispatch finds in its scratch
file was written since it created it. `FileToolsTypeCorrect`, `TurnsAreTaken` (three parts of
`FileToolsSound`) and `NoUpdateLostHolds` for any calls, names, keys and texts: a call that
waits or works is in the queue of its key, once (`InQueue`, `Once`), a file that is renamed
is whole, and what a working edit has read is still there or was written past its queue
(`Lands`). `FetchTypeCorrect`, `FetchSoundHolds`: a fetch under way is of an address the tool
fetches and began in the past (`Underway`).

`OperatorIntents_proofs`: `IntentsTypeCorrect`, `NoCancelBuriedHolds`, `RaisesLandHolds`,
`OperatorPauseHoldsAlways`, `AdmittedWakesOnceHolds`. The strengthening is that a dispatched
handler's batch holds no cancel: what a commit consumes is the batch it folded, or folded
again, and never the log as it has become. A pause holds because it takes effect with the
commit that consumes it (`HoldInv`); a wake comes once because the intent of a woken run is
on its way to a fold from then on (`OnItsWay`), as long as no contract gate is in between.

`FanOut_proofs`: `RegionTypeCorrect`, `SpendSettledHolds`, `RegionSafeHolds`, `FoldRidesHolds`,
for any branches. Four invariants on top of the types: what a phase of the superstep says
of pool, batch and parked batch (`PhaseInv`); one token per branch, with everything before
it done and nothing after it (`TokenInv`); a disposition is never behind one already noted
(`NotedInv`); what is in memory is not on the totals, two handlers never share an invocation,
and a drain does not hold the same spend twice (`FlightInv`, with the two halves of
`SpendSettled`). `FoldRides` rests on `FoldInv`: a pending fold is given up by a drain and
applied before any pause.

`Dispatch_proofs`: `TurnTypeCorrect`, `TurnSafeHolds`, `RoutingHeldAlways`, for any graph, gates
and caps. The stages of the planner (`GoalGate`, `RetryGate`, `Rewrite`) come first, as lemmas
about operators. The invariant ties routing and history together: the routing's gate
outcomes are the last that landed, a retry counter is ahead of the failed attempts until
the run stands still, and only a running run has a fiber.

`Records_proofs`: `CheckoutTypeCorrect`, `CheckoutSafeHolds`, for any number of runs and clients.
The invariant is per run: where its work is at each stage from worktree to snapshot to
record (`Carried`, `Kept`), that no base contains a mark of its own run (`Apart`, `RealRow`),
what a checkout run may find beyond its base (`Effects`); and per client: what it has
checked is still so when it acts (`Call`). A frame lemma leaves an action with the one run
it moves. `BundlesTypeCorrect`, `BundleSoundHolds` for any secrets, importers and runs: events
are numbered along the log, and between an importer's classification and its write the
row has only grown, so that a fence that still matches means a log that is still the one
classified (`Planned`). `CiTypeCorrect`, `CiSoundHolds` for any page size: what the tailer has
seen is exactly the last reasons behind its cursor (`Followed`), so that after a complete
drain the exit code is decided on the whole log (`Decided`); and until the bundle is made
the store holds what it was given (`Holding`). These are the two halves of `TravelSound`.

`Delivery_proofs`: `SteerTypeCorrect`, `SteerAccountedHolds` for any stages and steers: whatever
waits in routing was handed to every handler in flight (`Handed`). `ConsoleTypeCorrect`,
`AnswerMeetsItsGateHolds` for any flow of steps: while an answer to an open gate is not
applied, the run stands at that gate or is cancelled, and a turn under way has folded it or a
later one (`Stands`). `StreamTypeCorrect`, `PageInStepHolds` for any log and batch size: what
the server counts as sent to the open socket the page has or will be handed (`Streamed`),
the live cost is the frames past the snapshot (`Costed`), and a row counts no cost that is
not in the log beside it (`Rowed`).

`Services_proofs`: `BlobsTypeCorrect`, `ContentSafeHolds`, `FirstWriterWinsHolds`, for any number of
writers and sweepers (the run has one sweeper, which `Reclaims` needs to stay small).
`ContentSafe` is inductive with `TypeOK`; the proof does not use the grace window: as long as
second puts succeed, safety does not rest on it. `ProvidersTypeCorrect`,
`RegistryCurrentHolds`: no watermark, the registry's or that of a load under way, is ahead of
the newest write, and what it covers was loaded as it still is unless two writes shared a
millisecond or the read threw. `SchedulesTypeCorrect`, `OverlapNeedsAnExcuseHolds`: the row, and its copy in a due
list, name the one recorded run of a `skip` schedule that has not settled (`LastKnown`,
`DueKnown`). `LoginTypeCorrect`, `LoginSoundHolds`: every state in the row was generated and is
not yet shown, the row's refresh token is the one issued last, and a login that exchanged
its code acted as a client the server knows. `McpTypeCorrect`, `NobodyLeaksHolds`,
`AsksMetHolds`: a connect under way is about a connection without leases that a step waits
for (`Settling`); a step that may still come to run has a configuration that can be served
(`AllServed`).

Only model-checked:

- all liveness (`RegionComesToRest`, `StrandedIsRecovered`, `ControlTaken`,
  `LostCallsReachOperator`, `Reclaims`, `DueServed`, `ExpiredIsRefreshed`, `FeedComplete`,
  `EventuallyHeard`, `AnswerMovesRun`, `TurnsSettle`, `Recovers`), which is out of the prover's reach;
- `LanguageSound` and `ResultsHold`: `Dominance` and `Workflow` compute over data of every size,
  which takes an induction the provers cannot do, and `TypedValues` has recursive operators;
- `EditsAreLocal`, the fourth part of `FileToolsSound`, and `OutputSound`: they compute with folds and
  chosen matches over texts of every length, which is the same induction;
- `OneDescriptor`, the third part of the MCP half of `McpSound`: it speaks of a sort that
  takes its order as an operator;
- the session half of `SessionSound`, `SchemaSound` and `OneRunSeen`, which no proof has been
  tried for yet.

## 7. Statements the code does not keep

Two have a run of their own and a finding in `PROJECT.json`:

| Run | Statement | What happens |
|---|---|---|
| `import_reap` | `store/src/store-writer.ts:677`: "the `blobs` row never references missing content" | a failed import unlinks a file whose row another process has just committed |
| `steer_broadcast` | `docs/intent-fold.md:20`: a steer "reaches all concurrent branches, not just whichever one registered last" | a branch that is dispatched but not registered gets it from neither path, and the join consumes it |

The others are stated in their modules, next to the weaker property that does hold, and
can be reproduced by checking the definition on the instance given. Where an `MC` module
is named, its own constants are enough.

| Definition | Instance | Statement | What happens |
|---|---|---|---|
| `RunOwnership!HolderUndisturbed` | 1 run, version up to 4, `MaxBeats = 1`, no failing heals | `store/src/types.ts:1330`: "`startupSweep` runs FIRST ... THEN the row is deleted" | delete first, sweep after: a daemon that acquires in between has its run requeued (its fiber is fenced, the work is redone) |
| `SideEffects!LostCallNotRepeated` | `MaxRetries = 1`, `MaxCalls = 3`, `MaxCrashes = 1`, no failing heals | `docs/handler-contract.md`: a crash between intent and done quarantines | not when an earlier call of the same key was settled |
| `SideEffects!QuarantineTakesPrecedence` | `MaxRetries = 0`, failing heals, 4 calls, 2 crashes | `store/src/sweep.ts:114`: "Quarantine runs BEFORE requeue so it takes precedence" | a quarantine that gives up on a busy database is followed by a requeue that checks the status only |
| `SideEffects!AbortedCallNotRepeated` | as `LostCallNotRepeated` | `core/src/handler/external-call.ts:38`: "the intent stays on disk without a matching terminator, so the next sweep quarantines" | the same process dispatches the node again before any sweep |
| `SideEffects!AssertedCallNotRepeated` | as `LostCallNotRepeated` | `daemon/src/wake-pending.ts:222`: treat_as_done is "the operator's only safe escape hatch" | the quarantine cleared the current node, so the run starts over and calls it again |
| `OperatorIntents!RaisesAlwaysLand` | `Controls`, `Always`, 1 loop, 2 intents, no stop | `docs/intent-fold.md:28`: the cap raise "rides the same commit" | the pause commit writes the watermark only; the raise is gone |
| `OperatorIntents!DeferredPausesLand` | the same with `AllKinds` | `docs/intent-fold.md:63`: "The pause IS effected (just on a different boundary)" | an aborted or retried dispatch consumes the pause and goes on |
| `OperatorIntents!TripsOnNewIntents` | the same | `daemon/src/supervisor.ts:75`: "only trip on NEW intents" | the last seen intent is forgotten between dispatches; a folded pause trips its own dispatch |
| `OperatorIntents!ResolutionFollowsQuarantine` | the same with one stop | `docs/ARCHITECTURE.md:18`: "quarantines the run for operator review" | an unquarantine issued before the quarantine resolves it |
| `OperatorIntents!WakesOnce` | `Controls`, `Never`, 1 loop, 1 intent, no stop | `docs/intent-fold.md:26`: "A wake intent is consumed by the turn it wakes, whatever that turn decides" | the contract gate parks the run before the fold (`daemon/src/dispatch-turn.ts:155`) without consuming; the resume wakes it again on every tick |
| `BlobStore!ContentPresent` | `Kinds = {"artifact"}`, `MaxFaults = 1` | `store/src/store-writer.ts:677` | a writer lost before its second put, after a sweep took the file it had deduplicated onto |
| `FanOut!SpendOnEveryExit` | `MCEngine` | `docs/SPEC.md:345`, I15: a handler's spend is committed on every exit | what a drained branch returns after an early bail is not in any commit (`daemon/src/fanout.ts:447`) |
| `Dispatch!SpendOnEveryExit` | `MCSteps` | the same | the pause of an exhausted goal gate carries no spend (`daemon/src/result-to-facts.ts:226`) |
| `Dispatch!PauseEffected` | `MCSteps` | `core/src/handler/intent-fold.ts:26`: "The pause IS still applied" | a dispatch that is aborted or retried consumes the pause it deferred |
| `Dispatch!RetargetsWithinCap` | `MCSteps` | `daemon/src/transition-planner.ts:1236`: after a budget pause "on resume the gate re-executes", so the retarget is not counted | `fact.node_completed` has moved the current node, so the retarget is taken and not counted |
| `Dispatch!SanctionedExit` | `MCSteps` | `docs/SPEC.md:208`: a fail edge to `exit` is "a sanctioned failure landing" and the run completes | a pause between landing and the next turn makes the gate check run again without the failure in hand (`daemon/src/transition-planner.ts:412`), and it takes the landed run back |
| `Schedules!SkipOnOverlap` | `MCServices` | `daemon/src/schedule-dispatcher.ts:6`: no fire while the prior run has not ended | a crash between enqueue and record leaves a run the next tick does not know of |
| `Schedules!CauseIsCurrent` | 1 id, 3 verbs, 4 instants | `cli/src/commands/schedule.ts:88`: what paused the row | the error of an earlier pause is shown after repair, resume and a pause by the operator |
| `Workflow!TerminalRejected` | `MCSteps` | `daemon/src/fanout-planner.ts:106`: "the validator rejects the shape" | a region whose join is `exit` is accepted, and its branches resolve to the terminal |
| `Workflow!DominatorsHaveRun` | `MCSteps` | `core/src/engine/validator.ts:1626`: "X has run by the time N does" | a goal gate's retarget is no edge of the graph and goes past X |
| `Checkout!TerminalWorkCaptured` | `MCRecords` | `docs/execution-model.md:223`: the work is captured before the worktree is removed | a run cancelled while it is queued again after a crash has no environment in memory: nothing is captured, the worktree stays until gc |
| `Checkout!BootstrapRan` | `MCRecords` | `docs/execution-model.md:100`: "the command already ran" | a worktree whose bootstrap a crash cut off is adopted as it is |
| `GlobalFeed!BoundaryCovered` | `MCFeeds` | `server/src/store/sse.ts:12`: the rescan covers the boundary | the boundary moves with the forward query; the one before it is not walked again |
| `GlobalFeed!ListsInSync` | `MCFeeds` | the lists refetch whenever a lifecycle event lands | an event stamped before and committed after a delivered one is behind the cursor for good |
| `RunStream!BufferYields` | `MCFeeds` | `web/src/lib/useRunLive.ts:290`: "Drop the buffer as soon as its persisted row lands" | a signal that finds the refetch timer set returns before it reaches the buffer |
| `RunStream!TotalIsTrue` | `MCFeeds` | `web/src/lib/useLiveCostAggregate.ts:11`: snapshot and live cost together are "the run's true total at all times" | costs are flushed in the middle of a step and the row counts them when it ends (`store/src/reducers.ts:92`): a snapshot between covers their frames and does not count them |
| `RunStream!MessagesComplete` | 3 events, batches of 2, 1 break, 2 reads, 2 fetches | `web/src/lib/useRunLive.ts:56`: "All persisted messages for the run" | responses are applied in the order they arrive, not the order they were read |
| `Views!HeardMeansShown` | `MCRecords` | `web/src/routes/RunDetail.tsx:86`: the snapshot is "fetched ONCE at mount and never refetched", the events after it are merged | row and log are two reads (`core/src/read-plane/plane.ts:229`): a running row beside a watermark past the end of the run, and the stream starts after it |
| `Views!ZeroMeansCompleted` | `MCRecords` | `cli-exit.ts`: "The only zero" | `wait` reads the status again after the run settled; one that was woken meanwhile counts as zero |
| `Views!FrontierMeansRegion` | `MCRecords` with 6 transactions | `docs/SPEC.md:174`, `store/src/reducers.ts:313` | a quarantine inside a region clears the current node and keeps the frontier, and the run starts over with it |
| `Views!OneAnswerPerGate` | `MCRecords` | `cli/src/run-follow.ts:161`: the re-check stops a second answer | check and append are two steps |
| `Views!ResumeFolds` | `MCRecords` with 6 transactions | `core/src/read-plane/steps.ts:291`: the halves of a resumed step are one row | not when other steps come between them |
| `Transcript!StatusIsCurrent` | `MCRecords` | `agent/src/provider-errors.ts:48`: the status of a rejection before the stream is recovered from the message | the 200 of an earlier turn is still there and wins, so a rate limit becomes a pause for the operator |
| `Transcript!HistoryPaired` | `MCRecords` | `agent/src/transcript.ts:280` | results made up for unanswered calls are in memory only; a second resume finds the call unanswered in the middle of the history |
| `Console!GateTakesOwnAnswer` | `MCFeeds` | `docs/ARCHITECTURE.md:170`, `docs/intent-fold.md:44` | an intent names no gate: a late answer is taken by the next gate that offers the choice |
| `Providers!ArrivalsStay` | `MCServices` | `agent/src/credentials/sqlite-auth-backend.ts:103` | a full-map write removes a row that arrived since its read |
| `Providers!FailedReadIsRetried` | `MCServices` | `agent/src/credentials/model-registry.ts:460`: "a corrupt row is logged and skipped, sibling rows still load" | a row that does not parse makes the whole read throw (`store/src/store-rows.ts:129`); the load keeps the watermark it took before (`:395`), and nothing loads until the next write of a definition |
| `Providers!NoGhostModels` | 3 writes, no fault | `agent/src/credentials/model-registry.ts:380` | a definition added and removed again while the registry loads leaves the watermark as it was |
| `Bundles!LaterExportLands` | `MCRecords` | `docs/SPEC.md:344`, I14 | credentials that changed between two exports scrub the same events differently, and the import is refused |
| `Ci!CodeAlwaysTells` | `MCRecords` | `cli/src/commands/ci.ts`: "Drain events committed after the executor returned" | the drain reads one page |
| `Ci!DriverMindsItsRun` | `MCRecords` | `cli/src/commands/ci.ts:328` | the claim takes whichever run of the store is next |
| `Mcp!PoolKnowsAll` | `MCSteps` | the connector's account of release and shutdown | a step that drops a dead entry connects without looking again and displaces another's connection |
| `Schema!VersionIsKept` | `MCRecords` | `cli/src/commands/db.ts`: "closing the gap a separate pre-lock check leaves" | a harness that read the version before a walk down took the lock walks on from what it read |
| `ToolStep!SuccessMeansExitZero` | `MCEngine` | `core/src/handler/handlers/tool.ts:4`: "exit 0 -> outcome=success; non-zero -> outcome=fail" | a shell killed from outside has no exit code, and `workspace/src/local-env.ts:464` makes it 0 |
| `ToolStep!StopIsNotHalt` | `MCEngine` | `tool.ts:196`: a stopped turn hands the abort back | one stopped while its output is read back halts the run |
| `ToolStep!EmissionIsOwn` | `MCEngine` | the output is that of the dispatch's command | a process that outlived an earlier dispatch writes the same scratch path |
| `FileTools!OneMutationPerFile` | `MCSideEffects` | `workspace/src/path-utils.ts:87`: "Serialize file mutations targeting the same path" | the key resolves a relative name against the directory of the daemon (`path-utils.ts:79`), the file against the worktree: two names, two keys, two mutations at once |
| `ToolOutput!SpillIsFull` | `MCSideEffects` | `workspace/src/tools.ts:334`: "the full transcript is saved to a temp file" | the chunks before the one that passes the limit are never written, and output cut for its lines only leaves an empty file |
| `ToolOutput!CutIsTold` | `MCSideEffects` | the same: the path "appears in the truncation notice" | the rolling buffer drops chunks, what stays fits the limit, and no notice is given |
| `WebFetch!FirstIsOldest` | `MCSideEffects` | `workspace/src/web-fetch.ts:98`: "the first key is the oldest" | an entry is stamped when its call began and written when its page arrived |
| `Harness!NotBesideALiveHarness` | `two_harnesses` | `cli/src/commands/harness.ts:160`: "Refuse to start beside a live harness" | the check looks at `daemon_lock`, which nobody holds while the other's daemon boots or waits for its restart |
| `Harness!LiveRowIsNotOverwritten` | `harness` | `cli/src/commands/serve.ts:294`: a row "held by a live sibling [...] is not ours to overwrite" | read and upsert are two steps, and the upsert has no guard |
| `TypedValues!ChoiceIsDeclared` | `MCSteps` | `core/src/engine/inputs.ts:4`: a choice picks a declared option | a default is held to nothing |

Smaller observations made while reading, which no definition states: the loop counter
of `max_loops` lives in the fiber and starts over after a crash; a row whose enqueue
always throws starves the due rows behind it (`schedule-dispatcher.ts:71`); two
dispatchers at once would break `OverlapNeedsAnExcuse`; a headless login attempt
overwrites the verifier of a pending one; a judge that pauses after answered chunks
bills them again; a page opened while its run is quarantined opens no stream; a branch whose pause
was lifted, and which the page heard nothing of since, is running there and paused
elsewhere; `runs tail`
from an old cursor stops at a pause that is long over (`operator.ts:584`).

## 8. What is left out

- Clocks. A timer is an event that may happen; back-off and TTL lengths are not
  compared. SQLite's serialisation and durability are trusted.
- Payload contents, event validation and size limits; the words of models, prompts,
  diagnostics and pages; argument and YAML syntax; archive and hash formats; git.
- `OperatorIntents` has one run and linear nodes; the text of steering is in `Steering`,
  its delivery to agents too. Handlers are assumed to end once aborted or to be given
  up on. How several values of one kind merge in a fold is left out.
- `BlobStore` writes one sha per operation (an operation with several puts them all
  before and all after its one transaction, and no property relates two shas), and an
  unlink that fails is not modelled; roots are never deleted, as in the code.
- `SideEffects` has one daemon at a time; `RunOwnership` is what allows that. Commands
  of other nodes than the current one do not exist outside fan-out.
- `FileTools`: temporary names never collide (they carry the pid and the time); what a name
  resolves to is a constant. `ToolOutput` has lines by their length, `WebFetch` pages by their
  host: the conversion to text is left out. `Harness`: a pid is given out again when no row and
  no process remembers it; how long a child has been healthy is free; a child that cannot be
  killed is left out.
- The models meet in what they agree on, not in one state: `FanOut` and `Dispatch` take
  ownership for granted, `Steering` takes the turn, `Views` takes the log. A composition
  of all of them is out of TLC's reach.
- Not modelled: the write queue (every order it allows is among the interleavings of
  the models), analytics, metrics and titles (read-only or best effort), the drawing
  half of the web UI. `PROJECT.json` says what is missing
  from the parts marked `partly`.
