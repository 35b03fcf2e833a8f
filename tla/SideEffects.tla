---------------------------- MODULE SideEffects ----------------------------
(***************************************************************************)
(* External calls across aborts, crashes and operator decisions.  A tool   *)
(* node wraps its command in externalCall: fact.side_effect_intent is      *)
(* committed before the command starts, a done or failed fact after it,    *)
(* and nothing when the call is aborted.  The facts of one call share an   *)
(* idempotency key made of the node, its iteration and the arguments.  The *)
(* startup sweep joins intents with outcomes by that key and quarantines   *)
(* the run when an intent has none.                                        *)
(*                                                                         *)
(* One run over a chain of tool nodes 1, ..., NumNodes, driven by one      *)
(* daemon at a time: RunOwnership shows that no fact of an earlier daemon  *)
(* lands under a later claim.  Arguments depend on the node alone, so a    *)
(* key is a pair of a node and an iteration.                               *)
(***************************************************************************)
EXTENDS Integers, FiniteSets

CONSTANTS NumNodes,     \* length of the workflow's chain
          FailTo,       \* target of a node's fail edge, 0 where it has none
          MaxRetries,   \* max_retries of every node; 0 leaves a loop unbounded
          TimeoutMax,   \* TIMEOUT_RETRY_MAX_ATTEMPTS
          AbortCeiling, \* abortLoopCeiling
          HealMayFail,  \* whether a heal may spend its SQLITE_BUSY budget
          MaxCalls,     \* bound: calls started
          MaxCrashes    \* bound: daemons lost without a shutdown

Nodes == 1 .. NumNodes

ASSUME EffectsAssumption ==
    /\ NumNodes \in Nat \ {0}
    /\ FailTo \in [Nodes -> 0 .. NumNodes]
    /\ MaxRetries \in Nat
    /\ TimeoutMax \in Nat \ {0}
    /\ AbortCeiling \in Nat \ {0}
    /\ HealMayFail \in BOOLEAN
    /\ MaxCalls \in Nat
    /\ MaxCrashes \in Nat

VARIABLES status,   \* run_state.status
          node,     \* run_state.current_node, 0 for NULL
          iter,     \* routing.internal.retry_count.<node>
          timeouts, \* routing.internal.timeout_retries.<node>
          intents,  \* keys with a fact.side_effect_intent
          settled,  \* keys with a fact.side_effect_done or _failed
          daemon,   \* phase of the daemon process
          pc,       \* the run's fiber
          signal,   \* the abort signal of the dispatch in flight
          result,   \* how the handler ended
          streak,   \* RunTurnState.consecutiveAborts
          calls,    \* calls started
          crashes,  \* daemons lost
          open,     \* history: keys whose latest call has no outcome recorded
          lost,     \* history: keys open when a daemon stopped, undecided since
          resolved, \* history: keys an operator resolved, and how
          skipped   \* history: the last sweep gave up on the quarantine

row   == <<status, node, iter, timeouts>>
log   == <<intents, settled>>
fiber == <<pc, signal, result, streak>>
vars  == <<row, log, fiber, daemon, calls, crashes, open, lost, resolved, skipped>>

Keys == Nodes \X Nat

TypeOK ==
    /\ status \in {"queued", "running", "paused", "quarantined", "done"}
    /\ node \in 0 .. NumNodes
    /\ iter \in [Nodes -> Nat]
    /\ timeouts \in [Nodes -> Nat]
    /\ intents \subseteq Keys
    /\ settled \subseteq Keys
    /\ daemon \in {"down", "quarantine", "requeue", "up", "stopping"}
    /\ pc \in {"none", "turn", "called", "exited"}
    /\ signal \in {"none", "tripped", "deadline"}
    /\ result \in {"none", "success", "fail", "halt", "thrown", "leak"}
    /\ streak \in Nat
    /\ calls \in Nat
    /\ crashes \in Nat
    /\ open \subseteq Keys
    /\ lost \subseteq Keys
    /\ resolved \subseteq Keys \X {"retry", "treat_as_done"}
    /\ skipped \in BOOLEAN

Init ==
    /\ status = "queued"
    /\ node = 0
    /\ iter = [n \in Nodes |-> 0]
    /\ timeouts = [n \in Nodes |-> 0]
    /\ intents = {}
    /\ settled = {}
    /\ daemon = "up"
    /\ pc = "none"
    /\ signal = "none"
    /\ result = "none"
    /\ streak = 0
    /\ calls = 0
    /\ crashes = 0
    /\ open = {}
    /\ lost = {}
    /\ resolved = {}
    /\ skipped = FALSE

\* The idempotency key of a call made by the current node.
CallKey == <<node, iter[node]>>

\* Intents without an outcome under the same key.
OrphanSideEffects == intents \ settled

----------------------------------------------------------------------------
(* The turn loop.                                                          *)

EndFiber(s) ==
    /\ status' = s
    /\ pc' = "none"
    /\ signal' = "none"
    /\ result' = "none"
    /\ streak' = 0

NextTurn ==
    /\ pc' = "turn"
    /\ signal' = "none"
    /\ result' = "none"
    /\ UNCHANGED status

ClaimNextRun ==
    /\ daemon = "up"
    /\ status = "queued"
    /\ status' = "running"
    /\ pc' = "turn"
    /\ UNCHANGED <<node, iter, timeouts, log, daemon, signal, result, streak, calls, crashes, open, lost, resolved, skipped>>

\* An operator intent folded at the start of a turn pauses or ends the run.
FoldIntents(s) ==
    /\ daemon = "up"
    /\ pc = "turn"
    /\ EndFiber(s)
    /\ UNCHANGED <<node, iter, timeouts, log, daemon, calls, crashes, open, lost, resolved, skipped>>

\* A run with no current node starts at the workflow's first node.
StartRun ==
    /\ daemon = "up"
    /\ pc = "turn"
    /\ node = 0
    /\ node' = 1
    /\ UNCHANGED <<status, iter, timeouts, log, fiber, daemon, calls, crashes, open, lost, resolved, skipped>>

\* Fault: the intent is buffered until the turn commits.
FaultRecordIntent ==
    /\ daemon = "up"
    /\ pc = "turn"
    /\ node # 0
    /\ calls < MaxCalls
    /\ open' = open \cup {CallKey}
    /\ pc' = "called"
    /\ calls' = calls + 1
    /\ UNCHANGED <<row, log, signal, result, streak, daemon, crashes, lost, resolved, skipped>>

\* recordIntent commits, then the command runs.
RecordIntent ==
    /\ daemon = "up"
    /\ pc = "turn"
    /\ node # 0
    /\ calls < MaxCalls
    /\ intents' = intents \cup {CallKey}
    /\ open' = open \cup {CallKey}
    /\ pc' = "called"
    /\ calls' = calls + 1
    /\ UNCHANGED <<row, settled, signal, result, streak, daemon, crashes, lost, resolved, skipped>>

\* The supervisor trips the dispatch on a control intent, or its deadline fires.
AbortDispatch(s) ==
    /\ daemon \in {"up", "stopping"}
    /\ pc = "called"
    /\ signal = "none"
    /\ signal' = s
    /\ UNCHANGED <<row, log, pc, result, streak, daemon, calls, crashes, open, lost, resolved, skipped>>

\* A command that exits is recorded done, whatever its exit code.  Under an
\* aborted signal the code is the kill's, and the handler throws the abort.
RecordDone(r) ==
    /\ pc = "called"
    /\ settled' = settled \cup {CallKey}
    /\ open' = open \ {CallKey}
    /\ pc' = "exited"
    /\ result' = IF signal # "none" THEN "thrown" ELSE r
    /\ UNCHANGED <<row, intents, signal, streak, daemon, calls, crashes, lost, resolved, skipped>>

\* A command that could not be spawned is recorded failed and halts the run.
RecordFailed ==
    /\ pc = "called"
    /\ settled' = settled \cup {CallKey}
    /\ open' = open \ {CallKey}
    /\ pc' = "exited"
    /\ result' = IF signal # "none" THEN "thrown" ELSE "halt"
    /\ UNCHANGED <<row, intents, signal, streak, daemon, calls, crashes, lost, resolved, skipped>>

\* An AbortError leaves the intent without an outcome.
CallAborts ==
    /\ pc = "called"
    /\ pc' = "exited"
    /\ result' = IF signal # "none" THEN "thrown" ELSE "halt"
    /\ UNCHANGED <<row, log, signal, streak, daemon, calls, crashes, open, lost, resolved, skipped>>

\* A handler that outlives its signal by the leak grace is given up on.
HandlerLeaks ==
    /\ pc = "called"
    /\ signal # "none"
    /\ pc' = "exited"
    /\ result' = "leak"
    /\ UNCHANGED <<row, log, signal, streak, daemon, calls, crashes, open, lost, resolved, skipped>>

\* Which signal ended the dispatch: a deadline first, then a shutdown.
AbortCause ==
    CASE signal = "none"      -> "none"
      [] signal = "deadline"  -> "timeout"
      [] signal = "tripped"   -> IF daemon = "stopping" THEN "shutdown" ELSE "aborted"

\* A success on the last node completes the run.
IsExit == node = NumNodes

\* commitTransition after a success: the counter of the node restarts.
CommitSuccess ==
    /\ pc = "exited"
    /\ result = "success"
    /\ iter' = [iter EXCEPT ![node] = 0]
    /\ IF IsExit
         THEN EndFiber("done") /\ UNCHANGED node
         ELSE NextTurn /\ streak' = 0 /\ node' = node + 1
    /\ UNCHANGED <<timeouts, log, daemon, calls, crashes, open, lost, resolved, skipped>>

\* A fail edge to a node upstream closes a loop, counted when max_retries is set.
ClosesLoop == FailTo[node] <= node /\ MaxRetries > 0

\* commitTransition after a failure.
CommitFail ==
    /\ pc = "exited"
    /\ result = "fail"
    /\ \/ /\ FailTo[node] = 0
          /\ EndFiber("done")
          /\ UNCHANGED <<node, iter>>
       \/ /\ FailTo[node] # 0
          /\ ClosesLoop
          /\ iter[node] >= MaxRetries
          /\ EndFiber("paused")
          /\ UNCHANGED <<node, iter>>
       \/ /\ FailTo[node] # 0
          /\ ClosesLoop => iter[node] < MaxRetries
          /\ iter' = IF ClosesLoop THEN [iter EXCEPT ![node] = @ + 1] ELSE iter
          /\ node' = FailTo[node]
          /\ NextTurn
          /\ streak' = 0
    /\ UNCHANGED <<timeouts, log, daemon, calls, crashes, open, lost, resolved, skipped>>

CommitHalt ==
    /\ pc = "exited"
    /\ result \in {"halt", "leak"}
    /\ EndFiber("done")
    /\ UNCHANGED <<node, iter, timeouts, log, daemon, calls, crashes, open, lost, resolved, skipped>>

\* planExit: the watchdog has no attempt left for the node.
TimeoutsSpent == timeouts[node] + 1 >= TimeoutMax

\* planAbortLoop: one more abort in a row parks the run.
AtAbortCeiling == streak + 1 >= AbortCeiling

\* commitExit for a handler that threw under an aborted signal.
CommitExit ==
    /\ pc = "exited"
    /\ result = "thrown"
    /\ \/ /\ AbortCause = "shutdown"
          /\ EndFiber("running")
          /\ UNCHANGED timeouts
       \/ /\ AbortCause = "timeout"
          /\ ~TimeoutsSpent
          /\ timeouts' = [timeouts EXCEPT ![node] = @ + 1]
          /\ EndFiber("paused")
       \/ /\ AbortCause = "timeout"
          /\ TimeoutsSpent
          /\ EndFiber("done")
          /\ UNCHANGED timeouts
       \/ /\ AbortCause = "aborted"
          /\ IF AtAbortCeiling
               THEN EndFiber("paused")
               ELSE NextTurn /\ streak' = streak + 1
          /\ UNCHANGED timeouts
    /\ UNCHANGED <<node, iter, log, daemon, calls, crashes, open, lost, resolved, skipped>>

\* The commit ladder is spent: the run is halted with occ_exhausted, or given
\* back when that append loses every race too.
OccExhausted(s) ==
    /\ pc = "exited"
    /\ EndFiber(s)
    /\ UNCHANGED <<node, iter, timeouts, log, daemon, calls, crashes, open, lost, resolved, skipped>>

----------------------------------------------------------------------------
(* Wakes and operator decisions on a run no fiber drives.                  *)

\* intent.resume, intent.human_input or the timer of paused_auto.
WakeResume ==
    /\ daemon = "up"
    /\ status = "paused"
    /\ status' = "queued"
    /\ UNCHANGED <<node, iter, timeouts, log, fiber, daemon, calls, crashes, open, lost, resolved, skipped>>

WakeCancel ==
    /\ daemon = "up"
    /\ status \in {"queued", "paused", "quarantined"}
    /\ status' = "done"
    /\ UNCHANGED <<node, iter, timeouts, log, fiber, daemon, calls, crashes, open, lost, resolved, skipped>>

\* intent.unquarantine: retry resumes, treat_as_done first gives every orphan a
\* synthesised done fact.
WakeUnquarantine(resolution) ==
    /\ daemon = "up"
    /\ status = "quarantined"
    /\ status' = "queued"
    /\ lost' = {}
    /\ resolved' = resolved \cup (OrphanSideEffects \X {resolution})
    /\ \/ /\ resolution = "retry"
          /\ UNCHANGED <<settled, open>>
       \/ /\ resolution = "treat_as_done"
          /\ settled' = settled \cup OrphanSideEffects
          /\ open' = open \ OrphanSideEffects
    /\ UNCHANGED <<node, iter, timeouts, intents, fiber, daemon, calls, crashes, skipped>>

----------------------------------------------------------------------------
(* Shutdown, loss and restart of the daemon.                               *)

Shutdown ==
    /\ daemon = "up"
    /\ daemon' = "stopping"
    /\ signal' = IF pc = "called" /\ signal = "none" THEN "tripped" ELSE signal
    /\ UNCHANGED <<row, log, pc, result, streak, calls, crashes, open, lost, resolved, skipped>>

\* The turn loop ends between turns once the shutdown signal is set.
FiberStops ==
    /\ daemon = "stopping"
    /\ pc = "turn"
    /\ EndFiber(status)
    /\ UNCHANGED <<node, iter, timeouts, log, daemon, calls, crashes, open, lost, resolved, skipped>>

Exit ==
    /\ daemon = "stopping"
    /\ pc = "none"
    /\ daemon' = "down"
    /\ lost' = lost \cup open
    /\ UNCHANGED <<row, log, fiber, calls, crashes, open, resolved, skipped>>

\* SIGKILL, power loss or a panic, at any point, the sweep included.
Crash ==
    /\ daemon # "down"
    /\ crashes < MaxCrashes
    /\ crashes' = crashes + 1
    /\ daemon' = "down"
    /\ EndFiber(status)
    /\ lost' = lost \cup open
    /\ UNCHANGED <<node, iter, timeouts, log, calls, open, resolved, skipped>>

Boot ==
    /\ daemon = "down"
    /\ daemon' = "quarantine"
    /\ UNCHANGED <<row, log, fiber, calls, crashes, open, lost, resolved, skipped>>

\* Fault: any interrupted run is quarantined, with or without an orphan.
FaultHealQuarantineAll ==
    /\ daemon = "quarantine"
    /\ daemon' = "requeue"
    /\ skipped' = FALSE
    /\ IF status \in {"queued", "running", "paused"}
         THEN status' = "quarantined" /\ node' = 0
         ELSE UNCHANGED <<status, node>>
    /\ UNCHANGED <<iter, timeouts, log, fiber, calls, crashes, open, lost, resolved>>

\* Fault: a parked run is preserved although it has an orphan.
FaultHealQuarantineRunning ==
    /\ daemon = "quarantine"
    /\ daemon' = "requeue"
    /\ skipped' = FALSE
    /\ IF OrphanSideEffects # {} /\ status = "running"
         THEN status' = "quarantined" /\ node' = 0
         ELSE UNCHANGED <<status, node>>
    /\ UNCHANGED <<iter, timeouts, log, fiber, calls, crashes, open, lost, resolved>>

\* startupSweep quarantines first.  Its audit fact clears the current node.
HealQuarantine ==
    /\ daemon = "quarantine"
    /\ daemon' = "requeue"
    /\ skipped' = FALSE
    /\ IF OrphanSideEffects # {} /\ status \in {"queued", "running", "paused"}
         THEN status' = "quarantined" /\ node' = 0
         ELSE UNCHANGED <<status, node>>
    /\ UNCHANGED <<iter, timeouts, log, fiber, calls, crashes, open, lost, resolved>>

\* Then it requeues what is still running, at the node it was on.
HealRequeue ==
    /\ daemon = "requeue"
    /\ daemon' = "up"
    /\ status' = IF status = "running" THEN "queued" ELSE status
    /\ UNCHANGED <<node, iter, timeouts, log, fiber, calls, crashes, open, lost, resolved, skipped>>

\* healRun gives up on one transaction and the sweep goes on.
HealFails ==
    /\ HealMayFail
    /\ \/ daemon = "quarantine" /\ daemon' = "requeue" /\ skipped' = TRUE
       \/ daemon = "requeue" /\ daemon' = "up" /\ UNCHANGED skipped
    /\ UNCHANGED <<row, log, fiber, calls, crashes, open, lost, resolved>>

Next ==
    \/ ClaimNextRun
    \/ \E s \in {"paused", "done"}: FoldIntents(s)
    \/ StartRun
    \/ RecordIntent
    \/ \E s \in {"tripped", "deadline"}: AbortDispatch(s)
    \/ \E r \in {"success", "fail"}: RecordDone(r)
    \/ RecordFailed
    \/ CallAborts
    \/ HandlerLeaks
    \/ CommitSuccess
    \/ CommitFail
    \/ CommitHalt
    \/ CommitExit
    \/ \E s \in {"done", "queued"}: OccExhausted(s)
    \/ WakeResume
    \/ WakeCancel
    \/ \E x \in {"retry", "treat_as_done"}: WakeUnquarantine(x)
    \/ Shutdown
    \/ FiberStops
    \/ Exit
    \/ Crash
    \/ Boot
    \/ HealQuarantine
    \/ HealRequeue
    \/ HealFails

\* The harness respawns a daemon that is gone, and the sweep is straight-line
\* code of its boot.
Fairness == WF_vars(Boot) /\ WF_vars(HealQuarantine) /\ WF_vars(HealRequeue)

Spec == Init /\ [][Next]_vars /\ Fairness

----------------------------------------------------------------------------
(* Properties.                                                             *)

\* No blind retry: a call whose outcome was unknown when a daemon stopped is
\* not made again before an operator has resolved the quarantine, through any
\* mix of aborts, pauses, releases, shutdowns and crashes, one during the sweep
\* included.  Two exceptions: a key that some earlier call settled
\* (LostCallNotRepeated) and a sweep whose quarantine spent its SQLITE_BUSY
\* budget (QuarantineTakesPrecedence); after the next sweep the latter is
\* protected again.
NoBlindRetry == pc = "called" /\ CallKey \in lost /\ ~skipped => CallKey \in settled

\* A quarantined run has a call whose latest attempt really has no outcome: the
\* key join never flags an effect whose end the log recorded.
QuarantineIsWarranted ==
    status = "quarantined" =>
        /\ OrphanSideEffects # {}
        /\ OrphanSideEffects \subseteq open

\* An orphan left by a daemon that stopped, cleanly or not, ends up in front of
\* an operator (or of an ended run) even if the daemon crashes while it sweeps.
OrphansReachOperator == (lost \ settled # {}) ~> (status \in {"quarantined", "done"})

----------------------------------------------------------------------------
(* What the docs and comments say and the code does not keep in every      *)
(* case: the second when a retry reused a settled key.  The               *)
(* README gives the configurations and the counterexamples of the others.  *)

\* sweep.ts: quarantine runs before requeue so that it takes precedence, so a run
\* flagged with an unsettled orphan is never requeued and called again.
QuarantineTakesPrecedence == pc = "called" /\ CallKey \in lost => CallKey \in settled

\* handler-contract.md: a crash between intent and done quarantines the run
\* rather than blindly re-running, whatever earlier calls recorded.
LostCallNotRepeated == pc = "called" => CallKey \notin lost

\* external-call.ts: an aborted call leaves its intent without a terminator so
\* that the sweep quarantines; the key is not called again before that.
AbortedCallNotRepeated ==
    [][ pc = "turn" /\ pc' = "called" /\ CallKey \in OrphanSideEffects =>
            <<CallKey, "retry">> \in resolved ]_vars

\* wake-pending.ts: treat_as_done is the safe way out for a provider that does
\* not deduplicate, because the call already succeeded.
AssertedCallNotRepeated == pc = "called" => <<CallKey, "treat_as_done">> \notin resolved
=============================================================================
