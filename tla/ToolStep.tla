------------------------------ MODULE ToolStep ------------------------------
(***************************************************************************)
(* A `tool` step: one shell command, run in a process group of its own,    *)
(* stopped by a timeout or by the executor's abort signal, that may leave  *)
(* a typed output in a scratch file                                        *)
(* (packages/core/src/handler/handlers/tool.ts,                            *)
(* packages/workspace/src/local-env.ts).                                   *)
(*                                                                         *)
(* The model follows the dispatches of one node of one run, in one         *)
(* iteration: they share the path of the scratch file. A dispatch that was *)
(* stopped, or whose executor died, is followed by another one; processes  *)
(* that outlived it may still be there.                                    *)
(***************************************************************************)
EXTENDS Naturals, FiniteSets

CONSTANTS MaxDispatches,  \* dispatches of the node
          Commands,       \* how the command fares before it runs
          None

VARIABLES node,    \* the step: its command, and whether it declares outputs
          up,      \* the executor runs
          n,       \* the latest dispatch
          pc,      \* where its handler is
          aborted, \* its signal
          call,    \* exec calls: settled, the reason they were killed, the group reaped
          group,   \* process groups: members alive, members that ignore SIGTERM, the
                   \* child's pipes closed, how the shell ended
          armed,   \* SIGKILL timers, and whether they hold the executor open
          lost,    \* how the executor ended that a group outlived
          path,    \* what the scratch path names: the dispatch's inode, another file, None
          inode,   \* what the latest dispatch's inode holds: kind, writer, dispatch then
          result,  \* of the latest dispatch
          told     \* tool_node messages it appended

vars == <<node, up, n, pc, aborted, call, group, armed, lost, path, inode, result, told>>

Ds == 1 .. MaxDispatches
Emissions == {"good", "bad"}
Signal == 256    \* no exit code: the shell was ended by a signal
Kinds == {"success", "fail", "halt", "throw", "abort", "crash"}
Inodes == [kind : Emissions, by : Ds, at : Ds]

ToolStepAssumption ==
    /\ MaxDispatches \in Nat
    /\ None \notin Kinds \union {"timeout", "exit", "ref", "unref"}
    /\ None \notin Nat \union Inodes

Fresh == [settled |-> FALSE, kill |-> None, reaped |-> FALSE]
Empty == [alive |-> {}, stubborn |-> {}, quiet |-> FALSE, code |-> None]

Results(kind, code) == [kind |-> kind, code |-> code, emission |-> None]

\* A step of type tool: how its command fares, and whether it declares outputs.
ToolConfig == [command : Commands, produces : BOOLEAN]

\* Type invariant.
Processes == SUBSET {"shell", "child"}
Codes == {None, 0, 1, 124, 126, 127, 130, Signal}
TypeOK ==
    /\ node \in ToolConfig /\ up \in BOOLEAN /\ aborted \in BOOLEAN
    /\ n \in 0 .. MaxDispatches /\ (pc # "idle" => n \in Ds)
    /\ pc \in {"idle", "unlinked", "ready", "running", "returned", "reading"}
    /\ call \in [Ds -> [settled : BOOLEAN, kill : {None, "timeout", "abort"}, reaped : BOOLEAN]]
    /\ group \in [Ds -> [alive : Processes, stubborn : Processes, quiet : BOOLEAN, code : Codes]]
    /\ armed \in [Ds -> {None, "ref", "unref"}]
    /\ lost \in [Ds -> {None, "crash", "exit"}]
    /\ path \in {None, "own", "other"}
    /\ inode \in Inodes \union {None}
    /\ result \in [kind : Kinds \union {None}, code : Codes,
                   emission : Inodes \union {None}]
    /\ told \in Nat

\* substitute throws: the command refers to what is not there.
Unsubstitutable == node.command = "unresolved"

\* The tail of what the command printed is appended as a tool_node message.
Tell == told' = told + 1

Init ==
    /\ node \in ToolConfig
    /\ up = TRUE /\ n = 0 /\ pc = "idle" /\ aborted = FALSE
    /\ call = [d \in Ds |-> Fresh] /\ group = [d \in Ds |-> Empty]
    /\ armed = [d \in Ds |-> None] /\ lost = [d \in Ds |-> None]
    /\ path = None /\ inode = None
    /\ result = Results(None, None) /\ told = 0

----------------------------------------------------------------------------
\* The handler, to the spawn

\* finally: the scratch file is closed and whatever its path names is removed.
Ends(r) == /\ pc' = "idle" /\ result' = r
           /\ path' = IF node.produces /\ pc \notin {"idle", "unlinked"} THEN None ELSE path

\* The executor dispatches the node, again after a stop or a crash. An empty command
\* halts, a reference that cannot be substituted fails the node.
Dispatch ==
    /\ up /\ pc = "idle" /\ n < MaxDispatches
    /\ result.kind \in {None, "abort", "crash"}
    /\ n' = n + 1 /\ aborted' = FALSE /\ told' = 0
    /\ CASE node.command = "empty" -> pc' = "idle" /\ result' = Results("halt", None) /\ UNCHANGED path
         [] Unsubstitutable -> pc' = "idle" /\ result' = Results("fail", None) /\ UNCHANGED path
         [] OTHER -> /\ result' = Results(None, None)
                     /\ pc' = IF node.produces THEN "unlinked" ELSE "ready"
                     /\ path' = IF node.produces THEN None ELSE path
    /\ UNCHANGED <<node, up, call, group, armed, lost, inode>>

\* createScratchFile: what was on the path is unlinked; then O_EXCL creates a new inode,
\* or fails when something is there again.
FaultScratchCreates ==
    /\ up /\ pc = "unlinked"
    /\ path' = "own" /\ pc' = "ready"
    /\ UNCHANGED <<node, up, n, aborted, call, group, armed, lost, inode, result, told>>
ScratchCreates ==
    /\ up /\ pc = "unlinked"
    /\ IF path = None THEN path' = "own" /\ inode' = None /\ pc' = "ready" /\ UNCHANGED result
                      ELSE Ends(Results("throw", None)) /\ UNCHANGED inode
    /\ UNCHANGED <<node, up, n, aborted, call, group, armed, lost, told>>

\* A blocked command, or one that leaves the directory by `cd`, is answered with 126
\* and never spawned; a shell that cannot be started with 127.
Refused ==
    /\ up /\ pc = "ready" /\ node.command \in {"blocked", "unspawnable"}
    /\ call' = [call EXCEPT ![n].settled = TRUE]
    /\ group' = [group EXCEPT ![n].code = IF node.command = "blocked" THEN 126 ELSE 127]
    /\ pc' = "returned"
    /\ UNCHANGED <<node, up, n, aborted, armed, lost, path, inode, result, told>>

\* Members of a group are gone, the shell with an exit code.
Without(g, gone, code) ==
    [alive |-> g.alive \ gone, stubborn |-> g.stubborn \ gone, quiet |-> g.quiet /\ "child" \notin gone,
     code |-> IF "shell" \in gone THEN code ELSE g.code]

\* SIGTERM to the group, and the timer that sends SIGKILL.
Term(g) == Without(g, g.alive \ g.stubborn, Signal)
FaultReap(c, keepAlive) == IF c.reaped THEN armed[n] ELSE "unref"
Reap(c, keepAlive) == IF c.reaped THEN armed[n] ELSE IF keepAlive THEN "ref" ELSE "unref"

\* killTree
KillTree(reason) ==
    /\ call' = [call EXCEPT ![n].kill = reason, ![n].reaped = TRUE]
    /\ armed' = [armed EXCEPT ![n] = Reap(call[n], TRUE)]

\* The shell starts, in a group of its own. A signal that was aborted by then kills it
\* at once.
Spawn ==
    /\ up /\ pc = "ready" /\ node.command = "runs"
    /\ \E s \in SUBSET {"shell"} :
         LET g == [alive |-> {"shell"}, stubborn |-> s, quiet |-> FALSE, code |-> None]
         IN group' = [group EXCEPT ![n] = IF aborted THEN Term(g) ELSE g]
    /\ IF aborted THEN KillTree("abort") ELSE UNCHANGED <<call, armed>>
    /\ pc' = "running"
    /\ UNCHANGED <<node, up, n, aborted, lost, path, inode, result, told>>

----------------------------------------------------------------------------
\* The processes

\* The command starts a child in the background.
Fork(d) ==
    /\ "shell" \in group[d].alive /\ "child" \notin group[d].alive
    /\ \E q \in BOOLEAN, s \in SUBSET {"child"} :
         group' = [group EXCEPT ![d].alive = @ \union {"child"}, ![d].quiet = q, ![d].stubborn = @ \union s]
    /\ UNCHANGED <<node, up, n, pc, aborted, call, armed, lost, path, inode, result, told>>

\* The shell exits, or is killed from outside; the child ends.
ShellEnds(d) ==
    /\ "shell" \in group[d].alive
    /\ \E c \in {0, 1, Signal} : group' = [group EXCEPT ![d] = Without(@, {"shell"}, c)]
    /\ UNCHANGED <<node, up, n, pc, aborted, call, armed, lost, path, inode, result, told>>
ChildEnds(d) ==
    /\ "child" \in group[d].alive /\ group' = [group EXCEPT ![d] = Without(@, {"child"}, None)]
    /\ UNCHANGED <<node, up, n, pc, aborted, call, armed, lost, path, inode, result, told>>

\* A process of a producing step writes to $FRAGUA_OUTPUT: in place, into what the path
\* names, or by a rename over it.
Writes(d) ==
    /\ node.produces /\ group[d].alive # {}
    /\ \/ /\ path = "own" /\ UNCHANGED path
          /\ \E k \in Emissions : inode' = [kind |-> k, by |-> d, at |-> n]
       \/ path' = "other" /\ UNCHANGED inode
    /\ UNCHANGED <<node, up, n, pc, aborted, call, group, armed, lost, result, told>>

\* The grace of two seconds is over.
Backstop(d) ==
    /\ up /\ armed[d] # None
    /\ armed' = [armed EXCEPT ![d] = None]
    /\ group' = [group EXCEPT ![d] = Without(@, @.alive, Signal)]
    /\ UNCHANGED <<node, up, n, pc, aborted, call, lost, path, inode, result, told>>

----------------------------------------------------------------------------
\* The call

\* The timeout, or the executor's signal. Either may come after the other, and both
\* after the shell is gone while a pipe is still open.
Timeout ==
    /\ up /\ pc = "running" /\ KillTree("timeout")
    /\ group' = [group EXCEPT ![n] = IF call[n].reaped THEN @ ELSE Term(@)]
    /\ UNCHANGED <<node, up, n, pc, aborted, lost, path, inode, result, told>>
Abort ==
    /\ up /\ pc # "idle" /\ ~aborted /\ aborted' = TRUE
    /\ IF pc = "running"
       THEN KillTree("abort") /\ group' = [group EXCEPT ![n] = IF call[n].reaped THEN @ ELSE Term(@)]
       ELSE UNCHANGED <<call, armed, group>>
    /\ UNCHANGED <<node, up, n, pc, lost, path, inode, result, told>>

\* close: the shell is gone and no process holds its pipes. The rest of the group is
\* reaped. A shell that a signal ended has no exit code, and 0 stands for it.
Closed(g) == g.alive = {} \/ (g.alive = {"child"} /\ g.quiet)
Close ==
    /\ up /\ pc = "running" /\ Closed(group[n])
    /\ call' = [call EXCEPT ![n].settled = TRUE, ![n].reaped = TRUE]
    /\ armed' = [armed EXCEPT ![n] = Reap(call[n], FALSE)]
    /\ group' = [group EXCEPT ![n] = IF call[n].reaped THEN @ ELSE Term(@)]
    /\ pc' = "returned"
    /\ UNCHANGED <<node, up, n, aborted, lost, path, inode, result, told>>

ExitCode(d) ==
    CASE call[d].kill = "timeout" -> 124
      [] call[d].kill = "abort" -> 130
      [] group[d].code = Signal -> 0
      [] OTHER -> group[d].code

----------------------------------------------------------------------------
\* The handler, after the call

\* A stopped turn hands the abort back, whatever the exit code. Otherwise the message is
\* appended, by a producing step that exited 0 only after the read.
FaultReturns ==
    /\ up /\ pc = "returned"
    /\ IF call[n].kill = "abort" THEN Ends(Results("abort", ExitCode(n))) /\ UNCHANGED told
       ELSE IF ExitCode(n) # 0 THEN Ends(Results("fail", ExitCode(n))) /\ Tell
       ELSE IF node.produces THEN pc' = "reading" /\ UNCHANGED <<result, path, told>>
       ELSE Ends(Results("success", 0)) /\ Tell
    /\ UNCHANGED <<node, up, n, aborted, call, group, armed, lost, inode>>
Returns ==
    /\ up /\ pc = "returned"
    /\ IF aborted THEN Ends(Results("abort", ExitCode(n))) /\ UNCHANGED told
       ELSE IF ExitCode(n) # 0 THEN Ends(Results("fail", ExitCode(n))) /\ Tell
       ELSE IF node.produces THEN pc' = "reading" /\ UNCHANGED <<result, path, told>>
       ELSE Ends(Results("success", 0)) /\ Tell
    /\ UNCHANGED <<node, up, n, aborted, call, group, armed, lost, inode>>

\* The read goes through the descriptor kept from the creation. The signal is checked
\* between two reads: an abort after bytes were read halts. Nothing read, bytes too
\* many, no JSON or not what was declared fails the node.
ReadScratch ==
    IF inode = None THEN Results("fail", 0)
    ELSE IF aborted THEN Results("halt", 0)
    ELSE IF inode.kind # "good" THEN Results("fail", 0)
    ELSE [kind |-> "success", code |-> 0, emission |-> inode]

\* The emission is read, and whatever came of it the message is appended.
Read ==
    /\ up /\ pc = "reading" /\ Tell
    /\ Ends(ReadScratch)
    /\ UNCHANGED <<node, up, n, aborted, call, group, armed, lost, inode>>

----------------------------------------------------------------------------
\* The executor. It may die at any time; a short-lived one ends when nothing holds it.

Forgets(how) ==
    /\ up' = FALSE /\ armed' = [d \in Ds |-> None]
    /\ lost' = [d \in Ds |-> IF lost[d] = None /\ group[d].alive # {} THEN how ELSE lost[d]]
Crash ==
    /\ up /\ pc # "idle" /\ Forgets("crash")
    /\ pc' = "idle" /\ result' = Results("crash", None)
    /\ path' = IF path = "own" THEN "other" ELSE path
    /\ UNCHANGED <<node, n, aborted, call, group, inode, told>>
Exit ==
    /\ up /\ pc = "idle" /\ n > 0 /\ (\A d \in Ds : armed[d] # "ref") /\ Forgets("exit")
    /\ UNCHANGED <<node, n, pc, aborted, call, group, path, inode, result, told>>
Restart ==
    /\ ~up /\ up' = TRUE
    /\ UNCHANGED <<node, n, pc, aborted, call, group, armed, lost, path, inode, result, told>>

Next ==
    \/ Dispatch \/ ScratchCreates \/ Refused \/ Spawn \/ Timeout \/ Abort \/ Close \/ Returns \/ Read
    \/ Crash \/ Exit \/ Restart
    \/ \E d \in Ds : Fork(d) \/ ShellEnds(d) \/ ChildEnds(d) \/ Writes(d) \/ Backstop(d)

Spec == Init /\ [][Next]_vars

----------------------------------------------------------------------------
(* A process that outlives its call has the SIGKILL coming, unless the executor    *)
(* died, or ended after a call that nobody had to kill (local-env.ts, reapGroup).  *)
NobodyStranded ==
    \A d \in Ds : group[d].alive # {} /\ (call[d].settled \/ call[d].kill # None) =>
        \/ armed[d] # None \/ lost[d] = "crash"
        \/ lost[d] = "exit" /\ call[d].kill = None

(* An output that is taken was written during the dispatch that takes it, and is   *)
(* valid: what an earlier dispatch left behind never passes for it (tool.ts, the   *)
(* producer read-back; local-env.ts, createScratchFile).                           *)
EmissionIsFresh ==
    result.kind = "success" /\ node.produces =>
        result.emission # None /\ result.emission.at = n /\ result.emission.kind = "good"

(* A stop is never taken for the command failing, in whichever order the timeout   *)
(* and the signal came, and a command that ran and was not stopped leaves exactly  *)
(* one message (tool.ts, the two checks of ctx.signal and appendToolMessage).      *)
StopIsNotFailure ==
    /\ aborted => result.kind # "success" /\ ~(result.kind = "fail" /\ result.code \notin {0, None})
    /\ result.code # None => told = IF result.kind = "abort" THEN 0 ELSE 1

(* NobodyStranded, EmissionIsFresh and StopIsNotFailure. *)
ToolStepSound == NobodyStranded /\ EmissionIsFresh /\ StopIsNotFailure

(* Statements the code does not keep.                                              *)
(* tool.ts: "exit 0 -> outcome=success; non-zero -> outcome=fail". A shell that is *)
(* killed from outside has no exit code, and exec makes it 0.                      *)
SuccessMeansExitZero == result.kind = "success" => group[n].code = 0
(* tool.ts says that a stopped turn hands the abort back, so that the node runs    *)
(* again; one stopped while its output is read halts the run.                      *)
StopIsNotHalt == aborted => result.kind # "halt"
(* An output is that of the dispatch's own command, not of a process that outlived *)
(* an earlier one.                                                                 *)
EmissionIsOwn == result.emission # None => result.emission.by = n
=============================================================================
