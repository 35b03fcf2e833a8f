------------------------------ MODULE FileTools ------------------------------
(***************************************************************************)
(* The agent's `write` and `edit` tools (packages/workspace/src/tools.ts,  *)
(* path-utils.ts, edit-diff.ts) on the files of one worktree, as           *)
(* LocalEnvironment.writeFile replaces them (local-env.ts).                *)
(*                                                                         *)
(* Calls come from several branches and, within a turn, in parallel. They  *)
(* are serialised per queue key: the real path of the name they were given *)
(* as the daemon's own directory resolves it, while the file they reach is *)
(* resolved against the worktree. A text is a sequence of tokens: words,   *)
(* the two line ends and a byte order mark. A command (`bash`) writes the  *)
(* same files outside the queues, an operation may fail at any await, and  *)
(* the daemon may crash.                                                   *)
(***************************************************************************)
EXTENDS Integers, SequencesExt

CONSTANTS Calls,       \* tool calls, each made once
          Names,       \* what a model calls a file: relative, absolute, through a link
          Files, Keys,
          FileOf,      \* the file of the worktree a name reaches; None: outside of it
          KeyOf,       \* the key of its queue
          Tokens,
          Plain,       \* what fuzzy matching takes a token for
          Requests,    \* what calls may ask for
          Starts,      \* what a file may hold to begin with
          Outputs,     \* what a command may leave in a file
          MaxCommands, \* writes by commands
          MaxFaults,   \* failed operations and crashes
          None

VARIABLES file,     \* the text of each file; None: there is none
          last,     \* history: who wrote it last
          queue,    \* withFileMutationQueue: the calls of each key, in order of arrival
          pc, req,  \* where each call is and what it asked for
          work,     \* what an edit read, whose it was, and the text a call is to leave
          tmp,      \* its temporary file
          commands, faults

vars == <<file, last, queue, pc, req, work, tmp, commands, faults>>
bounds == <<commands, faults>>

Texts == Seq(Tokens)
Edits == Seq([old : Texts, new : Texts])
Writers == Calls \union {"start", "command"}
Steps == {"idle", "queued", "reading", "writing", "filling", "renaming", "done", "failed", "dead"}
FileToolsAssumption ==
    /\ FileOf \in [Names -> Files \union {None}] /\ KeyOf \in [Names -> Keys]
    /\ Plain \in [Tokens -> Tokens] /\ {"lf", "crlf", "bom"} \subseteq Tokens
    /\ Requests \subseteq [tool : {"write", "edit"}, name : Names, text : Texts, edits : Edits]
    /\ Starts \subseteq Texts \union {None} /\ Outputs \subseteq Texts \union {None}
    /\ {"start", "command"} \intersect Calls = {} /\ None \notin Files /\ None \notin Calls /\ None \notin Requests
    /\ MaxCommands \in Nat /\ MaxFaults \in Nat

\* Type invariant of the control state; texts are constrained where they are read.
TypeOK ==
    /\ last \in [Files -> Writers] /\ queue \in [Keys -> Seq(Calls)]
    /\ pc \in [Calls -> Steps] /\ req \in [Calls -> Requests \union {None}]
    /\ tmp \in [Calls -> {None, "partial", "whole"}]
    /\ commands \in 0 .. MaxCommands /\ faults \in 0 .. MaxFaults

NoWork == [from |-> None, seen |-> None, text |-> None]
Init ==
    /\ file \in [Files -> Starts] /\ last = [f \in Files |-> "start"]
    /\ queue = [k \in Keys |-> <<>>]
    /\ pc = [c \in Calls |-> "idle"] /\ req = [c \in Calls |-> None]
    /\ work = [c \in Calls |-> NoWork] /\ tmp = [c \in Calls |-> None]
    /\ commands = 0 /\ faults = 0

----------------------------------------------------------------------------
\* The edit algorithm

EndsOf(s) == {i \in DOMAIN s : s[i] \in {"lf", "crlf"}}
\* detectLineEnding: the first line end decides.
Ending(s) ==
    IF \E i \in EndsOf(s) : s[i] = "crlf" /\ \A j \in EndsOf(s) : i <= j THEN "crlf" ELSE "lf"
WithEnds(s, e) == [i \in DOMAIN s |-> IF s[i] \in {"lf", "crlf"} THEN e ELSE s[i]]
ToLF(s) == WithEnds(s, "lf")
\* stripBom keeps it aside.
Mark(s) == IF s # <<>> /\ Head(s) = "bom" THEN <<"bom">> ELSE <<>>
\* normalizeForFuzzyMatch
Normal(s) == [i \in DOMAIN s |-> Plain[s[i]]]

Places(s, old) == {i \in 1 .. Len(s) - Len(old) + 1 : SubSeq(s, i, i + Len(old) - 1) = old}
\* fuzzyFindText: the exact text wherever it occurs, its fuzzy form only where it does not.
Loosely(s, old) == Places(s, old) = {}
Matches(s, old) == IF Loosely(s, old) THEN Places(Normal(s), Normal(old)) ELSE Places(s, old)
At(s, old) == IF Cardinality(Matches(s, old)) = 1 THEN CHOOSE i \in Matches(s, old) : TRUE ELSE 0

\* One edit found loosely moves all of them to the normalised text.
Base(s, edits) ==
    IF \E k \in DOMAIN edits : Loosely(s, edits[k].old) /\ At(s, edits[k].old) # 0 THEN Normal(s) ELSE s
Splice(s, at, n, new) == SubSeq(s, 1, at - 1) \o new \o SubSeq(s, at + n, Len(s))
\* From the last place to the first, so that earlier places stay valid.
FaultOrderOf(at) == SetToSortSeq(DOMAIN at, LAMBDA j, k : at[j] < at[k])
OrderOf(at) == SetToSortSeq(DOMAIN at, LAMBDA j, k : at[j] > at[k])
Spliced(base, at, edits) ==
    FoldLeft(LAMBDA t, k : Splice(t, at[k], Len(edits[k].old), edits[k].new), base, OrderOf(at))
Apart(at, edits) ==
    \A j, k \in DOMAIN at : j # k /\ at[j] <= at[k] => at[j] + Len(edits[j].old) <= at[k]

\* applyEditsToNormalizedContent; None: it throws.
Applied(s, given) ==
    LET edits == [k \in DOMAIN given |-> [old |-> ToLF(given[k].old), new |-> ToLF(given[k].new)]]
        base == Base(s, edits)
        at == [k \in DOMAIN edits |-> At(base, edits[k].old)]
    IN IF /\ \A k \in DOMAIN edits : edits[k].old # <<>> /\ at[k] # 0
          /\ Apart(at, edits) /\ Spliced(base, at, edits) # base
       THEN Spliced(base, at, edits) ELSE None

\* What an edit makes of the raw text of a file: mark and line ends are put back.
Edited(raw, edits) ==
    LET body == SubSeq(raw, Len(Mark(raw)) + 1, Len(raw))
        new == Applied(ToLF(body), edits)
    IN IF new = None THEN None ELSE Mark(raw) \o WithEnds(new, Ending(body))

----------------------------------------------------------------------------
\* The mutation queue

Name(c) == req[c].name
Key(c) == KeyOf[Name(c)]
Target(c) == FileOf[Name(c)]
Inside == {c \in Calls : pc[c] \in {"reading", "writing", "filling", "renaming"}}
\* `await currentQueue`: every call that came before under the key has ended.
FaultTurn(c) == TRUE
Turn(c) == Head(queue[Key(c)]) = c
\* `finally`: the next call of the key may go.
FaultLeave(c, how) ==
    /\ pc' = [pc EXCEPT ![c] = how]
    /\ queue' = IF how = "done" THEN [queue EXCEPT ![Key(c)] = Tail(@)] ELSE queue
Leave(c, how) ==
    /\ pc' = [pc EXCEPT ![c] = how]
    /\ queue' = [queue EXCEPT ![Key(c)] = Tail(@)]

\* An edit without edits is refused before the queue.
Enter(c) ==
    /\ pc[c] = "idle"
    /\ \E r \in Requests :
        /\ req' = [req EXCEPT ![c] = r]
        /\ IF r.tool = "edit" /\ r.edits = <<>>
           THEN pc' = [pc EXCEPT ![c] = "failed"] /\ UNCHANGED queue
           ELSE /\ pc' = [pc EXCEPT ![c] = "queued"]
                /\ queue' = [queue EXCEPT ![KeyOf[r.name]] = Append(@, c)]
    /\ UNCHANGED <<file, last, work, tmp, bounds>>

\* An edit of a file that is not there, or a name outside of the worktree, fails.
Begin(c) ==
    /\ pc[c] = "queued" /\ Turn(c)
    /\ IF Target(c) = None \/ (req[c].tool = "edit" /\ file[Target(c)] = None)
       THEN Leave(c, "failed") /\ UNCHANGED work
       ELSE /\ pc' = [pc EXCEPT ![c] = IF req[c].tool = "edit" THEN "reading" ELSE "writing"]
            /\ work' = [work EXCEPT ![c].text = req[c].text]
            /\ UNCHANGED queue
    /\ UNCHANGED <<file, last, req, tmp, bounds>>

\* The text an edit read decides what it writes, or that it fails.
Read(c) ==
    /\ pc[c] = "reading"
    /\ LET raw == file[Target(c)]
           new == IF raw = None THEN None ELSE Edited(raw, req[c].edits)
       IN IF new = None THEN Leave(c, "failed") /\ UNCHANGED work
          ELSE /\ work' = [work EXCEPT ![c] = [from |-> last[Target(c)], seen |-> raw, text |-> new]]
               /\ pc' = [pc EXCEPT ![c] = "writing"] /\ UNCHANGED queue
    /\ UNCHANGED <<file, last, req, tmp, bounds>>

\* writeFile: a temporary file beside the target, filled, then renamed over it.
FaultOpen(c) ==
    /\ pc[c] = "writing"
    /\ pc' = [pc EXCEPT ![c] = "renaming"] /\ tmp' = [tmp EXCEPT ![c] = "partial"]
    /\ UNCHANGED <<file, last, queue, req, work, bounds>>
Open(c) ==
    /\ pc[c] = "writing"
    /\ pc' = [pc EXCEPT ![c] = "filling"] /\ tmp' = [tmp EXCEPT ![c] = "partial"]
    /\ UNCHANGED <<file, last, queue, req, work, bounds>>
Fill(c) ==
    /\ pc[c] = "filling"
    /\ pc' = [pc EXCEPT ![c] = "renaming"] /\ tmp' = [tmp EXCEPT ![c] = "whole"]
    /\ UNCHANGED <<file, last, queue, req, work, bounds>>
Contents(c) ==
    IF tmp[c] = "whole" THEN work[c].text ELSE SubSeq(work[c].text, 1, Len(work[c].text) \div 2)
Rename(c) ==
    /\ pc[c] = "renaming"
    /\ file' = [file EXCEPT ![Target(c)] = Contents(c)]
    /\ last' = [last EXCEPT ![Target(c)] = c]
    /\ tmp' = [tmp EXCEPT ![c] = None]
    /\ Leave(c, "done")
    /\ UNCHANGED <<req, work, bounds>>

\* An await inside the queue rejects: the call is told, the temporary file may stay.
OperationFails(c) ==
    /\ c \in Inside /\ faults < MaxFaults /\ faults' = faults + 1
    /\ Leave(c, "failed")
    /\ UNCHANGED <<file, last, req, work, tmp, commands>>

\* A command of the agent writes or removes a file as it pleases.
Command ==
    /\ commands < MaxCommands /\ commands' = commands + 1
    /\ \E f \in Files, t \in Outputs :
        file' = [file EXCEPT ![f] = t] /\ last' = [last EXCEPT ![f] = "command"]
    /\ UNCHANGED <<queue, pc, req, work, tmp, faults>>

\* The daemon dies; no call of it is made again.
Crash ==
    /\ \E c \in Calls : pc[c] = "queued" \/ c \in Inside
    /\ faults < MaxFaults /\ faults' = faults + 1
    /\ pc' = [c \in Calls |-> IF pc[c] = "queued" \/ c \in Inside THEN "dead" ELSE pc[c]]
    /\ queue' = [k \in Keys |-> <<>>]
    /\ UNCHANGED <<file, last, req, work, tmp, commands>>

Advance(c) == Begin(c) \/ Read(c) \/ Open(c) \/ Fill(c) \/ Rename(c)
Next ==
    \/ \E c \in Calls : Enter(c) \/ Advance(c) \/ OperationFails(c)
    \/ Command
    \/ Crash

Spec == Init /\ [][Next]_vars

----------------------------------------------------------------------------
\* The properties

\* One call at a time is past the queue of a key, and it is the one that came first.
Serialized == \A c \in Inside : queue[Key(c)] # <<>> /\ Turn(c)

\* Nobody waits for a call that has ended: whoever is in a queue is waiting or at work,
\* however the calls before it ended.
NeverWedged ==
    \A k \in Keys : \A i \in 1 .. Len(queue[k]) :
        LET c == queue[k][i] IN (pc[c] = "queued" \/ c \in Inside) /\ Key(c) = k

\* A file holds the whole text of the call that wrote it last: a reader, or the next
\* daemon after a crash, never finds half of one.
Whole == \A f \in Files : last[f] \in Calls => file[f] = work[last[f]].text

\* What an edit is meant to do to a file whose line ends agree: every old text is
\* found once, on its own, in the file as it was, and replaced there at once; every
\* other token, mark and line end stays.
Uniform(s) == \A i, j \in EndsOf(s) : s[i] = s[j]
Direct(raw, edits) ==
    LET in(s) == WithEnds(s, Ending(raw))
        at == [k \in DOMAIN edits |-> CHOOSE i \in Places(raw, in(edits[k].old)) : TRUE]
        covers(k, p) == at[k] <= p /\ p < at[k] + Len(edits[k].old)
        piece(p) ==
            IF \E k \in DOMAIN edits : at[k] = p THEN in(edits[CHOOSE k \in DOMAIN edits : at[k] = p].new)
            ELSE IF \E k \in DOMAIN edits : covers(k, p) THEN <<>> ELSE <<raw[p]>>
    IN FlattenSeq([p \in DOMAIN raw |-> piece(p)])
Exact(raw, edits) ==
    \A k \in DOMAIN edits : Places(raw, WithEnds(edits[k].old, Ending(raw))) # {}
EditsAreLocal ==
    \A c \in Calls : work[c].seen # None /\ Uniform(work[c].seen) /\ Exact(work[c].seen, req[c].edits)
                     => work[c].text = Direct(work[c].seen, req[c].edits)

\* The tools keep the files of a worktree: calls under one key take turns and none of
\* them waits for ever, a file is never half written, and an edit changes what it names
\* and nothing else (withFileMutationQueue, writeFile, applyEditsToNormalizedContent).
FileToolsSound == Serialized /\ NeverWedged /\ Whole /\ EditsAreLocal

\* No update is lost: an edit lands on the text it read, unless a command wrote the
\* file since, or a call that reached it under another key did.
LandsOn(c) ==
    LET w == last[Target(c)]
    IN w = work[c].from \/ w = "command" \/ (w \in Calls /\ Key(w) # Key(c))
NoUpdateLost == [][\A c \in Calls : req[c] # None /\ req[c].tool = "edit" /\ Rename(c) => LandsOn(c)]_vars

\* What the comment on withFileMutationQueue says (path-utils.ts:87-89): mutations of
\* one file take turns, symbolic links included.
OneMutationPerFile == \A c, d \in Inside : Target(c) = Target(d) => c = d
=============================================================================
