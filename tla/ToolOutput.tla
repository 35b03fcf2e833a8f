------------------------------ MODULE ToolOutput ------------------------------
(***************************************************************************)
(* What the agent's tools show of a long text (packages/workspace/src/     *)
(* tools.ts, truncate-v2.ts, grep.ts, find.ts, ls.ts): a file read page by *)
(* page along the offsets the notices give, the output of a command kept   *)
(* in a rolling buffer, spilled to a temporary file and cut to its tail,   *)
(* and what a search or a listing leaves out.                              *)
(*                                                                         *)
(* A line is its size in bytes, and a line end takes one more. A chunk of  *)
(* output ends with a line end. A file does not change while it is read.   *)
(***************************************************************************)
EXTENDS Integers, SequencesExt

CONSTANTS TextFiles, \* files, as the sizes of their lines
          Limits,    \* the line limits a reader may ask for; None: no limit
          Chunks,    \* what a command may write at once, as the sizes of its lines
          Walks,     \* the files a walk meets: what is skipped, and the hits of a pattern
          MaxBytes, MaxLines,
          MaxChunks, \* chunks of one command
          None

VARIABLES tool,   \* which tool this behaviour runs
          lines,  \* the file
          next,   \* the offset the reader asks for next; 0: none yet
          shown,  \* the lines it was shown, in order
          ended,  \* a page without a notice was the last one
          sent,   \* the chunks the command wrote
          kept,   \* how many of the newest are in the rolling buffer
          spill,  \* the first chunk in the temporary file; None: no file
          result, \* what the command came back with
          listing \* what a search or a listing returned

vars == <<tool, lines, next, shown, ended, sent, kept, spill, result, listing>>
reading == <<lines, next, shown, ended, listing>>
running == <<sent, kept, spill, result>>

ToolOutputAssumption ==
    /\ \A f \in TextFiles : f \in Seq(Nat) /\ f # <<>>
    /\ \A c \in Chunks : c \in Seq(Nat) /\ c # <<>>
    /\ \A w \in Walks : w \in Seq([skip : BOOLEAN, hits : Nat])
    /\ Limits \subseteq Nat \union {None} /\ None \notin Nat
    /\ MaxBytes \in Nat \ {0} /\ MaxLines \in Nat \ {0} /\ MaxChunks \in Nat

Tools == {"read", "bash", "grep", "find", "ls"}
Listings == [found : Nat, shown : Nat, told : BOOLEAN]
Results == [tail : Nat, cut : BOOLEAN, partial : BOOLEAN, named : BOOLEAN]
TypeOK ==
    /\ tool \in Tools /\ lines \in TextFiles /\ next \in Nat /\ shown \in Seq(Nat)
    /\ ended \in BOOLEAN /\ sent \in Seq(Chunks) /\ kept \in Nat
    /\ spill \in Nat \union {None} /\ (result = None \/ result \in Results)
    /\ (listing = None \/ listing \in Listings)

Init ==
    /\ tool \in Tools
    /\ lines \in TextFiles /\ next = 0 /\ shown = <<>> /\ ended = FALSE
    /\ sent = <<>> /\ kept = 0 /\ spill = None /\ result = None
    /\ listing = None

----------------------------------------------------------------------------
\* Truncation

\* The bytes of lines joined by line ends.
Bytes(ls) == FoldLeft(LAMBDA n, size : n + size + 1, 0, ls) - 1
Newest(n, s) == SubSeq(s, Len(s) - n + 1, Len(s))
Fits(ls) == Bytes(ls) <= MaxBytes /\ Len(ls) <= MaxLines
MostOf(S) == CHOOSE n \in S : \A m \in S : m <= n
Shorter(n) == IF n < MaxLines THEN n ELSE MaxLines

\* truncateHead: how many lines from the front; none when the first alone is too long.
TruncateHead(ls) ==
    IF Fits(ls) THEN Len(ls)
    ELSE IF ls[1] > MaxBytes THEN 0
    ELSE MostOf({n \in 0 .. Shorter(Len(ls)) : Bytes(SubSeq(ls, 1, n)) <= MaxBytes})

\* truncateTail: how many lines from the end; of a last line too long, a part.
TruncateTail(ls) ==
    IF Fits(ls) THEN [tail |-> Len(ls), cut |-> FALSE, partial |-> FALSE]
    ELSE IF ls[Len(ls)] > MaxBytes THEN [tail |-> 1, cut |-> TRUE, partial |-> TRUE]
    ELSE [tail |-> MostOf({n \in 0 .. Shorter(Len(ls)) : Bytes(Newest(n, ls)) <= MaxBytes}),
          cut |-> TRUE, partial |-> FALSE]

----------------------------------------------------------------------------
\* read

\* An absent limit takes the rest of the file; an empty selection is one empty line.
Selected(start, limit) ==
    LET left == Len(lines) - start
        n == IF limit = None \/ limit > left THEN left ELSE limit
    IN SubSeq(lines, start + 1, start + n)
Split(ls) == IF ls = <<>> THEN <<0>> ELSE ls

\* "Use offset=N to continue."
FaultContinueAt(start, n) == start + n
ContinueAt(start, n) == start + n + 1

\* One call of the tool: it shows some lines and names the next offset unless it came
\* to the end of the file.
Page(limit) ==
    /\ tool = "read" /\ ~ended
    /\ LET start == IF next = 0 THEN 0 ELSE next - 1
           page == Selected(start, limit)
           n == TruncateHead(Split(page))
           rest == start + Len(page) < Len(lines)
       IN /\ start < Len(lines)
          /\ ~ (n = 0 /\ page # <<>>)
          /\ LET k == IF n < Len(page) THEN n ELSE Len(page)
             IN /\ shown' = shown \o [i \in 1 .. k |-> start + i]
                /\ IF k < Len(page) \/ rest
                   THEN next' = ContinueAt(start, k) /\ UNCHANGED ended
                   ELSE ended' = TRUE /\ UNCHANGED next
    /\ UNCHANGED <<tool, lines, listing>> /\ UNCHANGED running

\* A line that alone exceeds the limit is shown by the command the notice spells out,
\* and the reader goes on behind it.
SedLine ==
    /\ tool = "read" /\ ~ended
    /\ LET start == IF next = 0 THEN 0 ELSE next - 1
       IN /\ start < Len(lines) /\ lines[start + 1] > MaxBytes
          /\ TruncateHead(Selected(start, None)) = 0
          /\ shown' = Append(shown, start + 1)
          /\ next' = start + 2
          /\ ended' = (start + 1 = Len(lines))
    /\ UNCHANGED <<tool, lines, listing>> /\ UNCHANGED running

----------------------------------------------------------------------------
\* bash

ChunkBytes(c) == Bytes(c) + 1
Weight(cs) == FoldLeft(LAMBDA n, c : n + ChunkBytes(c), 0, cs)
\* The rolling buffer: the oldest chunks go while it weighs more than twice the cap.
FaultTrimmed(cs, n) ==
    MostOf({1} \union {k \in 1 .. n : Weight(Newest(k, cs)) <= MaxBytes})
Trimmed(cs, n) ==
    MostOf({1} \union {k \in 1 .. n : Weight(Newest(k, cs)) <= 2 * MaxBytes})

\* onChunk: the temporary file begins with the chunk that brings the total over the cap.
OnChunk ==
    /\ tool = "bash" /\ result = None /\ Len(sent) < MaxChunks
    /\ \E c \in Chunks :
        /\ sent' = Append(sent, c)
        /\ spill' = IF spill = None /\ Weight(sent') > MaxBytes THEN Len(sent') ELSE spill
        /\ kept' = Trimmed(sent', kept + 1)
    /\ UNCHANGED <<tool, result>> /\ UNCHANGED reading

\* The text of chunks: their lines and, behind the last line end, an empty one.
TextOf(cs) == FlattenSeq(cs) \o <<0>>

\* The command ended: its buffered output is cut to the tail, a notice says so, and it
\* names the temporary file, which is opened now when there was none.
CommandEnds ==
    /\ tool = "bash" /\ result = None
    /\ LET t == TruncateTail(TextOf(Newest(kept, sent)))
       IN /\ result' = IF sent = <<>> THEN [tail |-> 1, cut |-> FALSE, partial |-> FALSE, named |-> FALSE]
                       ELSE [tail |-> t.tail, cut |-> t.cut, partial |-> t.partial, named |-> t.cut]
          /\ spill' = IF spill = None /\ result'.cut THEN Len(sent) + 1 ELSE spill
    /\ UNCHANGED <<tool, sent, kept>> /\ UNCHANGED reading

\* It could not be run: the error is the result and the temporary file is closed.
CommandFails ==
    /\ tool = "bash" /\ result = None
    /\ result' = [tail |-> 0, cut |-> FALSE, partial |-> FALSE, named |-> FALSE]
    /\ UNCHANGED <<tool, sent, kept, spill>> /\ UNCHANGED reading

----------------------------------------------------------------------------
\* grep, find and ls

\* What there is: a search leaves out ignored, binary and large files, a listing nothing.
Found(w) ==
    LET met == SelectSeq(w, LAMBDA f : tool = "ls" \/ ~f.skip)
    IN IF tool = "grep" THEN FoldLeft(LAMBDA n, f : n + f.hits, 0, met) ELSE Len(met)
\* grep stops at the limit, the others when they meet one more.
Told(n, limit) == IF tool = "grep" THEN n >= limit ELSE n > limit
\* The limit a caller may ask for is at least one.
Effective(limit) == IF limit = None THEN MaxLines ELSE IF limit = 0 THEN 1 ELSE limit
List(w, limit) ==
    /\ tool \in {"grep", "find", "ls"} /\ listing = None
    /\ LET n == Found(w) most == Effective(limit)
       IN listing' = [found |-> n, shown |-> IF n < most THEN n ELSE most, told |-> Told(n, most)]
    /\ UNCHANGED <<tool, lines, next, shown, ended>> /\ UNCHANGED running

Next ==
    \/ \E w \in Walks, limit \in Limits : List(w, limit)
    \/ \E limit \in Limits : Page(limit)
    \/ SedLine
    \/ OnChunk \/ CommandEnds \/ CommandFails
Spec == Init /\ [][Next]_vars

----------------------------------------------------------------------------
\* The properties

\* Following the offsets of the notices shows every line of the file once and in order,
\* whatever limits the reader asks for, and the last page is told from the others.
PagesCover ==
    /\ shown = [i \in 1 .. Len(shown) |-> i]
    /\ next # 0 /\ ~ended => next = Len(shown) + 1
    /\ ended <=> Len(shown) = Len(lines)

Ended == tool = "bash" /\ result # None /\ result.tail # 0 /\ sent # <<>>
\* The tail of a command's output is that of the whole output although the buffer drops
\* its oldest chunks, as long as no single chunk is larger than the cap; and it is within
\* the caps whatever the chunks.
TailIsTrue ==
    Ended =>
        LET whole == TextOf(sent)
        IN /\ result.partial \/ (result.tail <= MaxLines /\ Bytes(Newest(result.tail, whole)) <= MaxBytes)
           /\ (\A i \in DOMAIN sent : ChunkBytes(sent[i]) <= MaxBytes)
              => /\ result.tail = TruncateTail(whole).tail
                 /\ result.cut = TruncateTail(whole).cut

\* A search or a listing that leaves something out says that it stopped.
OmissionsAreTold == listing # None /\ listing.shown < listing.found => listing.told

\* A long text is shown so that its reader can tell what is missing: pages of a file
\* lead on to the next without gap or repetition, and the tail of a command's output is
\* the tail it claims to be (truncateHead, truncateTail, the rolling buffer).
OutputSound == PagesCover /\ TailIsTrue /\ OmissionsAreTold

\* What the description of the bash tool says (tools.ts:334): output that was cut says
\* so in a notice.
CutIsTold == Ended /\ result.tail < Len(TextOf(sent)) => result.cut

\* What the description of the bash tool says (tools.ts:334): when output was cut, the
\* file the notice names has the full transcript.
SpillIsFull == Ended /\ result.named => spill = 1
=============================================================================
