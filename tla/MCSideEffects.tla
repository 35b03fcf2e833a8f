---------------------------- MODULE MCSideEffects ----------------------------
(* What steps do outside the store, on small instances. Two tool nodes: the *)
(* first has no fail edge, the second loops back to it; the constants of    *)
(* the cfg leave the loop uncounted, and heals may spend their SQLITE_BUSY  *)
(* budget; C counts the loop, and its heals go through. Beside them the     *)
(* tools of the agent: two calls that write and edit one file under its     *)
(* names, a file read by pages, the output of commands, searches and        *)
(* listings, and three fetches of four addresses.                           *)
EXTENDS SideEffects

CONSTANT None

LoopBack == [n \in Nodes |-> IF n = NumNodes THEN 1 ELSE 0]

VARIABLES
    part,   \* the instance this behaviour runs
    cStatus, cNode, cIter, cTimeouts, cIntents, cSettled, cPc, cSignal, cResult, cStreak,
    cDaemon, cCalls, cCrashes, cOpen, cLost, cResolved, cSkipped,
    ftFile, ftLast, ftQueue, ftPc, ftReq, ftWork, ftTmp, ftCommands, ftFaults,
    toTool, toLines, toNext, toShown, toEnded, toSent, toKept, toSpill, toResult,
    toListing,
    wfNow, wfCache, wfWrites, wfCall

cVars == <<cStatus, cNode, cIter, cTimeouts, cIntents, cSettled, cPc, cSignal, cResult, cStreak,
           cDaemon, cCalls, cCrashes, cOpen, cLost, cResolved, cSkipped>>
ftVars == <<ftFile, ftLast, ftQueue, ftPc, ftReq, ftWork, ftTmp, ftCommands, ftFaults>>
toVars == <<toTool, toLines, toNext, toShown, toEnded, toSent, toKept, toSpill, toResult,
            toListing>>
wfVars == <<wfNow, wfCache, wfWrites, wfCall>>
allVars == <<part, vars, cVars, ftVars, toVars, wfVars>>

C == INSTANCE SideEffects WITH
         MaxRetries <- 1, HealMayFail <- FALSE,
         status <- cStatus, node <- cNode, iter <- cIter, timeouts <- cTimeouts, intents <- cIntents,
         settled <- cSettled, pc <- cPc, signal <- cSignal, result <- cResult, streak <- cStreak,
         daemon <- cDaemon, calls <- cCalls, crashes <- cCrashes, open <- cOpen, lost <- cLost,
         resolved <- cResolved, skipped <- cSkipped

\* One file under an absolute name, a relative one, and one through a link. The absolute
\* names are resolved by the daemon as by the worktree, the relative one is not.
ToolFileOf == [abs |-> "f", sym |-> "f", rel |-> "f"]
ToolKeyOf == [abs |-> "k", sym |-> "k", rel |-> "d"]
ToolTokens == {"a", "b", "x", "y", "q", "Q", "lf", "crlf", "bom"}
\* Fuzzy matching takes a typographic quote for a plain one.
ToolPlain == [t \in ToolTokens |-> IF t = "q" THEN "Q" ELSE t]
EditOf(old, new) == [old |-> old, new |-> new]
EditBy(n, edits) == [tool |-> "edit", name |-> n, text |-> <<>>, edits |-> edits]
\* Two edits at once, one across a line end, one that needs a fuzzy match, and a write.
ToolRequests ==
    {EditBy(n, e) : n \in {"abs", "rel"},
                    e \in {<<EditOf(<<"a">>, <<"x", "lf">>), EditOf(<<"b">>, <<>>)>>, <<EditOf(<<"b", "lf">>, <<"y">>)>>}}
    \union {EditBy("sym", <<EditOf(<<"Q">>, <<"a", "a">>)>>),
            [tool |-> "write", name |-> "sym", text |-> <<"a", "a">>, edits |-> <<>>]}
ToolStarts ==
    {None, <<"bom", "a", "crlf", "b", "crlf">>, <<"a", "lf", "q">>, <<"a", "lf", "b", "lf", "b", "crlf">>}
ToolOutputs == {None, <<"b", "lf", "Q">>}

F == INSTANCE FileTools WITH
         Calls <- {"c1", "c2"}, Names <- {"abs", "sym", "rel"}, Files <- {"f"},
         Keys <- {"k", "d"}, FileOf <- ToolFileOf, KeyOf <- ToolKeyOf,
         Tokens <- ToolTokens, Plain <- ToolPlain, Requests <- ToolRequests,
         Starts <- ToolStarts, Outputs <- ToolOutputs, MaxCommands <- 1, MaxFaults <- 1,
         None <- None, file <- ftFile, last <- ftLast, queue <- ftQueue, pc <- ftPc,
         req <- ftReq, work <- ftWork, tmp <- ftTmp, commands <- ftCommands,
         faults <- ftFaults

ASSUME FileToolsAssumption == F!FileToolsAssumption

\* Files with empty lines, with lines at and over the limit of bytes, and with one line
\* end more than text.
OutputFiles == {<<0>>, <<1, 0, 4, 1>>, <<1, 1, 1, 0>>, <<2, 1, 2>>, <<0, 0, 0, 0, 0>>, <<5, 5>>}
OutputChunks == {<<0>>, <<1>>, <<2>>, <<5>>, <<0, 0>>}
Met(skip, hits) == [skip |-> skip, hits |-> hits]
OutputWalks == {<<Met(TRUE, 2), Met(FALSE, 1)>>, <<Met(FALSE, 2), Met(FALSE, 0), Met(FALSE, 2)>>}

O == INSTANCE ToolOutput WITH
         TextFiles <- OutputFiles, Limits <- {None, 0, 1, 3}, Chunks <- OutputChunks,
         Walks <- OutputWalks, MaxBytes <- 3, MaxLines <- 2, MaxChunks <- 4,
         None <- None, tool <- toTool, lines <- toLines, next <- toNext,
         shown <- toShown, ended <- toEnded, sent <- toSent, kept <- toKept,
         spill <- toSpill, result <- toResult, listing <- toListing

ASSUME ToolOutputAssumption == O!ToolOutputAssumption

\* Two addresses of one host, one of another, and a private one.
FetchHosts == [u \in {"a1", "a2", "b", "p"} |-> IF u \in {"a1", "a2"} THEN "A" ELSE "B"]

W == INSTANCE WebFetch WITH
         Calls <- {1, 2, 3}, Urls <- {"a1", "a2", "b", "p"}, Hosts <- {"A", "B"},
         HostOf <- FetchHosts, Refused <- {"p"}, MaxCache <- 2, MaxHops <- 1, Ttl <- 0,
         MaxTime <- 1, None <- None, now <- wfNow, cache <- wfCache, writes <- wfWrites,
         call <- wfCall

ASSUME WebFetchAssumption == W!WebFetchAssumption

\* A component with several initial states stays in one of them while another runs.
ftIdle == F!Init /\ \A f \in {"f"} : ftFile[f] = None
toIdle == O!Init /\ toTool = "read" /\ toLines = <<0>>

EffectsInit ==
    \/ part \in {"busy", "counted", "fetch"} /\ ftIdle /\ toIdle /\ W!Init /\ C!Init /\ Init
    \/ part = "files" /\ Init /\ C!Init /\ toIdle /\ W!Init /\ F!Init
    \/ part = "output" /\ Init /\ C!Init /\ ftIdle /\ W!Init /\ O!Init

EffectsNext ==
    \/ part = "busy" /\ Next /\ UNCHANGED <<part, cVars, ftVars, toVars, wfVars>>
    \/ part = "counted" /\ C!Next /\ UNCHANGED <<part, vars, ftVars, toVars, wfVars>>
    \/ part = "files" /\ F!Next /\ UNCHANGED <<part, vars, cVars, toVars, wfVars>>
    \/ part = "output" /\ O!Next /\ UNCHANGED <<part, vars, cVars, ftVars, wfVars>>
    \/ part = "fetch" /\ W!Next /\ UNCHANGED <<part, vars, cVars, ftVars, toVars>>

EffectsFairness ==
    /\ WF_cVars(part = "counted" /\ C!Boot)
    /\ WF_cVars(part = "counted" /\ C!HealQuarantine)
    /\ WF_cVars(part = "counted" /\ C!HealRequeue)

EffectsSpec == EffectsInit /\ [][EffectsNext]_allVars /\ EffectsFairness

-------------------------------------------------------------------------------
\* When every heal goes through, a call whose outcome a daemon lost is brought to
\* the operator, or its run has ended otherwise, as long as a daemon boots again.
LostCallsReachOperator == part = "counted" => C!OrphansReachOperator

\* Mutations of one key run one at a time in the order of asking, nobody waits for a
\* call that has ended, a file is never half of what a call wrote, and an edit changes
\* what it matched and nothing else.
FileToolsSound == part = "files" => F!FileToolsSound

\* An edit replaces the text it read, unless a command of the agent, or a call that
\* knows the file by another key, wrote the file since.
NoUpdateLost == F!NoUpdateLost

\* Pages of a file lead on to the next without gap or repetition, the tail of
\* a command's output is the tail it claims to be, and a search that leaves
\* something out says so.
OutputSound == part = "output" => O!OutputSound

\* A page from the cache is a page of the host that was asked for and no
\* older than the cache allows, and the cache is bounded, although calls
\* overlap.
FetchSound == part = "fetch" => W!FetchSound

\* The tools of the agent do what they report: the three above.
ToolsSound == FileToolsSound /\ OutputSound /\ FetchSound

=============================================================================
