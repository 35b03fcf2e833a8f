------------------------------- MODULE MCSteps --------------------------------
(* The turn loop and what its steps do, on small instances: a run of four   *)
(* steps with a goal gate, authored workflows and the walks over them, the  *)
(* dominator computation over every graph of four nodes, typed outputs and  *)
(* inputs, the judge, MCP servers and their logins. The constants of the    *)
(* configuration are those of Dispatch.                                     *)
EXTENDS Dispatch, SequencesExt

VARIABLES
    part,   \* the component this behaviour runs
    wfProg, wfGraph, wfCodes, wfStatus, wfAt, wfOpen, wfActive, wfRan, wfEmitted,
    wfGates, wfRetargets, wfTurns,
    domSucc, domPc, domStack, domSeen, domRpo, domIdom, domI, domChanged, domSweeps,
    domEnter, domExit, domClock,
    tvDecl, tvEmitted, tvAccepted, tvInput, tvBound,
    jdCfg, jdItems, jdSetup, jdPc, jdPlan, jdAt, jdAttempt, jdAnswers, jdResult,
    mpConn, mpPool, mpConnecting, mpStep, mpReleases, mpShutDown, mpCred, mpListing,
    lgRow, lgLogin, lgNonce, lgGrant, lgExpired, lgCopy, lgShown, lgCompleted, lgCode

wfVars == <<
    wfProg, wfGraph, wfCodes, wfStatus, wfAt, wfOpen, wfActive, wfRan, wfEmitted,
    wfGates, wfRetargets, wfTurns>>
domVars == <<
    domSucc, domPc, domStack, domSeen, domRpo, domIdom, domI, domChanged, domSweeps,
    domEnter, domExit, domClock>>
tvVars == <<
    tvDecl, tvEmitted, tvAccepted, tvInput, tvBound>>
jdVars == <<
    jdCfg, jdItems, jdSetup, jdPc, jdPlan, jdAt, jdAttempt, jdAnswers, jdResult>>
mpVars == <<
    mpConn, mpPool, mpConnecting, mpStep, mpReleases, mpShutDown, mpCred, mpListing>>
lgVars == <<
    lgRow, lgLogin, lgNonce, lgGrant, lgExpired, lgCopy, lgShown, lgCompleted, lgCode>>
allVars == <<part, vars, wfVars, domVars, tvVars, jdVars, mpVars, lgVars>>

\* Work behind a gate: a step that fails into its fixer, a gate with a retarget, an
\* open end.
LinearSteps == {"work", "fix", "gate", "wrap"}
AfterSuccess == [work |-> "gate", fix |-> "work", gate |-> "wrap", wrap |-> "exit"]
AfterFailure == [work |-> "fix", fix |-> "exit", gate |-> "exit", wrap |-> None]
BackToWork == [gate |-> "work"]
RetriesOf == [work |-> 1, fix |-> 0, gate |-> 1, wrap |-> 0]

\* Authored workflows of four steps.
AuthoredOrder == <<"s1", "s2", "s3", "s4">>

\* The bodies' shapes need no programs.
Body == INSTANCE Workflow WITH
         Order <- AuthoredOrder, Programs <- {}, GateCap <- 1, MaxTurns <- 6, None <- None,
         prog <- wfProg, graph <- wfGraph, codes <- wfCodes, status <- wfStatus, at <- wfAt, open <- wfOpen,
         active <- wfActive, ran <- wfRan, emitted <- wfEmitted, gates <- wfGates, retargets <- wfRetargets, turns <- wfTurns

To(t)        == [Body!Plain EXCEPT !.next = t]
On(s, f)     == [Body!Plain EXCEPT !.dirs = {"on"}, !.success = s, !.fail = f]
By(y, t, u)  == [Body!Plain EXCEPT !.type = y, !.dirs = {"routes"}, !.routes = [r1 |-> t, r2 |-> u]]
Fork(bs, j)  == [Body!Plain EXCEPT !.type = "parallel", !.branches = bs, !.next = j]
Judge(t, u, os, b) == [By("judge", t, u) EXCEPT !.decide = "route", !.options = os, !.below = b]
Gated(t, r)  == [To(t) EXCEPT !.retry = r, !.capped = TRUE]
Emit(f)      == [f EXCEPT !.emits = TRUE, !.export = TRUE]
Reading(f, x) == [f EXCEPT !.reads = x]

\* every body against every body, well-formed or not
Mixed ==
    LET S1 == {To("s2"), On("s2", "s3"), On(None, "s2"), By("llm", "s3", "s2"), By("human", "s4", "s2"),
               Fork(<<"s2", "s2">>, "s4"), [To("s2") EXCEPT !.dirs = {"next", "on"}]}
        S2 == {Emit(To("s4")), Emit(On("s3", "s1")), Gated("s4", "s3"), Gated("exit", "s4"),
               [To("exit") EXCEPT !.retry = "s1"], [Body!Plain EXCEPT !.rawTarget = "s1"], To("ghost"), On("s2", "s3"),
               Judge("s3", "s4", {"r1"}, "r2"), Judge("s3", "s4", {"r1", "r3"}, None)}
        S3 == {Emit(To("s4")), Emit(On("exit", "s2")), To("s2"), To("s3"), On(None, "s4"),
               Judge("s4", "s2", {"r1", "r2"}, None), [Body!Plain EXCEPT !.type = "human"], Reading(To("s4"), "s2")}
        S4 == {To("exit"), Reading(To("exit"), "s2"), Reading(To("exit"), "s3"), To("s2"),
               [Body!Plain EXCEPT !.type = "exit", !.dirs = {}]}
    IN S1 \X S2 \X S3 \X S4

\* a fork of s2 and s3, or of s2 and s4 with the chain s4 -> s3 -> join
Forked ==
    LET S1 == {Fork(<<"s2", "s3">>, "s4"), Fork(<<"s2", "s3">>, "exit"), Fork(<<"s2", "s4">>, "exit")}
        S2 == {Emit(To("s4")), Emit(On("s4", "s2")), Emit(On("s4", "s3")), Emit(To("exit")), Gated("s4", "s4"),
               [To("s4") EXCEPT !.write = TRUE], Judge("s4", "s2", {"r1"}, "r2")}
        S3 == {Emit(To("s4")), Emit(To("exit")), [To("s4") EXCEPT !.thread = TRUE], Reading(To("s4"), "s2"),
               Gated("s4", "s2")}
        S4 == {To("exit"), Reading(To("exit"), "s2"), Reading(To("exit"), "s3"), On("exit", "s1"), On("exit", "s2"),
               Emit(To("s3"))}
    IN S1 \X S2 \X S3 \X S4

AuthoredPrograms == {[s \in Body!Steps |-> t[CHOOSE i \in 1 .. 4 : AuthoredOrder[i] = s]] : t \in Mixed \cup Forked}

\* a workflow that parses and that the validator refuses
Rejected == CHOOSE p \in AuthoredPrograms : p["s2"] = To("ghost") /\ \A s \in Body!Steps : ~Body!Unparsable(p[s])

W == INSTANCE Workflow WITH
         Order <- AuthoredOrder, Programs <- AuthoredPrograms, GateCap <- 1,
         MaxTurns <- 6, None <- None, prog <- wfProg, graph <- wfGraph,
         codes <- wfCodes, status <- wfStatus, at <- wfAt, open <- wfOpen,
         active <- wfActive, ran <- wfRan, emitted <- wfEmitted, gates <- wfGates,
         retargets <- wfRetargets, turns <- wfTurns

D == INSTANCE Dominance WITH
         Ids <- <<"start", "a", "b", "c">>, succ <- domSucc, pc <- domPc,
         stack <- domStack, seen <- domSeen, rpo <- domRpo, idom <- domIdom, i <- domI,
         changed <- domChanged, sweeps <- domSweeps, enter <- domEnter, exit <- domExit,
         clock <- domClock

\* Declarations as they are written, values as they are emitted, and inputs: every
\* shape two fields and one level of nesting allow.
NoFields == [k \in {} |-> None]
RawOf(t) == [type |-> t, options |-> {}, fields |-> NoFields, optional |-> FALSE, listed |-> FALSE, required |-> {},
             items |-> <<>>, banned |-> FALSE]
RawLeaves ==
    {RawOf("string"), RawOf("number"), RawOf("date"), [RawOf("choice") EXCEPT !.options = {"p"}],
     [RawOf("choice") EXCEPT !.options = {"p", "#"}], [RawOf("string") EXCEPT !.banned = TRUE]}
RawFields ==
    {RawOf("number"), [RawOf("number") EXCEPT !.optional = TRUE], [RawOf("string") EXCEPT !.banned = TRUE],
     [RawOf("choice") EXCEPT !.options = {"p"}, !.optional = TRUE]}
RawRecords ==
    LET fields == [{"x", "y"} -> RawFields] \cup [{"x"} -> RawFields]
    IN {[RawOf("record") EXCEPT !.fields = f] : f \in fields}
       \cup {[RawOf("record") EXCEPT !.fields = f, !.listed = TRUE, !.required = l] :
               f \in fields, l \in {{}, {"x"}, {"y"}}}
RawNested == {[RawOf("record") EXCEPT !.fields = [k \in {"x"} |-> [r EXCEPT !.optional = o]]] : r \in RawRecords, o \in BOOLEAN}
RawArrays == {[RawOf("array") EXCEPT !.items = q] : q \in {<<>>} \cup {<<r>> : r \in RawLeaves}}
RawDeclarations == RawLeaves \cup RawRecords \cup RawArrays \cup RawNested \cup {[RawOf("string") EXCEPT !.optional = TRUE]}

ValueOf(t, v) == [t |-> t, v |-> v, f |-> NoFields, s |-> <<>>]
ObjectOf(f) == [ValueOf("record", "") EXCEPT !.f = f]
FewValues == {ValueOf("string", "p"), ValueOf("number", "1"), ValueOf("null", "")}
LeafValues ==
    FewValues \cup {ValueOf("string", v) : v \in {"1", "1e0", "1e999", "true", "[]"}}
              \cup {ValueOf("number", "inf"), ValueOf("boolean", "true")}
Shallow == {ObjectOf(f) : f \in UNION {[d -> FewValues] : d \in SUBSET {"x", "y"}}}
EmittedValues ==
    LeafValues \cup Shallow \cup {ObjectOf([k \in {"x"} |-> v]) : v \in Shallow}
               \cup {[ValueOf("array", "") EXCEPT !.s = q] : q \in {<<>>} \cup {<<v>> : v \in FewValues}}
ReadPaths == {<<>>, <<"x">>, <<"y">>, <<"x", "x">>, <<"x", "y">>}

ProfileOf(kind) == [kind |-> kind, options |-> {}, fields |-> NoFields, required |-> {}, items |-> <<>>]
InputOf(t) == [type |-> t, required |-> FALSE, default |-> ValueOf("undefined", ""), options |-> {"p"}, profile |-> ProfileOf("error")]
InputDeclarations ==
    {[InputOf(t) EXCEPT !.required = q, !.default = d] :
        t \in {"string", "number", "boolean", "choice"}, q \in BOOLEAN, d \in {ValueOf("undefined", ""), ValueOf("string", "1")}}
    \cup {[InputOf("array") EXCEPT !.required = q, !.profile = [ProfileOf("array") EXCEPT !.items = <<ProfileOf("number")>>]] : q \in BOOLEAN}
    \cup {[InputOf("record") EXCEPT !.profile =
             [ProfileOf("record") EXCEPT !.fields = [k \in {"x"} |-> ProfileOf("number")], !.required = {"x"}]]}

Y == INSTANCE TypedValues WITH
         Raws <- RawDeclarations, Values <- EmittedValues, Paths <- ReadPaths,
         Inputs <- InputDeclarations, None <- None, decl <- tvDecl,
         emitted <- tvEmitted, accepted <- tvAccepted, input <- tvInput,
         bound <- tvBound

\* What is judged, by which rules, under which limits of the provider.
Between(q, a, b) == [question |-> q, min |-> a, max |-> b]
JudgeItems ==
    {[size |-> 1, n |-> 0, s |-> 2, choice |-> "a", confidence |-> 0, probability |-> 2], [size |-> 2, n |-> 1, s |-> 0, choice |-> "b", confidence |-> 2, probability |-> 1],
     [size |-> 1, n |-> 2, s |-> 0, choice |-> "z", confidence |-> 2, probability |-> 2], [size |-> 3, n |-> 2, s |-> 2, choice |-> "b", confidence |-> 1, probability |-> 2]}
JudgeList == [mode |-> "list", keep |-> {}, review |-> {}, rules |-> {}, floor |-> None, share |-> None, below |-> None, routes |-> {}]
JudgeConfigs ==
    {JudgeList, [JudgeList EXCEPT !.mode = "tool"], [JudgeList EXCEPT !.mode = "outcome"],
     [JudgeList EXCEPT !.keep = {Between("n", 2, None)}], [JudgeList EXCEPT !.keep = {Between("n", 2, 1)}],
     [JudgeList EXCEPT !.keep = {Between("n", 1, None), Between("c", 1, None)}, !.review = {Between("n", None, 1)}],
     [JudgeList EXCEPT !.mode = "outcome", !.rules = {Between("c", 1, None)}],
     [JudgeList EXCEPT !.mode = "route", !.routes = {"a", "b", "low"}, !.floor = 1, !.below = "low"],
     [JudgeList EXCEPT !.mode = "route", !.routes = {"a", "b", "low"}, !.floor = 1, !.share = 2, !.below = "low"],
     [JudgeList EXCEPT !.mode = "route", !.routes = {"a", "b"}],
     [JudgeList EXCEPT !.mode = "route", !.routes = {"a", "b"}, !.floor = 1]}
JudgeSetups ==
    {[base |-> [request |-> 7, state |-> 5], row |-> None, model |-> None],
     [base |-> None, row |-> [request |-> 0, state |-> 4], model |-> None],
     [base |-> [request |-> 7, state |-> 5], row |-> [request |-> 0, state |-> 4], model |-> [request |-> 9, state |-> 0]]}

J == INSTANCE Judge WITH
         Items <- JudgeItems, Configs <- JudgeConfigs, Setups <- JudgeSetups,
         MaxItems <- 3, MaxAttempts <- 2, None <- None, cfg <- jdCfg, items <- jdItems,
         setup <- jdSetup, pc <- jdPc, plan <- jdPlan, at <- jdAt, attempt <- jdAttempt,
         answers <- jdAnswers, result <- jdResult

\* What a server lists: two names that slug alike, or one; and what a step admits.
McpListings == {<<"x2", "x1">>, <<"y1">>}
McpGates == {[allow |-> {"x"}, deny |-> {}], [allow |-> {"r", "y"}, deny |-> {"x"}], [allow |-> {"r", "z"}, deny |-> {}]}

P == INSTANCE Mcp WITH
         Steps <- {"s1", "s2"}, Nodes <- {"n"}, Ids <- {1, 2}, Creds <- {"k1"},
         Listings <- McpListings, Gates <- McpGates, Registry <- {"r"}, None <- None,
         conn <- mpConn, pool <- mpPool, connecting <- mpConnecting, step <- mpStep,
         releases <- mpReleases, shutDown <- mpShutDown, cred <- mpCred,
         listing <- mpListing

ASSUME McpAssumption == P!McpAssumption

L == INSTANCE McpLogin WITH
         Clients <- {"good", "bad"}, Genuine <- {"good"}, MaxNonces <- 4,
         MaxGrants <- 4, None <- None, row <- lgRow, login <- lgLogin, nonce <- lgNonce,
         grant <- lgGrant, expired <- lgExpired, copy <- lgCopy, shown <- lgShown,
         completed <- lgCompleted, code <- lgCode

ASSUME McpLoginAssumption == L!McpLoginAssumption

\* A component with several initial states stays in one of them while another runs.
wfIdle == W!Init /\ wfProg = Rejected
domIdle == D!Init /\ \A n \in DOMAIN domSucc : domSucc[n] = <<>>
jdIdle == J!Init /\ jdItems = <<>> /\ jdCfg = JudgeList /\ jdSetup.base = None
mpIdle == P!Init /\ mpListing = <<"y1">>

StepsInit ==
    \/ part = "dispatch" /\ wfIdle /\ domIdle /\ Y!Init /\ jdIdle /\ mpIdle /\ L!Init /\ Init
    \/ part = "workflow" /\ Init /\ domIdle /\ Y!Init /\ jdIdle /\ mpIdle /\ L!Init /\ W!Init
    \/ part = "dominance" /\ Init /\ wfIdle /\ Y!Init /\ jdIdle /\ mpIdle /\ L!Init /\ D!Init
    \/ part = "typed" /\ Init /\ wfIdle /\ domIdle /\ jdIdle /\ mpIdle /\ L!Init /\ Y!Init
    \/ part = "judge" /\ Init /\ wfIdle /\ domIdle /\ Y!Init /\ mpIdle /\ L!Init /\ J!Init
    \/ part = "mcp" /\ Init /\ wfIdle /\ domIdle /\ Y!Init /\ jdIdle /\ L!Init /\ P!Init
    \/ part = "login" /\ Init /\ wfIdle /\ domIdle /\ Y!Init /\ jdIdle /\ mpIdle /\ L!Init

StepsNext ==
    \/ part = "dispatch" /\ Next /\ UNCHANGED <<part, wfVars, domVars, tvVars, jdVars, mpVars, lgVars>>
    \/ part = "workflow" /\ W!Next /\ UNCHANGED <<part, vars, domVars, tvVars, jdVars, mpVars, lgVars>>
    \/ part = "dominance" /\ D!Next /\ UNCHANGED <<part, vars, wfVars, tvVars, jdVars, mpVars, lgVars>>
    \/ part = "typed" /\ Y!Next /\ UNCHANGED <<part, vars, wfVars, domVars, jdVars, mpVars, lgVars>>
    \/ part = "judge" /\ J!Next /\ UNCHANGED <<part, vars, wfVars, domVars, tvVars, mpVars, lgVars>>
    \/ part = "mcp" /\ P!Next /\ UNCHANGED <<part, vars, wfVars, domVars, tvVars, jdVars, lgVars>>
    \/ part = "login" /\ L!Next /\ UNCHANGED <<part, vars, wfVars, domVars, tvVars, jdVars, mpVars>>

\* Each component's own fairness, while it is the one that runs.
StepsFairness ==
    /\ WF_vars(part = "dispatch" /\ Executor)
    /\ WF_vars(part = "dispatch" /\ Elapse)
    /\ WF_vars(part = "dispatch" /\ AutoWake)

StepsSpec == StepsInit /\ [][StepsNext]_allVars /\ StepsFairness

-------------------------------------------------------------------------------
\* A run that the operator leaves alone ends or parks for the operator.
TurnsSettle == part = "dispatch" => RunSettles

\* A graph the validator accepts can be walked (no outcome without an edge, an exit
\* always in reach, no read before its producer, branches apart), and the interval
\* test its warnings rest on answers "every path from start to n crosses x" for
\* every pair of nodes of every graph.
LanguageSound ==
    /\ part = "workflow" => W!GraphSafe
    /\ part = "dominance" => D!IntervalsAreDominance

\* What a step hands on is what it may: an accepted emission holds every field its
\* readers were promised and an input is of its declared type; and a judge's verdict
\* on an item rests on what the provider said of that item, in whatever chunk.
ResultsHold ==
    /\ part = "typed" => Y!TypedValuesSound
    /\ part = "judge" => J!VerdictIsOwn

\* A step that calls an MCP tool has an open connection with the tools it asked for,
\* no connection outlives its last lease, idle time and shutdown unless the pool lost
\* it; and the row a login leaves behind lets the daemon refresh by itself.
McpSound ==
    /\ part = "mcp" => P!McpServes
    /\ part = "login" => L!LoginSound

===============================================================================
