-------------------------------- MODULE Mcp --------------------------------
(***************************************************************************)
(* MCP tools of an llm step: which tools the step gets, and the pool of    *)
(* connections behind them (packages/workspace/src/mcp/connector.ts,       *)
(* config.ts, packages/agent/src/tool-assembly.ts).                        *)
(*                                                                         *)
(* Connections are pooled under a key of run, node, server and resolved    *)
(* configuration, so a rotated credential opens a new one. A step holds a  *)
(* lease; an entry nobody leases closes when its idle timer fires. An      *)
(* entry also closes when its node is released, at shutdown, when the      *)
(* server goes away, and when a step that wants to reuse it cannot reach   *)
(* it. Every await is a point where another step may run.                  *)
(***************************************************************************)
EXTENDS Integers, Sequences, FiniteSets, SequencesExt, FiniteSetsExt

CONSTANTS Steps,        \* dispatches of llm steps that may overlap
          Nodes,        \* nodes of the run
          Ids,          \* connections that may exist at once
          Creds,        \* values of the variable the server's entry refers to
          Listings,     \* tools/list answers: sequences of raw tool names
          Gates,        \* allowed-tools and denied-tools of a step
          Registry,     \* tools registered at the daemon
          None

VARIABLES conn,       \* connections: phase, key, leases, stale, idle timer, descriptors
          pool,       \* pool entries by key
          connecting, \* connects under way, by key
          step,       \* the steps: where, under which key, on which connection, tools
          releases,   \* releases that wait for connects to settle
          shutDown,
          cred,       \* the variable's value in the project's environment, or None
          listing     \* what the server lists now

vars == <<conn, pool, connecting, step, releases, shutDown, cred, listing>>
outside == <<releases, shutDown, cred, listing>>

Keys == Nodes \X Creds
NoConn == [phase |-> "closed", key |-> None, leases |-> 0, stale |-> FALSE, timer |-> FALSE, tools |-> <<>>]
AtRest == [pc |-> "idle", key |-> None, on |-> None, gate |-> None, tools |-> {}]

Init ==
    /\ conn = [i \in Ids |-> NoConn]
    /\ pool = [k \in Keys |-> None] /\ connecting = [k \in Keys |-> None]
    /\ step = [s \in Steps |-> AtRest]
    /\ releases = {} /\ shutDown = FALSE /\ cred = None /\ listing \in Listings

----------------------------------------------------------------------------
\* The step's tools

\* mcpToolName: a raw name is slugged; "x1" and "x2" slug alike.
Slug == [x1 |-> "x", x2 |-> "x", y1 |-> "y"]
Rank == [x1 |-> 1, x2 |-> 2, y1 |-> 3]
\* Names of the namespace: of the declared server, and of one that is not declared.
Declared == {"x", "y"}
McpNames == Declared \union {"z"}

\* toolset.tools: descriptors in slug order, ties by raw name; the first to claim a
\* name keeps it.
Sorted(l) == SortSeq(l, LAMBDA a, b : Rank[a] < Rank[b])
FirstWins(l) == {l[i] : i \in {j \in DOMAIN l : \A h \in 1 .. j - 1 : Slug[l[h]] # Slug[l[j]]}}
FaultMaterialised(l) == FirstWins(l)
Materialised(l) == FirstWins(Sorted(l))

\* selectAndGateTools: registry tools the step selects, and the allow entries that
\* only the registry could serve.
Selected(g) == (IF g.allow = None THEN Registry ELSE Registry \intersect g.allow) \ g.deny
GateAllow(g) == IF g.allow = None THEN {} ELSE g.allow \ Declared
McpOnly(g) ==
    /\ g.allow # None /\ g.allow # {} /\ g.allow \subseteq McpNames
    /\ Selected(g) = {}
Misconfigured(g) ==
    \/ GateAllow(g) \intersect McpNames # {}
    \/ GateAllow(g) # {} /\ Selected(g) = {}

\* materializeMcpTools: descriptors the step keeps.
Kept(g, l) ==
    {t \in Materialised(l) : /\ Slug[t] \notin g.deny
                             /\ g.allow = None \/ g.allow \intersect McpNames = {} \/ Slug[t] \in g.allow}

\* The step goes on with connection i (None: the server is unavailable) and the
\* descriptors l; an allowlist of MCP tools alone that yields none refuses it.
Assembled(st, i, l) ==
    [st EXCEPT !.on = i, !.tools = Selected(st.gate) \union Kept(st.gate, l),
               !.pc = IF McpOnly(st.gate) /\ Kept(st.gate, l) = {} THEN "refused" ELSE "running"]

----------------------------------------------------------------------------
\* Pool entries

\* closeEntry, for every connection of S: idempotent, and off the pool only while
\* the pool still holds this very entry. A closed entry's fields are not read again.
Shut(c, S) == [i \in Ids |-> IF i \in S THEN NoConn ELSE c[i]]
Unpooled(p, S) == [k \in Keys |-> IF p[k] \in S THEN None ELSE p[k]]

Lease(c, i) == [c EXCEPT ![i].leases = @ + 1, ![i].timer = FALSE]
\* Returning a lease; the last one arms the idle timer of an entry still open.
FaultReturned(c, i) == IF c[i].phase = "closed" THEN c ELSE [c EXCEPT ![i].leases = @ - 1, ![i].timer = TRUE]
Returned(c, i) ==
    IF c[i].phase = "closed" THEN c ELSE [c EXCEPT ![i].leases = @ - 1, ![i].timer = c[i].leases = 1]

\* Type invariant.
Tools == Registry \union UNION {Materialised(l) : l \in Listings \union {<<>>}}
Conns == [phase : {"closed", "connecting", "open"}, key : Keys \union {None}, leases : Int, stale : BOOLEAN,
          timer : BOOLEAN, tools : Listings \union {<<>>}]
Dispatches == [pc : {"idle", "waiting", "probing", "listing", "dropped", "running", "refused"},
               key : Keys \union {None}, on : Ids \union {None}, gate : Gates \union {None}, tools : SUBSET Tools]
TypeOK ==
    /\ conn \in [Ids -> Conns] /\ step \in [Steps -> Dispatches]
    /\ pool \in [Keys -> Ids \union {None}] /\ connecting \in [Keys -> Ids \union {None}]
    /\ cred \in Creds \union {None} /\ listing \in Listings

McpAssumption ==
    /\ Ids \subseteq Nat /\ IsFiniteSet(Steps)
    /\ None \notin Ids /\ None \notin Keys

\* Names a new connection can take: nothing refers to a connection of that name.
Free(s) == {i \in Ids : /\ conn[i].phase = "closed"
                        /\ \A t \in Steps \ {s} : step[t].on # i
                        /\ \A r \in releases : i \notin r.waits}
Fresh(s) == IF Free(s) = {} THEN {} ELSE {Min(Free(s))}

\* The rest of acquire, after no entry could be reused: join the connect under way
\* for the key, or open one.
Await(c, s, st) ==
    LET k == st.key IN
    IF connecting[k] # None
    THEN /\ conn' = c /\ UNCHANGED connecting
         /\ step' = [step EXCEPT ![s] = [st EXCEPT !.pc = "waiting", !.on = connecting[k]]]
    ELSE \E i \in Fresh(s) :
           /\ conn' = [c EXCEPT ![i] = [NoConn EXCEPT !.phase = "connecting", !.key = k]]
           /\ connecting' = [connecting EXCEPT ![k] = i]
           /\ step' = [step EXCEPT ![s] = [st EXCEPT !.pc = "waiting", !.on = i]]

----------------------------------------------------------------------------
\* A step: materialize, acquire, dispose

\* The allowlist cannot be served, whatever the server lists: the step fails.
Misconfigure(s) ==
    /\ step[s].pc = "idle"
    /\ \E g \in Gates : Misconfigured(g) /\ step' = [step EXCEPT ![s] = [AtRest EXCEPT !.pc = "refused", !.gate = g]]
    /\ UNCHANGED <<conn, pool, connecting>> /\ UNCHANGED outside

\* The server is reported and its tools do not appear.
Without(s) ==
    /\ step[s].pc = "idle"
    /\ \E g \in Gates : ~Misconfigured(g) /\ step' = [step EXCEPT ![s] = Assembled([AtRest EXCEPT !.gate = g], None, <<>>)]
    /\ UNCHANGED <<conn, pool, connecting>> /\ UNCHANGED outside

\* No usable configuration file, an entry of an unsupported kind or malformed, no
\* entry, or the run was aborted before the connect.
Unavailable(s) == Without(s)
\* The configuration loads: every variable it refers to has a value.
Resolved == cred # None

\* The entry refers to a variable that is unset or blank.
Unresolved(s) == ~Resolved /\ Without(s)

\* acquire: lease the entry of the key and probe it, or go on to connect.
Acquire(s) ==
    /\ step[s].pc = "idle" /\ ~shutDown /\ Resolved
    /\ \E g \in Gates, n \in Nodes :
         LET st == [AtRest EXCEPT !.gate = g, !.key = <<n, cred>>]
         IN /\ ~Misconfigured(g)
            /\ IF pool[st.key] # None
               THEN /\ conn' = Lease(conn, pool[st.key])
                    /\ step' = [step EXCEPT ![s] = [st EXCEPT !.pc = "probing", !.on = pool[st.key]]]
                    /\ UNCHANGED connecting
               ELSE Await(conn, s, st)
    /\ UNCHANGED pool /\ UNCHANGED outside

\* The ping is answered: the descriptors the entry holds, or a new tools/list when a
\* change was announced.
Pong(s) ==
    /\ step[s].pc = "probing" /\ conn[step[s].on].phase = "open"
    /\ LET i == step[s].on
       IN IF conn[i].stale
          THEN /\ conn' = [conn EXCEPT ![i].stale = FALSE]
               /\ step' = [step EXCEPT ![s].pc = "listing"]
          ELSE step' = [step EXCEPT ![s] = Assembled(@, i, conn[i].tools)] /\ UNCHANGED conn
    /\ UNCHANGED <<pool, connecting>> /\ UNCHANGED outside

Relisted(s) ==
    /\ step[s].pc = "listing" /\ conn[step[s].on].phase = "open"
    /\ conn' = [conn EXCEPT ![step[s].on].tools = listing]
    /\ step' = [step EXCEPT ![s] = Assembled(@, @.on, listing)]
    /\ UNCHANGED <<pool, connecting>> /\ UNCHANGED outside

\* The probe fails, for a closed entry always: the entry is closed, ...
ProbeFails(s) ==
    /\ step[s].pc \in {"probing", "listing"}
    /\ conn' = Shut(conn, {step[s].on}) /\ pool' = Unpooled(pool, {step[s].on})
    /\ step' = [step EXCEPT ![s].pc = "dropped"]
    /\ UNCHANGED connecting /\ UNCHANGED outside

\* ... its lease goes back, and the step connects. What another step put into the
\* pool in the meantime is not looked at again.
FallThrough(s) ==
    /\ step[s].pc = "dropped"
    /\ Await(Returned(conn, step[s].on), s, [step[s] EXCEPT !.on = None])
    /\ UNCHANGED pool /\ UNCHANGED outside

\* connectServer and register: the new entry takes the key's place in the pool.
Connected(k) ==
    /\ connecting[k] # None
    /\ conn' = [conn EXCEPT ![connecting[k]].phase = "open", ![connecting[k]].tools = listing]
    /\ pool' = [pool EXCEPT ![k] = connecting[k]]
    /\ connecting' = [connecting EXCEPT ![k] = None]
    /\ UNCHANGED step /\ UNCHANGED outside

\* Refused, timed out, or aborted by the step that opened it: closed at once, never
\* pooled, and every step that waited goes without the server.
ConnectFails(k) ==
    /\ connecting[k] # None
    /\ conn' = Shut(conn, {connecting[k]})
    /\ connecting' = [connecting EXCEPT ![k] = None]
    /\ step' = [s \in Steps |-> IF step[s].pc = "waiting" /\ step[s].on = connecting[k]
                                THEN Assembled(step[s], None, <<>>) ELSE step[s]]
    /\ UNCHANGED pool /\ UNCHANGED outside

\* The connect settled: lease the entry, unless it was released while connecting.
Take(s) ==
    /\ step[s].pc = "waiting" /\ conn[step[s].on].phase \in {"open", "closed"}
    /\ LET i == step[s].on
       IN IF conn[i].phase = "closed"
          THEN step' = [step EXCEPT ![s] = Assembled(@, None, <<>>)] /\ UNCHANGED conn
          ELSE /\ conn' = Lease(conn, i)
               /\ step' = [step EXCEPT ![s] = Assembled(@, i, conn[i].tools)]
    /\ UNCHANGED <<pool, connecting>> /\ UNCHANGED outside

\* After shutdown a step connects on its own.
ConnectUnpooled(s) ==
    /\ step[s].pc = "idle" /\ shutDown /\ Resolved
    /\ \E g \in Gates, i \in Fresh(s) :
         /\ ~Misconfigured(g)
         /\ conn' = [conn EXCEPT ![i] = [NoConn EXCEPT !.phase = "open", !.tools = listing]]
         /\ step' = [step EXCEPT ![s] = Assembled([AtRest EXCEPT !.gate = g], i, listing)]
    /\ UNCHANGED <<pool, connecting>> /\ UNCHANGED outside

\* dispose, in the finally of the step: the lease goes back, a connection of the
\* step's own closes.
Dispose(s) ==
    /\ step[s].pc \in {"running", "refused"}
    /\ step' = [step EXCEPT ![s] = AtRest]
    /\ conn' = CASE step[s].on = None -> conn
                 [] step[s].on # None /\ step[s].key = None -> Shut(conn, {step[s].on})
                 [] OTHER -> Returned(conn, step[s].on)
    /\ UNCHANGED <<pool, connecting>> /\ UNCHANGED outside

----------------------------------------------------------------------------
\* Around the steps

IdleFires(i) ==
    /\ conn[i].timer
    /\ conn' = Shut(conn, {i}) /\ pool' = Unpooled(pool, {i})
    /\ UNCHANGED <<connecting, step>> /\ UNCHANGED outside

\* The child exits or the session ends: onClose.
ServerGone(i) ==
    /\ conn[i].phase = "open"
    /\ conn' = Shut(conn, {i}) /\ pool' = Unpooled(pool, {i})
    /\ UNCHANGED <<connecting, step>> /\ UNCHANGED outside

\* tools/list_changed: every pooled entry is marked; the next acquire lists again.
ListChanged ==
    /\ \E l \in Listings \ {listing} : listing' = l
    /\ conn' = [i \in Ids |-> IF conn[i].phase = "open" /\ conn[i].key # None
                              THEN [conn[i] EXCEPT !.stale = TRUE] ELSE conn[i]]
    /\ UNCHANGED <<pool, connecting, step, releases, shutDown, cred>>

\* .env, .env.local or the exported variable changes: the next acquire resolves anew.
Rotate ==
    /\ cred' \in (Creds \union {None}) \ {cred}
    /\ UNCHANGED <<conn, pool, connecting, step, releases, shutDown, listing>>

\* release of a node or a run, and closeAll: connects under way settle first, then
\* what the pool holds closes, leased or not.
Waits(ns) == {connecting[k] : k \in {h \in Keys : h[1] \in ns /\ connecting[h] # None}}

Release(ns) ==
    /\ \A r \in releases : r.nodes # ns
    /\ releases' = releases \union {[nodes |-> ns, waits |-> Waits(ns)]}
    /\ UNCHANGED <<conn, pool, connecting, step, shutDown, cred, listing>>

CloseAll ==
    /\ ~shutDown /\ shutDown' = TRUE
    /\ releases' = releases \union {[nodes |-> Nodes, waits |-> Waits(Nodes)]}
    /\ UNCHANGED <<conn, pool, connecting, step, cred, listing>>

Settle ==
    \E r \in releases :
      LET S == {pool[k] : k \in {h \in Keys : h[1] \in r.nodes}} \ {None} IN
      /\ \A i \in r.waits : conn[i].phase # "connecting"
      /\ conn' = Shut(conn, S) /\ pool' = Unpooled(pool, S)
      /\ releases' = releases \ {r}
      /\ UNCHANGED <<connecting, step, shutDown, cred, listing>>

Next ==
    \/ \E s \in Steps : \/ Misconfigure(s) \/ Unavailable(s) \/ Unresolved(s) \/ Acquire(s) \/ Pong(s) \/ Relisted(s) \/ ProbeFails(s)
                        \/ FallThrough(s) \/ Take(s) \/ ConnectUnpooled(s) \/ Dispose(s)
    \/ \E k \in Keys : Connected(k) \/ ConnectFails(k)
    \/ \E i \in Ids : IdleFires(i) \/ ServerGone(i)
    \/ \E n \in Nodes : Release({n})
    \/ ListChanged \/ Rotate \/ CloseAll \/ Settle

Spec == Init /\ [][Next]_vars

----------------------------------------------------------------------------
Holders(i) == {s \in Steps : step[s].on = i /\ step[s].key # None /\ step[s].pc # "waiting"}

(* An open connection has somebody who will close it: a step that holds it, awaits *)
(* it or owns it, or its idle timer; and the timer is armed only while no step     *)
(* holds the connection, so that idling never takes it from under a step. The pool *)
(* leads only to open connections of the key (connector.ts, lease and closeEntry). *)
NobodyLeaks ==
    /\ \A i \in Ids : conn[i].phase = "open" =>
         /\ conn[i].leases = Cardinality(Holders(i))
         /\ conn[i].timer => Holders(i) = {}
         /\ conn[i].timer \/ \E s \in Steps : step[s].on = i
    /\ \A k \in Keys : pool[k] # None => conn[pool[k]].phase = "open" /\ conn[pool[k]].key = k

(* A step that names tools runs with one of them at least, whatever the server     *)
(* does meanwhile, and with none it denied (tool-assembly.ts, connector.ts).       *)
AsksMet ==
    \A s \in Steps : step[s].pc = "running" =>
      /\ step[s].gate.allow \notin {None, {}} => step[s].tools # {}
      /\ \A t \in step[s].tools \ Registry : Slug[t] \notin step[s].gate.deny

(* Under every name a step runs with the descriptor that the set of tools alone    *)
(* decides, not the order of the server's answer (connector.ts).                   *)
OneDescriptor ==
    \A s \in Steps : step[s].pc = "running" =>
      LET mcp == step[s].tools \ Registry IN
      \E l \in Listings \union {<<>>} : mcp \subseteq ToSet(l) /\ \A t \in mcp, u \in ToSet(l) : Slug[t] = Slug[u] => Rank[t] <= Rank[u]

(* Every open connection of a key is the one the pool knows, so that a release or  *)
(* a shutdown reaches it. The code does not keep this: a step that drops a dead    *)
(* entry does not look at the pool again before it connects (connector.ts,         *)
(* acquire), and its entry may displace one that another step opened meanwhile.    *)
PoolKnowsAll == \A i \in Ids : conn[i].phase = "open" /\ conn[i].key # None => pool[conn[i].key] = i

(* NobodyLeaks, AsksMet and OneDescriptor: what a step relies on when it calls an *)
(* MCP tool.                                                                       *)
McpServes == NobodyLeaks /\ AsksMet /\ OneDescriptor
=============================================================================
