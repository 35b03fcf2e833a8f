------------------------------ MODULE WebFetch ------------------------------
(***************************************************************************)
(* The agent's `web_fetch` tool and its cache                              *)
(* (packages/workspace/src/web-fetch.ts): one map for all runs of the      *)
(* daemon, read when a call begins and written when its page has arrived,  *)
(* with fetches of other calls, of the same address too, in between.       *)
(*                                                                         *)
(* A page is the moment its body was read. Which addresses are refused     *)
(* (not https, private) is a constant; the conversion to markdown and the  *)
(* caps on its length are left out. The clock is in the unit of the TTL.   *)
(***************************************************************************)
EXTENDS Integers, FiniteSets

CONSTANTS Calls,    \* tool calls, each made once
          Urls, Hosts, HostOf,
          Refused,  \* addresses the tool does not fetch
          MaxCache, \* MAX_CACHE_ENTRIES
          MaxHops,  \* MAX_REDIRECTS
          Ttl,      \* CACHE_TTL_MS
          MaxTime,  \* the last moment of the clock
          None

VARIABLES now,
          cache,  \* the entry of each address, or None
          writes, \* entries ever written: the order of the map
          call    \* what each call is at

vars == <<now, cache, writes, call>>

Moments == 0 .. MaxTime
Entries == [ts : Moments, got : Moments, from : Urls, order : Nat]
WebFetchAssumption ==
    /\ HostOf \in [Urls -> Hosts] /\ Refused \subseteq Urls /\ IsFiniteSet(Urls)
    /\ MaxCache \in Nat \ {0} /\ MaxHops \in Nat /\ Ttl \in Nat /\ MaxTime \in Nat
    /\ None \notin Urls \union Entries

Outcomes == {"page", "hit", "hint", "error"}
CallStates == [pc : {"idle", "fetching"} \union Outcomes, url : Urls \union {None}, at : Urls \union {None},
               hop : 0 .. MaxHops, began : Moments, age : Moments]
TypeOK ==
    /\ now \in Moments /\ writes \in Nat
    /\ cache \in [Urls -> Entries \union {None}]
    /\ call \in [Calls -> CallStates]

NotMade == [pc |-> "idle", url |-> None, at |-> None, hop |-> 0, began |-> 0, age |-> 0]
Init ==
    /\ now = 0 /\ writes = 0
    /\ cache = [u \in Urls |-> None] /\ call = [c \in Calls |-> NotMade]

----------------------------------------------------------------------------
Held(m) == {u \in Urls : m[u] # None}
\* pruneCache
FaultPruned == cache
Pruned == [u \in Urls |-> IF cache[u] # None /\ now - cache[u].ts > Ttl THEN None ELSE cache[u]]
\* The first key of the map; writing an entry again leaves its key where it is.
First(m) == CHOOSE u \in Held(m) : \A v \in Held(m) : m[u].order <= m[v].order
\* evictOldest: the map is never over its limit, so one eviction makes room.
FaultRoomIn(m) == m
RoomIn(m) == IF Cardinality(Held(m)) >= MaxCache THEN [m EXCEPT ![First(m)] = None] ELSE m

Ends(c, how) == call' = [call EXCEPT ![c].pc = how]

\* The cache is pruned and read, and on a miss the first request goes out; the moment
\* is kept for the entry.
Begin(c) ==
    /\ call[c].pc = "idle"
    /\ \E u \in Urls :
        IF u \in Refused
        THEN Ends(c, "error") /\ UNCHANGED cache
        ELSE /\ cache' = Pruned
             /\ call' = [call EXCEPT ![c] =
                    [NotMade EXCEPT !.url = u, !.at = u, !.began = now,
                                    !.pc = IF Pruned[u] # None THEN "hit" ELSE "fetching",
                                    !.age = IF Pruned[u] # None THEN now - Pruned[u].got ELSE 0]]
    /\ UNCHANGED <<now, writes>>

\* A redirect: refused, handed back when it leaves the host, or followed so many times.
FaultLeaves(c, v) == v # call[c].at /\ call[c].hop = MaxHops /\ HostOf[v] # HostOf[call[c].at]
Leaves(c, v) == HostOf[v] # HostOf[call[c].at]
Redirect(c) ==
    /\ call[c].pc = "fetching"
    /\ \E v \in Urls :
        IF v \in Refused THEN Ends(c, "error")
        ELSE IF Leaves(c, v) THEN Ends(c, "hint")
        ELSE IF call[c].hop = MaxHops THEN Ends(c, "error")
        ELSE call' = [call EXCEPT ![c].at = v, ![c].hop = @ + 1]
    /\ UNCHANGED <<now, cache, writes>>

\* The page is there: room is made and the entry is written, stamped with the moment the
\* call began. An entry another call wrote in the meantime is replaced in its place.
Stamp(c) == call[c].began
Arrive(c) ==
    /\ call[c].pc = "fetching"
    /\ LET m == RoomIn(cache)
           u == call[c].url
           place == IF m[u] # None THEN m[u].order ELSE writes
       IN cache' = [m EXCEPT ![u] = [ts |-> Stamp(c), got |-> now, from |-> call[c].at, order |-> place]]
    /\ writes' = writes + 1
    /\ Ends(c, "page")
    /\ UNCHANGED now

\* No answer, an aborted call, a status of 400 or more, an empty page.
Fails(c) ==
    /\ call[c].pc = "fetching"
    /\ Ends(c, "error")
    /\ UNCHANGED <<now, cache, writes>>

Tick == /\ now < MaxTime /\ now' = now + 1 /\ UNCHANGED <<cache, writes, call>>

Next == Tick \/ \E c \in Calls : Begin(c) \/ Redirect(c) \/ Arrive(c) \/ Fails(c)
Spec == Init /\ [][Next]_vars

----------------------------------------------------------------------------
\* The properties

\* The map stays within its limit, whatever arrives at once.
Bounded == Cardinality(Held(cache)) <= MaxCache
\* An entry is no older than its stamp says, so that none outlives its time although
\* its fetch was slow.
Stamped == \A u \in Held(cache) : cache[u].ts <= cache[u].got /\ cache[u].got <= now
\* What a call is told from the cache was read at most a TTL ago.
Fresh == \A c \in Calls : call[c].pc = "hit" => call[c].age <= Ttl
\* However many redirects were followed, the page is one of the host that was asked for,
\* and never a refused address.
SameHost ==
    /\ \A u \in Held(cache) : HostOf[cache[u].from] = HostOf[u] /\ cache[u].from \notin Refused
    /\ \A c \in Calls : call[c].pc = "fetching" => HostOf[call[c].at] = HostOf[call[c].url]

\* A page from the cache is the page of the host that was asked for and no older than
\* the cache allows, and the cache is bounded, although calls overlap (pruneCache,
\* evictOldest, the redirect loop).
FetchSound == Bounded /\ Stamped /\ Fresh /\ SameHost

\* What the comment on evictOldest says (web-fetch.ts:98-100): entries are written once,
\* so the first key is the oldest, without a scan for the minimum.
FirstIsOldest == \A u \in Held(cache) : cache[First(cache)].ts <= cache[u].ts
=============================================================================
