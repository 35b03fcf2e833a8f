------------------------------- MODULE GlobalFeed -------------------------------
(* The cross-run event feed of the Home page: writers of several processes that *)
(* stamp an event and then wait for the write lock, the server's drain loop     *)
(* with its forward cursor and its rescan of the boundary millisecond, and the  *)
(* browser that backfills, subscribes, loses the socket and reconnects.         *)
EXTENDS Integers, Sequences, FiniteSets, FiniteSetsExt, SequencesExt

CONSTANTS
  Writers,     \* one run per writing process; the run ids, ordered as numbers
  MaxTime,     \* bound on the clock, in milliseconds
  MaxEvents,   \* bound on the events each writer appends
  BatchSize,   \* events the server fetches at a time
  BackfillMax, \* events the backfill returns
  FeedMax,     \* FEED_MAX_EVENTS
  MaxBreaks,   \* bound on lost connections
  None

VARIABLES
  clock,   \* Date.now of the machine
  stamp,   \* per writer: the timestamp taken before the write lock, or None
  db,      \* the committed events of the feed's kinds, <<ts, run, seq>>
  late,    \* history: events committed before the millisecond already delivered
  behind,  \* history: events committed behind the cursor, that millisecond included
  conn,    \* the server loop: [pc, queue, full, floorTs, maxAt, seen, at]
  client,  \* the browser: [phase, fromTs, lastId, got, list, breaks]
  feed     \* feedAtom, oldest first

vars == <<clock, stamp, db, late, behind, conn, client, feed>>

--------------------------------------------------------------------------------
(* The events table and its three reads.                                        *)

Before(a, b) == \/ a[1] < b[1]
                \/ a[1] = b[1] /\ a[2] < b[2]
                \/ a[1] = b[1] /\ a[2] = b[2] /\ a[3] < b[3]

InOrder(events) == SetToSortSeq(events, Before)

FirstOf(seq, n) == SubSeq(seq, 1, Min({n, Len(seq)}))

LastOf(seq, n) == SubSeq(seq, Max({1, Len(seq) - n + 1}), Len(seq))

\* selectGlobalEventsForward: strictly after the tuple.
GlobalFeedForward(floorTs, maxAt) ==
  FirstOf(InOrder({e \in db : Before(<<floorTs, maxAt[1], maxAt[2]>>, e)}), BatchSize)

\* selectGlobalEventsAtFloor: one page of the boundary millisecond.
GlobalFeedAtFloor(floorTs, after) ==
  FirstOf(InOrder({e \in db : e[1] = floorTs /\ Before(<<floorTs, after[1], after[2]>>, e)}), BatchSize)

GlobalFeedLatest == LastOf(InOrder(db), BackfillMax)

--------------------------------------------------------------------------------
(* Writers. The timestamp is read before the transaction takes the write lock,  *)
(* so two processes may commit in the order opposite to their timestamps.       *)

Written(w) == Cardinality({e \in db : e[2] = w})

\* What was delivered or is about to be: the frames of the fetched batch follow.
Delivered == client.got \cup ToSet(conn.queue)

Tick == /\ clock < MaxTime
        /\ clock' = clock + 1
        /\ UNCHANGED <<stamp, db, late, behind, conn, client, feed>>

Stamp(w) == /\ stamp[w] = None
            /\ Written(w) < MaxEvents
            /\ stamp' = [stamp EXCEPT ![w] = clock]
            /\ UNCHANGED <<clock, db, late, behind, conn, client, feed>>

Commit(w) ==
  LET e == <<stamp[w], w, Written(w) + 1>> IN
  /\ stamp[w] # None
  /\ db' = db \cup {e}
  /\ late' = IF \E d \in Delivered : e[1] < d[1] THEN late \cup {e} ELSE late
  /\ behind' = IF \E d \in Delivered : Before(e, d) THEN behind \cup {e} ELSE behind
  /\ stamp' = [stamp EXCEPT ![w] = None]
  /\ UNCHANGED <<clock, conn, client, feed>>

--------------------------------------------------------------------------------
(* The browser: backfill, subscription, the feed atom, query invalidation.      *)

\* appendFeedEventsAtom: drop what is already there, sort, keep the newest.
AppendFeed(have, incoming) ==
  LastOf(SortSeq(have \o SelectSeq(incoming, LAMBDA e : e \notin ToSet(have)), Before), FeedMax)

Booted(events, from) ==
  /\ client.phase = "boot"
  /\ client' = [client EXCEPT !.phase = "live", !.fromTs = from, !.got = ToSet(events)]
  /\ feed' = AppendFeed(feed, events)
  /\ UNCHANGED <<clock, stamp, db, late, behind, conn>>

\* useGlobalEventStream: subscribe from the newest backfilled event, from now
\* when there is none.
Backfill == Booted(GlobalFeedLatest, IF db = {} THEN clock ELSE Last(GlobalFeedLatest)[1])

\* The backfill request failed: live-only mode from now.
BackfillFails == Booted(<< >>, clock)

Origin == <<0, -1>>

FaultResume(fromTs, lastId) == [floorTs |-> IF lastId = None THEN fromTs ELSE lastId[1] + 1, maxAt |-> None]

\* parseGlobalCursorFromHeader: the header wins when at least as fresh.
Resume(fromTs, lastId) ==
  IF lastId # None /\ lastId[1] >= fromTs
    THEN [floorTs |-> lastId[1], maxAt |-> <<lastId[2], lastId[3]>>]
    ELSE [floorTs |-> fromTs, maxAt |-> None]

\* EventSource opens the stream; the loop starts with its cursor.
Connect ==
  /\ client.phase = "live"
  /\ conn.pc = "off"
  /\ LET at == Resume(client.fromTs, client.lastId) IN
     conn' = [pc |-> "forward", queue |-> << >>, full |-> FALSE, floorTs |-> at.floorTs,
              maxAt |-> at.maxAt, seen |-> IF at.maxAt = None THEN {} ELSE {at.maxAt},
              at |-> Origin]
  /\ UNCHANGED <<clock, stamp, db, late, behind, client, feed>>

\* The socket is lost. The browser's own retry sends Last-Event-ID; after a
\* permanent close or a stall the hook makes a new EventSource, which has none.
Disconnect(keep) ==
  /\ conn.pc # "off"
  /\ client.breaks < MaxBreaks
  /\ conn' = [conn EXCEPT !.pc = "off", !.queue = << >>]
  /\ client' = [client EXCEPT !.breaks = @ + 1, !.lastId = IF keep THEN @ ELSE None]
  /\ UNCHANGED <<clock, stamp, db, late, behind, feed>>

--------------------------------------------------------------------------------
(* runGlobalFeedLoop.                                                           *)

\* emit: how the cursor follows an event that was written.
Emitted(c, e) ==
  LET key == <<e[2], e[3]>> IN
  IF e[1] > c.floorTs
    THEN [c EXCEPT !.floorTs = e[1], !.maxAt = key, !.seen = {key}]
    ELSE [c EXCEPT !.seen = @ \cup {key},
                   !.maxAt = IF @ = None \/ Before(<<0, @[1], @[2]>>, <<0, key[1], key[2]>>)
                               THEN key ELSE @]

\* A frame reaches the browser: the feed, the cursor it would resume from and
\* the refetch of the run lists.
Frame(e) ==
  /\ feed' = AppendFeed(feed, <<e>>)
  /\ client' = [client EXCEPT !.got = @ \cup {e}, !.lastId = e, !.list = db]

FetchForward ==
  LET maxAt == IF conn.maxAt = None THEN Origin ELSE conn.maxAt
      batch == GlobalFeedForward(conn.floorTs, maxAt) IN
  /\ conn.pc = "forward"
  /\ conn' = [conn EXCEPT !.pc = "emit", !.queue = batch]
  /\ UNCHANGED <<clock, stamp, db, late, behind, client, feed>>

EmitForward ==
  /\ conn.pc = "emit" /\ conn.queue # << >>
  /\ conn' = [Emitted(conn, Head(conn.queue)) EXCEPT !.queue = Tail(@)]
  /\ Frame(Head(conn.queue))
  /\ UNCHANGED <<clock, stamp, db, late, behind>>

\* The rescan runs only once something was emitted at the boundary.
ToRescan ==
  /\ conn.pc = "emit" /\ conn.queue = << >>
  /\ conn' = [conn EXCEPT !.pc = IF conn.seen = {} THEN "forward" ELSE "rescan", !.at = Origin]
  /\ UNCHANGED <<clock, stamp, db, late, behind, client, feed>>

FetchAtFloor ==
  LET page == GlobalFeedAtFloor(conn.floorTs, conn.at) IN
  /\ conn.pc = "rescan"
  /\ conn' = [conn EXCEPT !.pc = IF page = << >> THEN "forward" ELSE "page", !.queue = page,
                          !.full = Len(page) = BatchSize]
  /\ UNCHANGED <<clock, stamp, db, late, behind, client, feed>>

\* One row of the page: written unless the boundary set holds it already.
EmitAtFloor ==
  LET e == Head(conn.queue)
      key == <<e[2], e[3]>>
      rest == [conn EXCEPT !.queue = Tail(@), !.at = key,
                           !.pc = IF Len(conn.queue) > 1 THEN "page"
                                  ELSE IF conn.full THEN "rescan" ELSE "forward"] IN
  /\ conn.pc = "page"
  /\ \/ /\ key \in conn.seen
        /\ conn' = rest
        /\ UNCHANGED <<client, feed>>
     \/ /\ key \notin conn.seen
        /\ conn' = Emitted(rest, e)
        /\ Frame(e)
  /\ UNCHANGED <<clock, stamp, db, late, behind>>

--------------------------------------------------------------------------------
\* The loop's state: cursor, boundary, keys sent at the boundary.
Unconnected == [pc |-> "off", queue |-> << >>, full |-> FALSE, floorTs |-> 0, maxAt |-> None,
                seen |-> {}, at |-> Origin]

\* The hook before its backfill: no stream yet, nothing received.
Booting == [phase |-> "boot", fromTs |-> 0, lastId |-> None, got |-> {}, list |-> {}, breaks |-> 0]

Init ==
  /\ clock = 1
  /\ stamp = [w \in Writers |-> None]
  /\ db = {} /\ late = {} /\ behind = {}
  /\ conn = Unconnected /\ client = Booting
  /\ feed = << >>

Serve == FetchForward \/ EmitForward \/ ToRescan \/ FetchAtFloor \/ EmitAtFloor

Boot == Backfill \/ BackfillFails

Next ==
  \/ Tick
  \/ \E w \in Writers : Stamp(w) \/ Commit(w)
  \/ Boot
  \/ Connect
  \/ \E keep \in BOOLEAN : Disconnect(keep)
  \/ Serve

\* The server loop runs while the socket is open, and the hook boots and
\* reconnects for as long as it is mounted.
Fairness == WF_vars(Serve) /\ WF_vars(Connect) /\ WF_vars(Boot)

Spec == Init /\ [][Next]_vars /\ Fairness

--------------------------------------------------------------------------------
(* Properties.                                                                  *)

Events == (1..MaxTime) \X Writers \X (1..MaxEvents)

\* The state is well formed, and a cursor below the boundary millisecond never
\* survives a step: what the boundary set holds is an event of that millisecond.
TypeOK ==
  /\ clock \in 1..MaxTime
  /\ stamp \in [Writers -> 1..MaxTime \cup {None}]
  /\ db \subseteq Events /\ late \subseteq behind /\ behind \subseteq db /\ client.got \subseteq db /\ client.list \subseteq db
  /\ conn.pc \in {"off", "forward", "emit", "rescan", "page"}
  /\ conn.pc # "off" => \A key \in conn.seen : <<conn.floorTs, key[1], key[2]>> \in db

\* Whatever reconnects replay and in whatever order rows appear at the boundary,
\* the feed shows the newest events received, each once, in order.
FeedIsTail == feed = LastOf(InOrder(client.got), FeedMax)

Subscribed(e) == client.phase = "live" /\ e[1] >= client.fromTs

\* Committed ahead of the cursor, subscribed to and not shown yet. (What precedes the
\* subscription is the backfill's to show.)
Owed == {e \in db \ behind : Subscribed(e)} \ client.got

\* The page catches up again and again: every event committed ahead of the cursor is
\* shown, although runs share a millisecond, pages are shorter than a millisecond
\* and the connection is lost and resumed from an older id.
FeedComplete == []<>(Owed = {})

\* "the rescan covers any event at the boundary ts the forward cursor stepped
\* past": also the event of a smaller run id that commits at the millisecond just
\* delivered. The rescan walks the boundary the forward query has just moved: when
\* a later millisecond is there too, the earlier boundary is never walked again.
BoundaryCovered ==
  \A e \in Events : (e \in db \ late /\ Subscribed(e)) ~> (e \in client.got)

\* "TanStack Query refetches whenever a run-lifecycle event lands, so RunsList /
\* Home tiles stay in sync": once nothing more is written the lists show it all.
\* An event stamped before, and committed after, one already delivered is behind
\* the cursor for good.
ListsInSync ==
  \A e \in Events :
    (e \in db /\ Subscribed(e)) ~> (e \in client.list)
================================================================================
