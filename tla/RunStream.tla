------------------------------- MODULE RunStream -------------------------------
(* One run watched live: the server's drain loop over the run's event log, the  *)
(* EventSource that loses its socket and reconnects, and the page's data hook,  *)
(* which adds live cost to a snapshot, buffers the streaming message and        *)
(* refetches the messages table.                                                *)
EXTENDS Integers, Sequences, FiniteSets, FiniteSetsExt, SequencesExt

CONSTANTS
  MaxLog,     \* bound on the run's events
  BatchSize,  \* events the server fetches at a time
  MaxBreaks,  \* bound on lost connections
  MaxReads,   \* bound on snapshot requests
  MaxFetches, \* bound on messages requests
  None

StreamAssumption ==
  /\ MaxLog \in Nat /\ BatchSize \in Nat /\ MaxBreaks \in Nat /\ MaxReads \in Nat
  /\ None \notin Nat
  /\ None \notin [seq : Nat \cup {None}, terminal : BOOLEAN, cost : SUBSET Nat]

VARIABLES
  log,    \* the run's events in seq order, by what the page does with them
  total,  \* the row's totalCostUsd: the cost events it counts
  conn,   \* the server loop: [pc, cursor, queue, full]
  es,     \* the browser: [url, lastId, breaks]; url is sinceSeq, or None when shut
  snap,   \* the snapshot: [seq, terminal, cost, reads]; seq None while loading
  req,    \* the snapshot request in flight: [seq, terminal, cost], or None; seq
          \* None between its two reads
  live,   \* liveCostFrames, and the message open in the streaming buffer (0: none)
  msgs,   \* rows shown, the coalescing timer, the responses in flight
  heard   \* history: the frames received on the page since the hook's last reset

vars == <<log, total, conn, es, snap, req, live, msgs, heard>>

\* "open": agent.message_start and the deltas after it; "msg": the persisted row
\* (fact.message_appended, agent.message_end); "done": a step that completes or is
\* aborted; "end": a terminal fact; "hold": a quarantine.
Kinds == {"open", "cost", "msg", "done", "end", "hold", "resumed"}

--------------------------------------------------------------------------------
(* The run's log, written by the daemon.                                        *)

\* The settled statuses: terminal, and quarantined until an operator resumes it.
Settled(l) == l # << >> /\ Last(l) \in {"end", "hold"}

CostsUpTo(n) == {i \in 1..n : log[i] = "cost"}

\* A dispatch's costs are events while it runs; the row counts them when the
\* dispatch settles: any of those not counted yet, for the branches of a region
\* settle one by one, and what a crash cut off is never counted.
Projects(k) ==
  IF k \in {"done", "end"}
    THEN \E settled \in SUBSET (CostsUpTo(Len(log)) \ total) : total' = total \cup settled
    ELSE total' = total

Record(k) ==
  /\ Len(log) < MaxLog
  /\ k = "resumed" => (log # << >> /\ Last(log) = "hold")
  /\ Settled(log) => (k = "resumed" /\ Last(log) = "hold")
  /\ log' = Append(log, k)
  /\ Projects(k)
  /\ UNCHANGED <<conn, es, snap, req, live, msgs, heard>>

CountOf(k, upTo) == Cardinality({i \in 1..upTo : log[i] = k})

--------------------------------------------------------------------------------
(* The page: snapshot, reset, prune.                                            *)

NoConn == [pc |-> "off", cursor |-> 0, queue |-> << >>, full |-> FALSE]

\* GET /runs/:id: runDetail reads the row, then the log; react-query drops an
\* earlier request.
ReadRow ==
  /\ snap.reads < MaxReads
  /\ req' = [seq |-> None, terminal |-> Settled(log), cost |-> total]
  /\ snap' = [snap EXCEPT !.reads = @ + 1]
  /\ UNCHANGED <<log, total, conn, es, live, msgs, heard>>

\* lastEventSeq: the newest event of any kind.
ReadLog ==
  /\ req # None /\ req.seq = None
  /\ req' = [req EXCEPT !.seq = Len(log)]
  /\ UNCHANGED <<log, total, conn, es, snap, live, msgs, heard>>

\* The prune effect: what is kept begins at the first frame above the new watermark.
Pruned(frames, cutoff) ==
  LET above == {i \in DOMAIN frames : frames[i] > cutoff}
  IN  IF above = {} THEN << >> ELSE SubSeq(frames, Min(above), Len(frames))

\* sseUrl: a stream is opened only for a run not known to be terminal.
Url(r) == IF r.terminal THEN None ELSE r.seq

\* The snapshot arrives. A change of the terminal flag resets the hook and
\* fetches the messages; a change of the watermark re-keys the EventSource.
TakeSnapshot ==
  LET flips == snap.seq = None \/ snap.terminal # req.terminal IN
  /\ req # None /\ req.seq # None
  /\ snap' = [snap EXCEPT !.seq = req.seq, !.terminal = req.terminal, !.cost = req.cost]
  /\ req' = None
  /\ IF flips
       THEN /\ live' = [frames |-> << >>, buf |-> 0]
            /\ heard' = {}
            /\ msgs' = [rows |-> 0, timer |-> FALSE, failed |-> FALSE, sent |-> msgs.sent + 1,
                        inFlight |-> {f \in msgs.inFlight : ~ f.boot}
                                       \cup {[id |-> msgs.sent + 1, boot |-> TRUE, rows |-> None]}]
       ELSE /\ live' = [live EXCEPT !.frames = Pruned(@, req.seq)]
            /\ UNCHANGED <<msgs, heard>>
  /\ IF es.url = Url(req)
       THEN UNCHANGED <<es, conn>>
       ELSE /\ es' = [es EXCEPT !.url = Url(req), !.lastId = None]
            /\ conn' = NoConn
  /\ UNCHANGED <<log, total>>

--------------------------------------------------------------------------------
(* The connection.                                                              *)

\* parseSeqCursorMax: the larger of ?sinceSeq and Last-Event-ID.
SinceSeq(query, header) == IF header = None THEN query ELSE Max({query, header})

Connect ==
  /\ es.url # None
  /\ conn.pc = "off"
  /\ conn' = [NoConn EXCEPT !.pc = "fetch", !.cursor = SinceSeq(es.url, es.lastId)]
  /\ UNCHANGED <<log, total, es, snap, req, live, msgs, heard>>

\* The socket is lost: the browser retries with Last-Event-ID, or the hook's
\* watchdog replaces the EventSource and replays from ?sinceSeq.
Disconnect(keep) ==
  /\ conn.pc # "off"
  /\ es.breaks < MaxBreaks
  /\ conn' = NoConn
  /\ es' = [es EXCEPT !.breaks = @ + 1, !.lastId = IF keep THEN @ ELSE None]
  /\ UNCHANGED <<log, total, snap, req, live, msgs, heard>>

\* selectEvents: at most `limit` events after `since`, in order.
SelectEvents(since, limit) == [i \in 1..(Min({Len(log), since + limit}) - since) |-> since + i]

FetchBatch ==
  LET batch == SelectEvents(conn.cursor, BatchSize) IN
  /\ conn.pc = "fetch"
  /\ conn' = [conn EXCEPT !.pc = "write", !.queue = batch, !.full = Len(batch) = BatchSize]
  /\ UNCHANGED <<log, total, es, snap, req, live, msgs, heard>>

FaultOnCost(frames, s) == Append(frames, s)

\* aggregateLiveFrames: the frames held that the snapshot does not cover.
LiveCosts == {i \in DOMAIN live.frames : live.frames[i] > snap.seq}

\* A cost frame at or below the newest one held is a replay.
OnCost(frames, s) == IF frames # << >> /\ s <= Last(frames) THEN frames ELSE Append(frames, s)

\* The streaming buffer opens with a message and yields to the persisted row,
\* unless a refetch is already waiting: onFrame has then returned.
OnBuffer(buf, s) == CASE log[s] = "open"                -> s
                      [] log[s] = "msg" /\ ~ msgs.timer -> 0
                      [] OTHER                          -> buf

\* writeSSE and onFrame: one frame, folded into the page's state.
Write ==
  LET s == Head(conn.queue) IN
  /\ conn.pc = "write" /\ conn.queue # << >>
  /\ conn' = [conn EXCEPT !.queue = Tail(@), !.cursor = s]
  /\ es' = [es EXCEPT !.lastId = s]
  /\ live' = [frames |-> IF log[s] = "cost" THEN OnCost(live.frames, s) ELSE live.frames,
              buf |-> OnBuffer(live.buf, s)]
  /\ msgs' = [msgs EXCEPT !.timer = @ \/ (log[s] = "msg" /\ msgs.sent < MaxFetches)]
  /\ heard' = heard \cup {s}
  /\ UNCHANGED <<log, total, snap, req>>

FaultCheckClose ==
  /\ conn.pc = "write" /\ conn.queue = << >> /\ conn.full
  /\ conn' = [conn EXCEPT !.pc = "fetch"]
  /\ UNCHANGED <<log, total, es, snap, req, live, msgs, heard>>

\* After a batch: a full one is followed by another fetch; otherwise the stream
\* closes when the run has settled (the browser will retry), or sleeps.
CheckClose ==
  /\ conn.pc = "write" /\ conn.queue = << >>
  /\ conn' = IF ~ conn.full /\ Settled(log) THEN NoConn ELSE [conn EXCEPT !.pc = "fetch"]
  /\ UNCHANGED <<log, total, es, snap, req, live, msgs, heard>>

--------------------------------------------------------------------------------
(* The messages table.                                                          *)

\* The 30 ms timer fires: one request for the signals it coalesced.
FireTimer ==
  /\ msgs.timer
  /\ msgs' = [msgs EXCEPT !.timer = FALSE, !.sent = @ + 1,
                          !.inFlight = @ \cup {[id |-> msgs.sent + 1, boot |-> FALSE, rows |-> None]}]
  /\ UNCHANGED <<log, total, conn, es, snap, req, live, heard>>

\* The server answers with every row there is.
ReadMessages(f) ==
  /\ f.rows = None
  /\ msgs' = [msgs EXCEPT !.inFlight = (@ \ {f}) \cup {[f EXCEPT !.rows = CountOf("msg", Len(log))]}]
  /\ UNCHANGED <<log, total, conn, es, snap, req, live, heard>>

\* The response replaces what is shown, whichever request it answers; an empty
\* one changes nothing.
TakeMessages(f) ==
  /\ f.rows # None
  /\ msgs' = [msgs EXCEPT !.inFlight = @ \ {f}, !.rows = IF f.rows = 0 THEN @ ELSE f.rows]
  /\ UNCHANGED <<log, total, conn, es, snap, req, live, heard>>

\* The request failed: the next signal refetches.
LoseMessages(f) ==
  /\ msgs' = [msgs EXCEPT !.inFlight = @ \ {f}, !.failed = TRUE]
  /\ UNCHANGED <<log, total, conn, es, snap, req, live, heard>>

--------------------------------------------------------------------------------
\* No EventSource is open.
Shut == [url |-> None, lastId |-> None, breaks |-> 0]

\* The detail query has not answered yet.
Loading == [seq |-> None, terminal |-> FALSE, cost |-> {}, reads |-> 0]

\* Nothing folded from the stream.
NoFrames == [frames |-> << >>, buf |-> 0]

\* The messages query before its first answer.
NoRows == [rows |-> 0, timer |-> FALSE, sent |-> 0, inFlight |-> {}, failed |-> FALSE]

Init ==
  /\ log = << >> /\ total = {}
  /\ conn = NoConn
  /\ es = Shut
  /\ snap = Loading
  /\ req = None
  /\ live = NoFrames
  /\ msgs = NoRows
  /\ heard = {}

Serve == FetchBatch \/ Write \/ CheckClose

Next ==
  \/ \E k \in Kinds : Record(k)
  \/ ReadRow \/ ReadLog \/ TakeSnapshot
  \/ Connect \/ (\E keep \in BOOLEAN : Disconnect(keep)) \/ Serve
  \/ FireTimer \/ \E f \in msgs.inFlight : ReadMessages(f) \/ TakeMessages(f) \/ LoseMessages(f)

\* The loop runs while the socket is open; the browser reconnects.
Fairness == WF_vars(Serve) /\ WF_vars(Connect)

Spec == Init /\ [][Next]_vars /\ Fairness

--------------------------------------------------------------------------------
(* Properties.                                                                  *)

Events == 1..Len(log)
Watermarks == 0..Len(log)
Requests == [seq : Watermarks \cup {None}, terminal : BOOLEAN, cost : SUBSET Events]
Fetches == [id : Nat, boot : BOOLEAN, rows : Nat \cup {None}]

TypeOK ==
  /\ log \in Seq(Kinds) /\ Len(log) <= MaxLog /\ total \subseteq Events
  /\ conn \in [pc : {"off", "fetch", "write"}, cursor : Watermarks, queue : Seq(Events), full : BOOLEAN]
  /\ es \in [url : Watermarks \cup {None}, lastId : Events \cup {None}, breaks : 0..MaxBreaks]
  /\ snap \in [seq : Watermarks \cup {None}, terminal : BOOLEAN, cost : SUBSET Events, reads : 0..MaxReads]
  /\ req \in Requests \cup {None}
  /\ live \in [frames : Seq(Events), buf : Watermarks]
  /\ msgs \in [rows : Nat, timer : BOOLEAN, failed : BOOLEAN, sent : Nat, inFlight : SUBSET Fetches]
  /\ heard \subseteq Events

\* What the page can know of: the snapshot's events and the frames heard.
Known == Max({0, IF snap.seq = None THEN 0 ELSE snap.seq} \cup heard)

\* The cost events below the watermark that the snapshot's row did not count: their
\* dispatch had not settled when the row was read, or was cut off.
Lagging == CostsUpTo(snap.seq) \ snap.cost

\* What the page shows: snapshot.costUsd + liveCost.totalCostUsd.
ShownCost == Cardinality(snap.cost) + Cardinality(LiveCosts)

\* Every cost the page knows of is shown once, or lags: replays after a reconnect, a
\* row older than the watermark beside it, a snapshot that catches up with frames
\* already folded and the prune never count one twice, and drop none but those the
\* watermark covers and the row does not.
CostShownOnce ==
  snap.seq # None => ShownCost + Cardinality(Lagging) = CountOf("cost", Known)

\* "snapshot.costUsd + liveCost.totalCostUsd is the run's true total at all times".
\* Not in the middle of a step: the watermark of a snapshot taken there covers costs
\* that the row counts only when the step settles, and the page drops their frames.
TotalIsTrue == snap.seq # None => ShownCost = CountOf("cost", Known)

\* Whatever is lost and replayed, the page has no hole: every event up to the
\* newest one it knows of was in the snapshot or heard.
NoHole == snap.seq # None => \A i \in 1..Known : i <= snap.seq \/ i \in heard

\* What a page shows of a live run is the log up to the newest event it knows
\* of: nothing missed below it, and no cost counted twice or lost, except those whose
\* step had not settled when the snapshot's row was read.
PageInStep == CostShownOnce /\ NoHole

\* Every event reaches a page that stays subscribed, although the server closes
\* the stream of a settled run at a status read after the batch: the reconnect
\* brings what the close left behind.
EventuallyHeard ==
  \A n \in 1..MaxLog :
    (Len(log) >= n /\ es.url # None) ~> (Known >= n \/ es.url = None)

\* "Drop the buffer as soon as its persisted row lands": no streaming card stands
\* beside the row that replaces it once the row's frame was handled. A signal
\* that finds the refetch timer set returns before it reaches the buffer.
BufferYields == live.buf # 0 => ~ \E j \in heard : j > live.buf /\ log[j] = "msg"

\* "All persisted messages for the run, ordered by ordinal": on a settled run
\* with nothing in flight and no request failed, the conversation is complete.
\* Responses are applied in the order they arrive, not the order they were read.
MessagesComplete ==
  (snap.seq # None /\ snap.terminal /\ Settled(log) /\ snap.seq = Len(log)
     /\ msgs.inFlight = {} /\ ~ msgs.timer /\ ~ msgs.failed) => msgs.rows = CountOf("msg", Len(log))
================================================================================
