----------------------------- MODULE Transcript -----------------------------
(***************************************************************************)
(* One llm step's conversation: its rows in the messages table, the agent  *)
(* that is hydrated from them on every dispatch, the model and tool turns, *)
(* and what the end of the conversation is taken for: an exit call of the  *)
(* step, a failure, or a provider pause (packages/agent/src/               *)
(* handler-bridge.ts, backend.ts, transcript.ts, exit-tools.ts,            *)
(* provider-errors.ts; packages/workspace/src/tools.ts).                   *)
(*                                                                         *)
(* The steps run one after another; with an explicit thread they share one *)
(* transcript. A dispatch may be cut off by a crash, an abort or the       *)
(* provider and the step dispatched again. Prompts are told apart only by  *)
(* the step they belong to. The agent loop (pi-agent-core) and the         *)
(* provider are external: a model turn is any message they may produce.    *)
(***************************************************************************)
EXTENDS Naturals, Sequences, FiniteSets

CONSTANTS Plans,     \* [exits, shared]: how each step exits, and whether they share a thread
          MaxCalls,  \* bound: tool calls over all steps
          MaxTurns,  \* bound: model turns of a dispatch
          MaxCuts,   \* bound: dispatches cut off
          None

VARIABLES plan,      \* the steps and their thread
          node,      \* the step being run
          phase,     \* idle, model (a model turn is due), tools, settled or ended
          rows,      \* the messages table
          msgs,      \* the agent's messages
          hydrated,  \* hydratedCount
          lastUser,  \* the dedupe memo: the last user row persisted for this step
          reminded,  \* the emit_output reminder was sent in this dispatch
          captured,  \* lastHttpStatus
          failure,   \* how the provider call failed, if the last one did
          turns,     \* model turns of this dispatch
          firstId,   \* the id the first tool call of this dispatch gets
          nextId,    \* the next tool call's id
          cuts,      \* dispatches cut off so far, by an empty answer too
          scarred,   \* calls the table will never hold a result for, past repair by a later dispatch
          outcome    \* how each step ended

mem == <<msgs, hydrated, lastUser, reminded, captured, failure, turns, firstId>>
vars == <<plan, node, phase, rows, mem, nextId, cuts, scarred, outcome>>

Steps == DOMAIN plan.exits
ExitName == plan.exits[node]

UserRow(text) == [role |-> "user", by |-> node, text |-> text]
AssistantRow(calls, stop, said) == [role |-> "assistant", by |-> node, calls |-> calls, stop |-> stop, said |-> said]
ResultRow(id) == [role |-> "toolResult", by |-> node, id |-> id]

RangeOf(s) == {s[i] : i \in DOMAIN s}
Assistants(ms) == {m \in RangeOf(ms) : m.role = "assistant"}
CallIds(ms) == UNION {{c.id : c \in RangeOf(m.calls)} : m \in Assistants(ms)}
ResultIds(ms) == {m.id : m \in {x \in RangeOf(ms) : x.role = "toolResult"}}

Dead(m) == m.role = "assistant" /\ m.stop \in {"error", "aborted"}
HasContent(m) == m.calls # <<>> \/ m.said
Last(ms) == ms[Len(ms)]

\* ctx.messages.append: a row at the end of the run's table.
AppendMessage(m) == Append(rows, m)

Init ==
    /\ plan \in Plans
    /\ node = 1 /\ phase = "idle" /\ rows = <<>>
    /\ msgs = <<>> /\ hydrated = 0 /\ lastUser = None /\ reminded = FALSE
    /\ captured = None /\ failure = None /\ turns = 0
    /\ firstId = 1 /\ nextId = 1 /\ cuts = 0 /\ scarred = {}
    /\ outcome = [i \in Steps |-> None]

\* A dispatch is over and its agent is gone.
Gone ==
    /\ phase' = "idle"
    /\ msgs' = <<>> /\ hydrated' = 0 /\ lastUser' = None /\ reminded' = FALSE
    /\ captured' = None /\ failure' = None /\ turns' = 0 /\ firstId' = nextId

----------------------------------------------------------------------------
\* Hydration

\* loadPriorMessagesForThread and loadPriorMessagesForNode: the run's rows on
\* an explicit thread, the step's own rows on its synthetic one.
SameThread(m) == plan.shared \/ m.by = node
PriorMessages == SelectSeq(rows, SameThread)

\* sanitiseUnpairedToolCalls, first half: drop the turns the provider would
\* refuse to replay, and the results whose call is not there.
FaultStripped(ms) == ms
Stripped(ms) ==
    LET alive == SelectSeq(ms, LAMBDA m : ~Dead(m))
    IN  SelectSeq(alive, LAMBDA m : m.role = "toolResult" => m.id \in CallIds(alive))

\* Second half: the calls of a last assistant turn get a result, by running an
\* idempotent tool again or as an error the model is told of.
Sanitised(ms) ==
    LET s == Stripped(ms)
    IN  IF s # <<>> /\ Last(s).role = "assistant"
        THEN s \o [i \in 1 .. Len(Last(s).calls) |-> ResultRow(Last(s).calls[i].id)]
        ELSE s

\* The memo starts from the last user row persisted for this step.
LastUserRow ==
    LET own == SelectSeq(rows, LAMBDA m : m.by = node /\ m.role = "user")
    IN  IF own = <<>> THEN None ELSE Last(own).text

\* persistMessage of a user message: one equal to the last persisted one is
\* not written again.
PersistUser(text, memo, table) == IF memo = text THEN table ELSE Append(table, UserRow(text))

\* The boundary after which a call counts as this dispatch's own.
FaultBoundary(history) == 0
Boundary(history) == Len(history)

\* A dispatch: hydrate, sanitise, set the boundary, prompt. The results that
\* sanitising makes up are the agent's only and are not persisted.
Dispatch ==
    LET history == Sanitised(PriorMessages)
    IN  /\ phase = "idle"
        /\ phase' = "model"
        /\ msgs' = Append(history, UserRow("prompt"))
        /\ scarred' = scarred \union (ResultIds(history) \ ResultIds(rows))
        /\ hydrated' = Boundary(history)
        /\ rows' = PersistUser("prompt", LastUserRow, rows)
        /\ lastUser' = "prompt"
        /\ reminded' = FALSE /\ captured' = None /\ failure' = None /\ turns' = 0
        /\ firstId' = nextId
        /\ UNCHANGED <<plan, node, nextId, cuts, outcome>>

----------------------------------------------------------------------------
\* The agent loop

\* The batches a model may ask for: work, the step's exit, an abort, alone or
\* with others.
Batches ==
    LET id(i, name) == [id |-> nextId + i, name |-> name]
        exits == {"abort"} \union (IF ExitName = "plain" THEN {} ELSE {ExitName})
    IN  {<<>>, <<id(0, "work")>>, <<id(0, "work"), id(1, "work")>>}
        \union {<<id(0, x)>> : x \in exits}
        \union {<<id(0, x), id(1, "work")>> : x \in exits}

\* The model answers: a response began, so its status is captured.
ModelTurn ==
    /\ phase = "model" /\ turns < MaxTurns
    /\ \E batch \in Batches, said \in BOOLEAN :
        LET m == AssistantRow(batch, "stop", said)
        IN  /\ batch # <<>> => said
            /\ said \/ cuts < MaxCuts
            /\ cuts' = (IF said THEN cuts ELSE cuts + 1)
            /\ nextId + Len(batch) <= MaxCalls + 1
            /\ nextId' = nextId + Len(batch)
            /\ msgs' = Append(msgs, m)
            /\ rows' = AppendMessage(m)
            /\ phase' = (IF batch = <<>> THEN "settled" ELSE "tools")
    /\ captured' = 200
    /\ turns' = turns + 1
    /\ UNCHANGED <<plan, node, hydrated, lastUser, reminded, failure, firstId, scarred, outcome>>

Unanswered == SelectSeq(Last(SelectSeq(msgs, LAMBDA m : m.role = "assistant")).calls,
                        LAMBDA c : c.id \notin ResultIds(msgs))
Batch == Last(SelectSeq(msgs, LAMBDA m : m.role = "assistant")).calls

\* The results of a batch are persisted one by one. A batch of nothing but a
\* terminating tool ends the loop; otherwise the model gets another turn.
ToolResult ==
    LET r == ResultRow(Unanswered[1].id)
    IN  /\ phase = "tools"
        /\ msgs' = Append(msgs, r)
        /\ rows' = AppendMessage(r)
        /\ phase' = (IF Len(Unanswered) > 1 THEN "tools"
                     ELSE IF \A i \in DOMAIN Batch : Batch[i].name # "work" THEN "settled"
                     ELSE "model")
        /\ UNCHANGED <<plan, node, hydrated, lastUser, reminded, captured, failure, turns, firstId, nextId, cuts, scarred, outcome>>

\* A provider call fails: refused before a response, with the status at the
\* head of the message, or in the middle of the stream with or without some
\* content. An envelope with content is persisted, an empty one is not.
ProviderFails ==
    /\ phase = "model"
    /\ cuts < MaxCuts
    /\ \E msg \in {"429", "400", "overloaded", "timed out", "unknown"}, said \in BOOLEAN :
        LET pre == msg \in {"429", "400"}
            m == AssistantRow(<<>>, "error", said)
        IN  /\ pre => ~said
            /\ captured' = (IF pre THEN captured ELSE 200)
            /\ failure' = msg
            /\ msgs' = Append(msgs, m)
            /\ rows' = (IF HasContent(m) THEN AppendMessage(m) ELSE rows)
    /\ phase' = "settled"
    /\ cuts' = cuts + 1
    /\ UNCHANGED <<plan, node, hydrated, lastUser, reminded, turns, firstId, nextId, scarred, outcome>>

\* The calls after the boundary.
OwnCalls == UNION {RangeOf(m.calls) : m \in Assistants(SubSeq(msgs, hydrated + 1, Len(msgs)))}

\* A step that must emit outputs and did not is reminded once per dispatch, but
\* not after a turn the provider killed.
ReminderDue ==
    /\ ExitName = "emit_output" /\ ~reminded
    /\ ~Dead(Last(msgs))
    /\ \A c \in OwnCalls : c.name = "work"

Remind ==
    /\ phase = "settled" /\ ReminderDue
    /\ reminded' = TRUE
    /\ phase' = "model"
    /\ msgs' = Append(msgs, UserRow("reminder"))
    /\ rows' = PersistUser("reminder", lastUser, rows)
    /\ lastUser' = "reminder"
    /\ UNCHANGED <<plan, node, hydrated, captured, failure, turns, firstId, nextId, cuts, scarred, outcome>>

----------------------------------------------------------------------------
\* The end of a dispatch

Auto(status) == status \in {None, 408, 429, 529}

\* effectiveProviderHttpStatus
Effective(status, msg) ==
    CASE msg = "overloaded" -> 529
      [] msg # "overloaded" /\ (Auto(status) \/ status >= 400) -> status
      [] OTHER -> IF msg = "timed out" THEN 408 ELSE status

Extracted(msg) == CASE msg = "429" -> 429 [] msg = "400" -> 400 [] OTHER -> None

\* classifyTerminalMessage: the captured status wins over the one in the text.
FailureStatus == Effective(IF captured # None THEN captured ELSE Extracted(failure), failure)

\* The call a scan of the messages after the boundary finds: the first abort,
\* the last route or emit_output; and whether its turn held nothing else.
Own(name) == {i \in hydrated + 1 .. Len(msgs) :
                 msgs[i].role = "assistant" /\ \E c \in RangeOf(msgs[i].calls) : c.name = name}
Found(i, name) == [kind |-> name,
                   id |-> (CHOOSE c \in RangeOf(msgs[i].calls) : c.name = name).id,
                   alone |-> Len(msgs[i].calls) = 1]
FirstAbort == Found(CHOOSE i \in Own("abort") : \A j \in Own("abort") : i <= j, "abort")
LastExit == Found(CHOOSE i \in Own(ExitName) : \A j \in Own(ExitName) : i >= j, ExitName)

Failed(why) == [kind |-> why, id |-> 0, alone |-> FALSE]

\* resolveExitOutcome
ExitOutcome ==
    IF Own("abort") # {} THEN FirstAbort
    ELSE IF ExitName = "plain" THEN Failed("ok")
    ELSE IF Own(ExitName) # {} THEN LastExit
    ELSE Failed(IF ExitName = "route" THEN "route_not_picked" ELSE "no_output")

\* A dead or an empty last turn is a provider pause and the step is dispatched
\* again, unless the step had aborted itself before a failure that carries no
\* http error; anything else settles the step.
ProviderPause ==
    LET last == Last(msgs)
    IN  \/ Dead(last) /\ (~HasContent(last) \/ (FailureStatus # None /\ FailureStatus >= 400) \/ Own("abort") = {})
        \/ last.role = "assistant" /\ ~HasContent(last)

\* A step that settled well hands over to the next; one that failed ends here.
Settles(o) ==
    /\ outcome' = [outcome EXCEPT ![node] = o]
    /\ IF (o.kind = "ok" \/ (o.kind = ExitName /\ o.alone)) /\ node < Len(plan.exits)
       THEN node' = node + 1 /\ Gone
       ELSE phase' = "ended" /\ UNCHANGED <<node, mem>>

EndTurn ==
    /\ phase = "settled" /\ ~ReminderDue
    /\ IF ProviderPause
       THEN Gone /\ UNCHANGED <<node, outcome>>
       ELSE Settles(ExitOutcome)
    /\ UNCHANGED <<plan, rows, nextId, cuts, scarred>>

\* An abort signal in the middle of a model turn: what was streamed is kept as
\* an aborted turn. The dispatch throws and the step is dispatched again.
Aborted ==
    /\ phase = "model" /\ cuts < MaxCuts /\ nextId <= MaxCalls
    /\ Gone
    /\ \E calls \in {<<>>, <<[id |-> nextId, name |-> "work"]>>} :
        /\ rows' = (IF calls = <<>> THEN rows ELSE AppendMessage(AssistantRow(calls, "aborted", FALSE)))
        /\ nextId' = nextId + Len(calls)
    /\ cuts' = cuts + 1
    /\ UNCHANGED <<plan, node, scarred, outcome>>

\* The daemon dies, at any point of the loop or before the outcome is
\* committed; only the rows are left.
Crash ==
    /\ phase \in {"model", "tools", "settled"} /\ cuts < MaxCuts
    /\ cuts' = cuts + 1
    /\ scarred' = (IF phase = "tools" /\ Len(Unanswered) < Len(Batch)
                 THEN scarred \union {c.id : c \in RangeOf(Unanswered)} ELSE scarred)
    /\ Gone
    /\ UNCHANGED <<plan, node, rows, nextId, outcome>>

Next ==
    \/ Dispatch \/ ModelTurn \/ ToolResult \/ ProviderFails
    \/ Remind \/ EndTurn \/ Aborted \/ Crash

Spec == Init /\ [][Next]_vars

----------------------------------------------------------------------------
\* Properties

\* A step is left by a call made in the dispatch that ends, never by one found
\* in the history it was hydrated with, and a step that did call its exit is not
\* failed for a missing one: whatever sanitising added to or took from the
\* history, the boundary falls between the history and the dispatch.
ExitIsOwn ==
    phase = "settled" /\ ~ReminderDue /\ ~ProviderPause =>
        /\ ExitOutcome.id # 0 => ExitOutcome.id >= firstId
        /\ ExitOutcome.kind \in {"route_not_picked", "no_output"} =>
             \A m \in Assistants(msgs) : \A c \in RangeOf(m.calls) : c.id >= firstId => c.name # ExitName

\* What the provider is sent of the hydrated history, dead turns dropped, pairs
\* up: every result answers a call and every call is answered, except the calls
\* whose results were lost between two results of one batch and those an
\* earlier dispatch answered in its own memory only.
HistoryReplays ==
    LET sent == SelectSeq(SubSeq(msgs, 1, hydrated), LAMBDA m : ~Dead(m))
    IN  /\ ResultIds(sent) \subseteq CallIds(sent)
        /\ CallIds(sent) \ ResultIds(sent) \subseteq scarred

\* A thread that is cut and picked up again neither takes an old exit for a new
\* one nor sends the provider a history it must refuse.
ThreadSound == ExitIsOwn /\ HistoryReplays

\* transcript.ts: an unpaired call of the rehydrated transcript is paired before
\* the provider sees it.
HistoryPaired ==
    LET sent == SelectSeq(SubSeq(msgs, 1, hydrated), LAMBDA m : ~Dead(m))
    IN  CallIds(sent) = ResultIds(sent)

\* The statement of provider-errors.ts: the status of a call refused before any
\* response is recovered from the message.
StatusIsCurrent ==
    phase = "settled" /\ Dead(Last(msgs)) /\ Extracted(failure) # None => FailureStatus = Extracted(failure)
=============================================================================
