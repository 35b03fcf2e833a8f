------------------------------ MODULE Console -------------------------------
(***************************************************************************)
(* The operator's side of a run: the verbs of the command line, the page   *)
(* with its notices and cards, the server's intent routes, and what wakes  *)
(* and folds them on the other side (packages/cli/src/commands/operator.ts,*)
(* packages/core/src/intent-plane/plane.ts, packages/server/src/store/     *)
(* routes.ts, packages/web/src/components/Run*.tsx, packages/daemon/src/   *)
(* wake-pending.ts).                                                       *)
(*                                                                         *)
(* A run walks Flow: a step with routes is a human gate, a step without is *)
(* any other step. An intent names no gate: what the operator was looking  *)
(* at is kept beside it as history. Steers are the subject of Steering,    *)
(* accept, discard and release of Checkout.                                *)
(***************************************************************************)
EXTENDS Naturals, Sequences, FiniteSets

CONSTANTS Flow,        \* the routes of each step, in order; none but a gate's
          Terminals,   \* command lines
          Verbs,       \* the intents a command line may ask for without a gate
          InCheckout,  \* whether the run executes in an operator's checkout
          MaxIntents,  \* bound: intents in the log
          MaxGates,    \* bound: times a gate is opened
          MaxFaults,   \* bound: crashes, parked steps and lost requests
          None

\* A run walks at least one step, and respond alone answers a gate.
ConsoleAssumption ==
    /\ Len(Flow) \in Nat \ {0} /\ MaxIntents \in Nat /\ MaxGates \in Nat
    /\ \A v \in Verbs : v.kind # "human"

ASSUME ConsoleAssumed == ConsoleAssumption

VARIABLES status,    \* run_state.status
          reason,    \* of the pause or quarantine in force
          pos,       \* the current step; 0 before the start turn
          gate,      \* human pauses so far: the last one's number
          intents,   \* the log's intents, in order
          applied,   \* last_applied_seq
          turn,      \* the dispatch in flight: what it folded
          pauseMark, \* routing's pause_after_dispatch
          settled,   \* history: which answer each settled gate consumed
          terminal,  \* each command line: idle, or between its read and its write
          page,      \* what the page shows
          card,      \* the page's gate card has turned into the decision
          request,   \* the page's request under way
          faults

run == <<status, reason, pos, gate>>
engine == <<turn, pauseMark, settled>>
web == <<page, card, request>>
vars == <<run, intents, applied, engine, terminal, web, faults>>

Resting == {"paused", "paused_human", "paused_auto", "quarantined"}
Ended == {"completed", "cancelled", "halted"}
CapReasons == {"max_retries", "goal_gate", "max_loops"}

Routes == IF pos = 0 THEN {} ELSE Flow[pos]
GateOpen(g) == status = "paused_human" /\ gate = g
View == [status |-> status, reason |-> reason, gate |-> gate, routes |-> Routes]

Init ==
    /\ status = "queued" /\ reason = None /\ pos = 0 /\ gate = 0
    /\ intents = <<>> /\ applied = 0
    /\ turn = None /\ pauseMark = FALSE /\ settled = {}
    /\ terminal = [t \in Terminals |-> None]
    /\ page = View /\ card = FALSE /\ request = None
    /\ faults = 0

----------------------------------------------------------------------------
\* The intent plane

\* A control intent; `gate` and `open` remember which question it answers.
Intent(kind, arg, g) == [kind |-> kind, arg |-> arg, gate |-> g, open |-> GateOpen(g)]

\* appendIntent: no version check, in any status.
Commit(i) == Len(intents) < MaxIntents /\ intents' = Append(intents, i)

\* retry and treat_as_done would replay the run over a tree the operator owns.
BuildUnquarantine(resolution) == ~(InCheckout /\ resolution \in {"retry", "treat_as_done"})

Build(kind, arg) == kind = "unquarantine" => BuildUnquarantine(arg)

----------------------------------------------------------------------------
\* The command line

\* writeIntent: the verbs that neither read a gate nor follow up.
WriteIntent(t) ==
    /\ terminal[t] = None
    /\ \E v \in Verbs :
         /\ Build(v.kind, v.arg)
         /\ Commit(Intent(v.kind, v.arg, 0))
         /\ terminal' = [terminal EXCEPT ![t] =
                IF v.kind = "raise" /\ v.resume THEN [step |-> "resume", gate |-> 0, routes |-> {}] ELSE None]
    /\ UNCHANGED <<run, applied, engine, web, faults>>

\* --resume: a second commit, the cap raise being persisted already.
ResumeAfter(t) ==
    /\ terminal[t] # None /\ terminal[t].step = "resume"
    /\ Commit(Intent("resume", None, 0))
    /\ terminal' = [terminal EXCEPT ![t] = None]
    /\ UNCHANGED <<run, applied, engine, web, faults>>

\* respond reads the status and the last human pause's routes ...
RespondRead(t) ==
    /\ terminal[t] = None
    /\ status = "paused_human"
    /\ terminal' = [terminal EXCEPT ![t] = [step |-> "pick", gate |-> gate, routes |-> Routes]]
    /\ UNCHANGED <<run, intents, applied, engine, web, faults>>

\* ... and commits what the operator picked, however long that took.
RespondPick(t) ==
    /\ terminal[t] # None /\ terminal[t].step = "pick"
    /\ \E r \in terminal[t].routes : Commit(Intent("human", r, terminal[t].gate))
    /\ terminal' = [terminal EXCEPT ![t] = None]
    /\ UNCHANGED <<run, applied, engine, web, faults>>

\* The operator leaves the picker, or the command dies between its two writes.
Abandon(t) ==
    /\ terminal[t] # None
    /\ terminal' = [terminal EXCEPT ![t] = None]
    /\ UNCHANGED <<run, intents, applied, engine, web, faults>>

----------------------------------------------------------------------------
\* The page

Offer(kind, arg, then) == [kind |-> kind, arg |-> arg, then |-> then]

ResumeCancelActions == {Offer("resume", None, None), Offer("cancel", None, None)}
\* A limit that is saved is followed by a resume.
BudgetActions == {Offer("raise", None, "resume")} \union ResumeCancelActions
CapAdjustActions == {Offer("raise", None, "resume")} \union ResumeCancelActions

\* The pause no later resume, end or quarantine has lifted.
findActivePause(v) == IF v.status \in {"paused", "paused_auto"} THEN v.reason ELSE None

\* RunPausedNotice, by the reason of the pause.
Renderers(v) ==
    LET active == findActivePause(v)
    IN IF active = None THEN {}
       ELSE IF active = "budget" THEN BudgetActions
       ELSE IF active \in CapReasons THEN CapAdjustActions ELSE ResumeCancelActions

\* RunQuarantinedNotice: the three resolutions, or cancel alone in a checkout.
Resolutions(v) ==
    IF v.status # "quarantined" THEN {}
    ELSE {Offer("unquarantine", r, None) :
            r \in IF InCheckout THEN {"cancel"} ELSE {"cancel", "retry", "treat_as_done"}}

\* RunControls: paused has its own cancel, a gate its own way forward.
RunControls(v) ==
    (IF v.status = "running" THEN {Offer("pause", None, None)} ELSE {})
      \union (IF v.status = "paused_auto" THEN {Offer("resume", None, None)} ELSE {})
      \union (IF v.status \in {"running", "queued", "paused_human", "paused_auto"}
              THEN {Offer("cancel", None, None)} ELSE {})

\* HitlChoice: a button for each declared route.
HitlChoice(v) == {Offer("human", r, None) : r \in v.routes}

\* HitlStepCard: the choice, until its own submit was accepted.
HitlStepCard(v) ==
    IF v.status = "paused_human" /\ ~card THEN HitlChoice(v) ELSE {}

\* RunCapControls: in any status that is not settled.
RunCapControls(v) ==
    IF v.status \in Ended \union {"quarantined"} THEN {} ELSE {Offer("raise", None, None)}

Offers(v) == Renderers(v) \union Resolutions(v) \union RunControls(v) \union HitlStepCard(v) \union RunCapControls(v)

\* The page renders what arrived. The card keeps its state while it is mounted,
\* and it is unmounted only by a rendering that shows no gate.
Render ==
    /\ page # View
    /\ page' = View
    /\ card' = (card /\ page.status = "paused_human" /\ status = "paused_human")
    /\ UNCHANGED <<run, intents, applied, engine, terminal, request, faults>>

\* The request a button posts, for the gate the page showed.
Request(o) == [kind |-> o.kind, arg |-> o.arg, then |-> o.then, gate |-> page.gate, checked |-> FALSE]

Click ==
    /\ request = None
    /\ \E o \in Offers(page) :
         request' = Request(o)
    /\ UNCHANGED <<run, intents, applied, engine, terminal, page, card, faults>>

Respond(done) == request' = None /\ card' = (card \/ done)

----------------------------------------------------------------------------
\* The server's intent routes

\* POST /runs/:id/human reads the status and the latest gate's routes; a refusal
\* ends the request. The other routes have nothing to read.
Check ==
    /\ request # None /\ ~request.checked
    /\ IF request.kind = "human"
          THEN status = "paused_human" /\ request.arg \in Routes
          ELSE Build(request.kind, request.arg)
    /\ request' = [request EXCEPT !.checked = TRUE]
    /\ UNCHANGED <<run, intents, applied, engine, terminal, page, card, faults>>

Refuse ==
    /\ request # None /\ ~request.checked
    /\ IF request.kind = "human"
          THEN ~(status = "paused_human" /\ request.arg \in Routes)
          ELSE ~Build(request.kind, request.arg)
    /\ Respond(FALSE)
    /\ UNCHANGED <<run, intents, applied, engine, terminal, page, faults>>

\* appendIntentOr413. The page sends the follow-up once the first has answered.
AppendIntent ==
    /\ request # None /\ request.checked
    /\ Commit(Intent(request.kind, request.arg, IF request.kind = "human" THEN request.gate ELSE 0))
    /\ IF request.then = None
          THEN Respond(request.kind = "human")
          ELSE /\ request' = [request EXCEPT !.kind = request.then, !.then = None, !.checked = FALSE]
               /\ UNCHANGED card
    /\ UNCHANGED <<run, applied, engine, terminal, page, faults>>

\* The page is closed, or the request fails on its way.
LoseRequest ==
    /\ request # None
    /\ faults < MaxFaults /\ faults' = faults + 1
    /\ Respond(FALSE)
    /\ UNCHANGED <<run, intents, applied, engine, terminal, page>>

----------------------------------------------------------------------------
\* wakePending, at the top of every executor tick

Pending(kind) == {s \in applied + 1 .. Len(intents) : intents[s].kind = kind}
First(S) == CHOOSE s \in S : \A x \in S : s <= x
Last(S) == CHOOSE s \in S : \A x \in S : s >= x

Goto(s, r) == status' = s /\ reason' = r

\* Each pass takes the first pending intent of its kind. The cancel is consumed
\* by the wake; an answer and a resume are left for the fold.
WakeCancel ==
    /\ status \in Resting \union {"queued"}
    /\ Pending("cancel") # {}
    /\ Goto("cancelled", None)
    /\ applied' = First(Pending("cancel"))
    /\ UNCHANGED <<pos, gate, intents, engine, terminal, web, faults>>

\* The wake consumes the answer.
FaultWakeHuman ==
    /\ status = "paused_human"
    /\ Pending("cancel") = {}
    /\ Pending("human") # {}
    /\ Goto("queued", None)
    /\ applied' = First(Pending("human"))
    /\ UNCHANGED <<pos, gate, intents, engine, terminal, web, faults>>

WakeHuman ==
    /\ status = "paused_human"
    /\ Pending("cancel") = {}
    /\ Pending("human") # {}
    /\ Goto("queued", None)
    /\ UNCHANGED <<pos, gate, intents, applied, engine, terminal, web, faults>>

WakeResume ==
    /\ status \in Resting \ {"quarantined"}
    /\ Pending("cancel") = {}
    /\ Pending("resume") # {}
    /\ Goto("queued", None)
    /\ UNCHANGED <<pos, gate, intents, applied, engine, terminal, web, faults>>

WakeAutoResume ==
    /\ status = "paused_auto"
    /\ Pending("cancel") = {}
    /\ Goto("queued", None)
    /\ UNCHANGED <<pos, gate, intents, applied, engine, terminal, web, faults>>

\* Everything up to the resolution is folded with it; a cancel there wins.
WakeUnquarantine ==
    /\ status = "quarantined"
    /\ Pending("unquarantine") # {}
    /\ LET s == First(Pending("unquarantine"))
           cancelled == intents[s].arg = "cancel" \/ \E c \in Pending("cancel") : c < s
       IN /\ applied' = s
          /\ Goto(IF cancelled THEN "cancelled" ELSE "queued", None)
    /\ UNCHANGED <<pos, gate, intents, engine, terminal, web, faults>>

Wake == WakeCancel \/ WakeHuman \/ WakeResume \/ WakeAutoResume \/ WakeUnquarantine

----------------------------------------------------------------------------
\* The turn loop

Claim ==
    /\ status = "queued"
    /\ Pending("cancel") = {}
    /\ Goto("running", None)
    /\ UNCHANGED <<pos, gate, intents, applied, engine, terminal, web, faults>>

\* foldIntents: a cancel ends the run; a pause alone parks it; with an answer in
\* the same batch the pause waits for the dispatch; the last answer wins.
Folded ==
    [upTo  |-> Len(intents),
     human |-> IF Pending("human") = {} THEN 0 ELSE Last(Pending("human")),
     pause |-> Pending("pause") # {} /\ Pending("human") # {}]

AtBoundary == status = "running" /\ turn = None

FoldCancel ==
    /\ AtBoundary /\ Pending("cancel") # {}
    /\ Goto("cancelled", None) /\ applied' = Len(intents)
    /\ UNCHANGED <<pos, gate, intents, engine, terminal, web, faults>>

\* The fold puts a pause before an answer and uses both up.
FaultFoldPause ==
    /\ AtBoundary /\ Pending("cancel") = {}
    /\ Pending("pause") # {}
    /\ Goto("paused", "operator") /\ applied' = Len(intents)
    /\ UNCHANGED <<pos, gate, intents, engine, terminal, web, faults>>

FoldPause ==
    /\ AtBoundary /\ Pending("cancel") = {}
    /\ Pending("pause") # {} /\ Pending("human") = {}
    /\ Goto("paused", "operator") /\ applied' = Len(intents)
    /\ UNCHANGED <<pos, gate, intents, engine, terminal, web, faults>>

FoldProceed ==
    /\ AtBoundary /\ Pending("cancel") = {}
    /\ Pending("pause") = {} \/ Pending("human") # {}
    /\ turn' = Folded
    /\ UNCHANGED <<run, intents, applied, pauseMark, settled, terminal, web, faults>>

\* startRun commits the fold with fact.run_started: no handler sees an answer.
StartRun ==
    /\ turn # None /\ pos = 0
    /\ pos' = 1
    /\ applied' = turn.upTo /\ turn' = None
    /\ pauseMark' = (pauseMark \/ turn.pause)
    /\ UNCHANGED <<status, reason, gate, intents, settled, terminal, web, faults>>

\* The step is left: for the next one, the exit, or the deferred pause.
Advance ==
    LET deferred == turn.pause \/ pauseMark
    IN /\ pos' = IF pos = Len(Flow) THEN pos ELSE pos + 1
       /\ pauseMark' = FALSE
       /\ IF pos = Len(Flow) THEN Goto("completed", None)
          ELSE IF deferred THEN Goto("paused", "operator") ELSE UNCHANGED <<status, reason>>

\* The human handler without an answer yields, and opens a gate.
YieldHuman ==
    /\ turn # None /\ Routes # {}
    /\ turn.human = 0
    /\ gate < MaxGates /\ gate' = gate + 1
    /\ Goto("paused_human", "human")
    /\ applied' = turn.upTo /\ turn' = None
    /\ UNCHANGED <<pos, intents, pauseMark, settled, terminal, web, faults>>

\* With one it takes the route; a route that is not its own halts the run.
TakeRoute ==
    /\ turn # None /\ Routes # {}
    /\ turn.human # 0
    /\ IF intents[turn.human].arg \in Routes
          THEN Advance
          ELSE Goto("halted", "error") /\ UNCHANGED <<pos, pauseMark>>
    /\ settled' = settled \union {[answer |-> turn.human, gate |-> gate]}
    /\ applied' = turn.upTo /\ turn' = None
    /\ UNCHANGED <<gate, intents, terminal, web, faults>>

\* Any other step completes, whatever answer its turn folded ...
StepDone ==
    /\ turn # None /\ pos > 0 /\ Routes = {}
    /\ Advance
    /\ applied' = turn.upTo /\ turn' = None
    /\ UNCHANGED <<gate, intents, settled, terminal, web, faults>>

\* ... or parks at a cap, a provider or a retry.
StepParks ==
    /\ turn # None /\ pos > 0 /\ Routes = {}
    /\ faults < MaxFaults /\ faults' = faults + 1
    /\ \/ \E r \in {"budget", "provider_error"} : Goto("paused", r)
       \/ Goto("paused_auto", "provider_retry")
    /\ applied' = turn.upTo /\ turn' = None
    /\ UNCHANGED <<pos, gate, intents, pauseMark, settled, terminal, web>>

\* The supervisor trips the handler of a long step on a cancel or a pause.
StepAborts ==
    /\ turn # None /\ pos > 0 /\ Routes = {}
    /\ \E s \in turn.upTo + 1 .. Len(intents) : intents[s].kind \in {"cancel", "pause"}
    /\ applied' = turn.upTo /\ turn' = None
    /\ UNCHANGED <<run, intents, pauseMark, settled, terminal, web, faults>>

\* The daemon dies and the sweep finds the run: an orphaned side effect of a
\* step quarantines it, and a quarantined run has lost its place.
Crash ==
    /\ status = "running"
    /\ faults < MaxFaults /\ faults' = faults + 1
    /\ turn' = None
    /\ \/ Goto("queued", None) /\ UNCHANGED pos
       \/ pos > 0 /\ Routes = {} /\ Goto("quarantined", "orphan_side_effect") /\ pos' = 0
    /\ UNCHANGED <<gate, intents, applied, pauseMark, settled, terminal, web>>

Handler == StartRun \/ YieldHuman \/ TakeRoute \/ StepDone \/ StepParks \/ StepAborts
Turn == Claim \/ FoldCancel \/ FoldPause \/ FoldProceed \/ Handler

Operator == \E t \in Terminals : WriteIntent(t) \/ ResumeAfter(t) \/ RespondRead(t) \/ RespondPick(t) \/ Abandon(t)
Page == Render \/ Click \/ Check \/ Refuse \/ AppendIntent \/ LoseRequest

Next == Operator \/ Page \/ Wake \/ Turn \/ Crash

\* The executor ticks and a handler ends; operators and pages promise nothing.
Fairness == WF_vars(Wake) /\ WF_vars(Turn)
Spec == Init /\ [][Next]_vars /\ Fairness

----------------------------------------------------------------------------
TypeOK ==
    /\ status \in {"queued", "running"} \union Resting \union Ended
    /\ pos \in 0 .. Len(Flow) /\ gate \in 0 .. MaxGates
    /\ applied \in 0 .. Len(intents) /\ Len(intents) <= MaxIntents
    /\ turn # None => turn.upTo \in applied .. Len(intents) /\ status = "running"
    /\ settled \subseteq [answer : 1 .. MaxIntents, gate : 1 .. MaxGates]

Answers == {s \in 1 .. Len(intents) : intents[s].kind = "human"}
OpenAnswers == {s \in Answers : intents[s].open}
Settled(g) == \E c \in settled : c.gate = g

\* An answer committed while its gate is open goes to that gate and no other,
\* and is never used up without it: when the watermark passes it, its gate was
\* settled, by it or by a later answer, or the run was cancelled. wakeHuman
\* leaves the answer to the fold, which may be of a later daemon.
AnswerMeetsItsGate ==
    \A s \in OpenAnswers :
        /\ \A c \in settled : c.answer = s => c.gate = intents[s].gate
        /\ s <= applied => Settled(intents[s].gate) \/ status = "cancelled"

\* An answer to an open gate moves the run on, whatever else the operators ask
\* for and whether or not the daemon dies in between.
AnswerMovesRun ==
    \A g \in 1 .. MaxGates :
        (\E s \in OpenAnswers : intents[s].gate = g) ~> (Settled(g) \/ status = "cancelled")

\* Whatever the operator answers, a gate only ever consumes an answer given to
\* it. An intent does not name its gate, so this is not what the code does.
GateTakesOwnAnswer == \A c \in settled : intents[c.answer].gate = c.gate
=============================================================================
