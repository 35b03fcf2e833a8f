------------------------------- MODULE Judge --------------------------------
(***************************************************************************)
(* A judge step: typed questions about a state, or about every item of a   *)
(* list, asked of a System One provider (packages/core/src/handler/        *)
(* handlers/judge.ts, judge-client.ts, judge-provider.ts, types/judge.ts,  *)
(* parser/judge.ts, agent/src/credentials/judge-provider-registry.ts,      *)
(* workspace/src/judge-tool.ts).                                           *)
(*                                                                         *)
(* A list is cut into chunks that fit the provider's budgets; a question   *)
(* is asked once per item under the item's global index and aimed at its   *)
(* place in the chunk. A request is retried, refused or cut short; what    *)
(* comes back is folded per item and decides the step. Numbers are scaled  *)
(* to small integers: a noul and a score run from 0 to 2.                  *)
(***************************************************************************)
EXTENDS Integers, Sequences, FiniteSets, SequencesExt, Functions

CONSTANTS Items,        \* items a list may hold: size, and what the model says of each
          Configs,      \* steps considered, well formed or not
          Setups,       \* a provider's built-in record, its configured row, the model's limits
          MaxItems,     \* for-each-max-items, and a bound of the lists considered
          MaxAttempts,  \* requests of one ask
          None

VARIABLES cfg,       \* the step: mode, rules of keep and review, decide, routes
          items,     \* the list
          setup,     \* what the provider is configured with
          pc,        \* where the handler is
          plan,      \* chunks of indices, one request each
          at,        \* the chunk being asked
          attempt,   \* requests made for it
          answers,   \* answers so far, by global index
          result     \* what the handler returned

vars == <<cfg, items, setup, pc, plan, at, attempt, answers, result>>
given == <<cfg, items, setup>>
asked == <<at, attempt, answers>>

\* Bytes: the shared state, the questions of one item, the longest question.
Shared == 1
PerItem == 1
Longest == 1
\* A composite: the weighted mean of the noul and the score.
Weights == [n |-> 1, s |-> 2]
WeightSum == 3
Options == {"a", "b"}

Init ==
    /\ cfg \in Configs /\ setup \in Setups
    /\ items \in (IF cfg.mode = "list" THEN UNION {[1 .. k -> Items] : k \in 0 .. MaxItems + 1} ELSE {<<i>> : i \in Items})
    /\ pc = "start" /\ plan = <<>> /\ at = 1 /\ attempt = 0
    /\ answers = <<>> /\ result = None

----------------------------------------------------------------------------
\* What the parser and the validator let through

\* A threshold: a noul or the composite, with a bound at least, min under max.
RuleParses(r) ==
    /\ r.question \in {"n", "c"}
    /\ r.min # None \/ r.max # None
    /\ r.min # None /\ r.max # None => r.min <= r.max

\* Floors and their landing come together, every option has a route, every route
\* is an option or the landing; an outcome judge has no routes.
WellFormed ==
    /\ \A r \in cfg.keep \union cfg.review \union cfg.rules : RuleParses(r)
    /\ CASE cfg.mode = "route" -> /\ (cfg.floor # None \/ cfg.share # None) <=> (cfg.below # None)
                                  /\ Options \subseteq cfg.routes
                                  /\ cfg.routes \subseteq Options \union {cfg.below}
                                  /\ cfg.below # None => cfg.below \in cfg.routes
         [] cfg.mode = "outcome" -> cfg.rules # {} /\ cfg.routes = {}
         [] OTHER -> cfg.routes = {}

\* loadJudgeProviders: a row lies over the built-in record field by field, a zero
\* is what it does not set; a new provider has to set them all.
Overlay(base, row) ==
    [f \in {"request", "state"} |-> IF row[f] # 0 THEN row[f] ELSE IF base = None THEN 0 ELSE base[f]]

Record ==
    IF setup.row = None THEN setup.base
    ELSE LET r == Overlay(setup.base, setup.row)
         IN IF setup.base = None /\ 0 \in Range(r) THEN None ELSE r

\* judgeLimitsFor: the model's own numbers over the provider's.
Limits == IF setup.model = None THEN Record ELSE Overlay(Record, setup.model)

----------------------------------------------------------------------------
\* Before the first request

Return(r) == result' = r /\ pc' = "end"
Fail == [kind |-> "fail"]
Halt == [kind |-> "halt"]

Refuse ==
    /\ pc = "start" /\ ~WellFormed
    /\ Return([kind |-> "invalid"])
    /\ UNCHANGED <<given, plan, asked>>

\* No client is a halt, an unknown provider or a model nobody names a fail.
Unresolved ==
    /\ pc = "start" /\ WellFormed
    /\ \/ Return(Halt)
       \/ Return(Fail)
    /\ UNCHANGED <<given, plan, asked>>

\* The keys a consumer may read of a list judge's outputs.
OutputKeys == {"answers"} \union (IF cfg.keep = {} THEN {} ELSE {"kept", "dropped"})
                          \union (IF cfg.keep = {} \/ cfg.review = {} THEN {} ELSE {"review"})

\* Nothing to judge: no call, and the empty lists under the same keys.
EmptyList ==
    /\ pc = "start" /\ WellFormed /\ Record # None
    /\ cfg.mode = "list" /\ items = <<>>
    /\ Return([kind |-> "success", outputs |-> [k \in OutputKeys |-> <<>>]])
    /\ UNCHANGED <<given, plan, asked>>

Fits(bytes, count) ==
    /\ Shared + bytes + count * PerItem <= Limits.request
    /\ Shared + bytes + Longest <= Limits.state

Bytes(chunk) == FoldFunction(+, 0, [k \in DOMAIN chunk |-> items[chunk[k]].size])

\* The sum starts over one item late.
FaultCut(n) ==
    LET cut[i \in 0 .. n] ==
            IF i = 0 THEN <<>>
            ELSE LET before == cut[i - 1] IN
                 IF before # <<>> /\ Fits(Bytes(Last(before)), Len(Last(before)))
                    THEN Append(Front(before), Append(Last(before), i))
                    ELSE Append(before, <<i>>)
    IN cut[n]

\* planForEachChunks: an item joins the chunk before it while both budgets hold.
Cut(n) ==
    LET cut[i \in 0 .. n] ==
            IF i = 0 THEN <<>>
            ELSE LET before == cut[i - 1] IN
                 IF before # <<>> /\ Fits(Bytes(Last(before)) + items[i].size, Len(Last(before)) + 1)
                    THEN Append(Front(before), Append(Last(before), i))
                    ELSE Append(before, <<i>>)
    IN cut[n]

TooLarge ==
    \/ Shared + Longest > Limits.state \/ Shared > Limits.request
    \/ \E i \in DOMAIN items : ~Fits(items[i].size, 1)

\* The list is over the cap or does not parse, the shared state cannot be read or
\* is over its cap, something does not fit on its own.
RefuseState ==
    /\ pc = "start" /\ WellFormed /\ Record # None
    /\ cfg.mode = "list" => items # <<>>
    /\ Return(Fail)
    /\ UNCHANGED <<given, plan, asked>>

PlanRequests ==
    /\ pc = "start" /\ WellFormed /\ Record # None
    /\ IF cfg.mode = "list"
          THEN Len(items) \in 1 .. MaxItems /\ ~TooLarge /\ plan' = Cut(Len(items))
          ELSE plan' = <<<<1>>>>
    /\ pc' = "ask"
    /\ UNCHANGED <<given, asked, result>>

----------------------------------------------------------------------------
\* One request

\* Aimed at the item's place in the whole list.
FaultAimed(chunk, k) == chunk[k]

\* expandForEachQuestions: the question under index chunk[k] speaks of items[k] of
\* the state it is sent with.
Aimed(chunk, k) == k

\* What the provider says of an item that is not there is anything.
Says(chunk, k) == IF k \in DOMAIN chunk THEN items[chunk[k]] ELSE [items[1] EXCEPT !.n = 0, !.s = 0]

\* The answers of one response, merged under the global ids.
Merged(chunk) ==
    [i \in DOMAIN answers \union Range(chunk) |->
        IF i \in Range(chunk) THEN Says(chunk, Aimed(chunk, CHOOSE k \in DOMAIN chunk : chunk[k] = i)) ELSE answers[i]]

\* A full answer: the next chunk's turn.
Answer ==
    /\ pc = "ask" /\ attempt < MaxAttempts
    /\ answers' = Merged(plan[at])
    /\ at' = at + 1 /\ attempt' = 0
    /\ pc' = IF at = Len(plan) THEN "fold" ELSE "ask"
    /\ UNCHANGED <<given, plan, result>>

\* An answer some question or some probability is missing from.
ShortAnswer ==
    /\ pc = "ask" /\ attempt < MaxAttempts
    /\ at' = Len(plan) + 1 /\ pc' = "short"
    /\ UNCHANGED <<given, plan, attempt, answers, result>>

\* A network error, or a status that may pass: again, after a pause.
Retry ==
    /\ pc = "ask" /\ attempt < MaxAttempts
    /\ attempt' = attempt + 1
    /\ UNCHANGED <<given, pc, plan, at, answers, result>>

\* The attempts are used up: a pause the run resumes from, with every chunk again.
Exhausted ==
    /\ pc = "ask" /\ attempt = MaxAttempts
    /\ Return(IF cfg.mode = "tool" THEN [kind |-> "error"] ELSE [kind |-> "pause"])
    /\ UNCHANGED <<given, plan, asked>>

\* The statuses an author can act on are a fail; no credential and a malformed
\* response are a halt; a status nobody knows is a pause. The agent's tool hands
\* all of them to the agent.
Rejected ==
    /\ pc = "ask" /\ attempt < MaxAttempts
    /\ \E r \in {Fail, Halt, [kind |-> "pause"]} : Return(IF cfg.mode = "tool" THEN [kind |-> "error"] ELSE r)
    /\ UNCHANGED <<given, plan, asked>>

\* The signal is tripped: timed out, paused or cancelled.
Abort ==
    /\ pc = "ask"
    /\ Return([kind |-> "aborted"])
    /\ UNCHANGED <<given, plan, asked>>

----------------------------------------------------------------------------
\* From answers to outputs

\* The value a rule tests, times the sum of the weights.
RuleValue(r, a) == IF r.question = "n" THEN WeightSum * a.n ELSE Weights.n * a.n + Weights.s * a.s

\* thresholdHolds: both bounds are inclusive.
Holds(r, a) ==
    /\ r.min # None => RuleValue(r, a) >= WeightSum * r.min
    /\ r.max # None => RuleValue(r, a) <= WeightSum * r.max

HoldsAll(rules, a) == \A r \in rules : Holds(r, a)

\* foldForEach: kept, in the review band, or dropped.
Bin(a) ==
    IF HoldsAll(cfg.keep, a) THEN "kept"
    ELSE IF cfg.review # {} /\ HoldsAll(cfg.review, a) THEN "review" ELSE "dropped"

FoldForEach ==
    LET all == [i \in DOMAIN items |-> i]
    IN [k \in OutputKeys |-> IF k = "answers" THEN [i \in DOMAIN items |-> answers[i]]
                              ELSE SelectSeq(all, LAMBDA i : Bin(answers[i]) = k)]

\* applyDecide: under a floor, of the confidence or of the winner's own probability,
\* the landing is the route.
Below(a) == \/ cfg.floor # None /\ a.confidence < cfg.floor
            \/ cfg.share # None /\ a.probability < cfg.share
Route(a) == IF cfg.below # None /\ Below(a) THEN cfg.below ELSE a.choice

Decided ==
    CASE cfg.mode = "list" -> [kind |-> "success", outputs |-> FoldForEach]
      [] cfg.mode = "route" -> IF answers[1].choice \in Options
                                  THEN [kind |-> "route", route |-> Route(answers[1])]
                                  ELSE Halt
      [] cfg.mode = "outcome" -> [kind |-> IF HoldsAll(cfg.rules, answers[1]) THEN "success" ELSE "fail"]
      [] OTHER -> [kind |-> "text"]

Fold ==
    /\ pc = "fold"
    /\ Return(Decided)
    /\ UNCHANGED <<given, plan, asked>>

Malformed ==
    /\ pc = "short"
    /\ Return(IF cfg.mode = "tool" THEN [kind |-> "text"] ELSE Halt)
    /\ UNCHANGED <<given, plan, asked>>

Next ==
    \/ Refuse \/ Unresolved \/ EmptyList \/ RefuseState \/ PlanRequests
    \/ Answer \/ ShortAnswer \/ Retry \/ Exhausted \/ Rejected \/ Abort
    \/ Fold \/ Malformed

Spec == Init /\ [][Next]_vars

----------------------------------------------------------------------------
TypeOK ==
    /\ pc \in {"start", "ask", "short", "fold", "end"}
    /\ at \in 1 .. Len(plan) + 1 /\ attempt \in 0 .. MaxAttempts

\* The chunks are the list in order, each within both budgets, and no chunk ends
\* before it has to.
ChunksFit ==
    pc # "start" /\ cfg.mode = "list" /\ plan # <<>> =>
        /\ FlattenSeq(plan) = [i \in DOMAIN items |-> i]
        /\ \A k \in DOMAIN plan : Fits(Bytes(plan[k]), Len(plan[k]))
        /\ \A k \in 1 .. Len(plan) - 1 : ~Fits(Bytes(Append(plan[k], plan[k + 1][1])), Len(plan[k]) + 1)

\* A list judge's verdict on an item rests on what the provider said of that item,
\* whatever chunk it travelled in and whatever the other requests went through:
\* every item is in one list, in order, and the lists are there for an empty input
\* too. A route taken is a declared one, and what is asked is asked within limits that
\* are set.
VerdictIsOwn ==
    /\ ChunksFit
    /\ result # None /\ result.kind = "route" => result.route \in cfg.routes
    /\ result # None /\ result.kind = "success" /\ cfg.mode = "list" =>
          /\ DOMAIN result.outputs = OutputKeys
          /\ \A k \in OutputKeys \ {"answers"} :
                result.outputs[k] = SelectSeq([i \in DOMAIN items |-> i], LAMBDA i : Bin(items[i]) = k)
    /\ pc \in {"ask", "fold"} => 0 \notin Range(Limits)
=============================================================================
