------------------------------ MODULE Schedules ------------------------------
(***************************************************************************)
(* Recurring runs.  The `schedules` table is the state; operators write    *)
(* it from the CLI and the HTTP routes, one transaction per verb, and the  *)
(* dispatcher fiber of the daemon scans it once per tick:                  *)
(*                                                                         *)
(*   scan the due rows -> per row: skip | auto-pause | enqueue -> record   *)
(*                                                                         *)
(* The scan is one read, every arrow after it is a transaction of its own, *)
(* so operators, crashes and exceptions come between them.  `at` of a run  *)
(* is the tick's own clock reading, which may be older than the clock.     *)
(***************************************************************************)
EXTENDS Integers, Sequences

CONSTANTS
    Ids,           \* schedule ids, in their sort order
    Daemons,       \* dispatchers that may be alive; the daemon lock allows one
    SkipIds,       \* the schedules with overlap_policy 'skip'
    Interval,      \* interval_ms, in ticks of the model's clock
    MaxTime,       \* bound on the clock
    MaxFaults,     \* crashes and failed ticks in one behaviour
    MaxVerbs,      \* pauses, resumes, deletions and edits in one behaviour
    None

SchedulesAssumption ==
    /\ Ids \subseteq Nat
    /\ Interval \in Nat /\ MaxTime \in Nat
    /\ \A d, e \in Daemons : d = e

VARIABLES
    clock,     \* wall clock
    rows,      \* the schedules table
    cause,     \* ids with a fact.schedule_invalid_workflow in daemon_events
    pausedBy,  \* history: who paused the row
    broken,    \* ids whose workflow_ref does not resolve, read or validate now
    runs,      \* runs fired by schedules, oldest first
    disp,      \* the dispatcher of each daemon
    faults,    \* crashes and failed ticks so far
    verbs      \* pauses, resumes, deletions and edits so far

vars == <<clock, rows, cause, pausedBy, broken, runs, disp, faults, verbs>>

Verb == verbs < MaxVerbs /\ verbs' = verbs + 1

Row == [state : {"absent", "live", "deleted"}, paused : BOOLEAN,
        next : 0 .. MaxTime + Interval, last : Nat]

Run == [of : Ids, at : 0 .. MaxTime, recorded : BOOLEAN, everSettled : BOOLEAN,
        status : {"active", "quarantined", "terminal"}]

\* isSettled: terminal, or quarantined (it owes an operator action)
Settled(status) == status \in {"terminal", "quarantined"}

\* A row of a due list: when it was due, and the run of its last recorded fire.
DueRow == [id : Ids, next : 0 .. MaxTime + Interval, last : Nat]

\* The dispatcher is down, asleep, at a row of its due list, or between the
\* enqueue of a run and the record of the fire.
Dispatcher == [phase : {"down", "asleep", "row", "record"}, now : 0 .. MaxTime,
               due : SUBSET DueRow, run : Nat]

\* Type invariant.
TypeOK ==
    /\ clock \in 0 .. MaxTime
    /\ rows \in [Ids -> Row]
    /\ cause \subseteq Ids /\ broken \subseteq Ids
    /\ pausedBy \in [Ids -> {"operator", "dispatcher", None}]
    /\ runs \in Seq(Run)
    /\ disp \in [Daemons -> Dispatcher]
    /\ \A d \in Daemons : disp[d].phase = "record" => disp[d].run \in DOMAIN runs

Asleep == [phase |-> "asleep", now |-> 0, due |-> {}, run |-> 0]

\* A schedule added paused, or not there yet.
ScheduleRow(held) == [state |-> IF held THEN "live" ELSE "absent", paused |-> held, next |-> 0, last |-> 0]

\* resolveSchedulingWorkflow fails.
Unresolvable(s) == s \in broken

\* selectLatestScheduleError: what `schedule list` shows as the cause of a pause.
LatestError(s) == s \in cause

\* schedules not yet created, or paused since an earlier life of the daemon
Init ==
    /\ clock = 0 /\ faults = 0 /\ verbs = 0
    /\ \E held \in SUBSET Ids :
          /\ rows = [s \in Ids |-> ScheduleRow(s \in held)]
          /\ pausedBy = [s \in Ids |-> IF s \in held THEN "operator" ELSE None]
    /\ cause = {} /\ broken = {} /\ runs = <<>>
    /\ disp = [d \in Daemons |-> Asleep]

----------------------------------------------------------------------------
(* Operators: `fragua schedule ...` and the schedule routes.  Each verb    *)
(* first checks that the row exists.                                       *)

\* buildScheduleCreate, createScheduleAudited: ids are minted, never reused
Create(s, fireOnCreate) ==
    /\ rows[s].state = "absent"
    /\ rows' = [rows EXCEPT ![s] = [state |-> "live", paused |-> FALSE, last |-> 0,
                    next |-> IF fireOnCreate THEN clock ELSE clock + Interval]]
    /\ UNCHANGED <<clock, cause, pausedBy, broken, runs, disp, faults, verbs>>

\* UPDATE ... SET paused_at = ? WHERE paused_at IS NULL
PausedRow(s) == [rows EXCEPT ![s].paused = @ \/ rows[s].state = "live"]
BlamePause(s, who) ==
    IF rows[s].state = "live" /\ ~rows[s].paused THEN [pausedBy EXCEPT ![s] = who] ELSE pausedBy

Pause(s) ==
    /\ rows[s].state = "live" /\ Verb
    /\ rows' = PausedRow(s) /\ pausedBy' = BlamePause(s, "operator")
    /\ UNCHANGED <<clock, cause, broken, runs, disp, faults>>

\* updateScheduleResumed: re-anchored, so a resume never fires by itself
Resume(s) ==
    /\ rows[s].state = "live" /\ rows[s].paused /\ Verb
    /\ rows' = [rows EXCEPT ![s].paused = FALSE, ![s].next = clock + Interval]
    /\ pausedBy' = [pausedBy EXCEPT ![s] = None]
    /\ UNCHANGED <<clock, cause, broken, runs, disp, faults>>

Delete(s) ==
    /\ rows[s].state = "live" /\ Verb
    /\ rows' = [rows EXCEPT ![s] = [state |-> "deleted", paused |-> FALSE, next |-> 0, last |-> 0]]
    /\ UNCHANGED <<clock, cause, pausedBy, broken, runs, disp, faults>>

----------------------------------------------------------------------------
(* The dispatcher.                                                         *)

Due(s) == rows[s].state = "live" /\ ~rows[s].paused /\ rows[s].next <= clock

\* selectDueSchedules. The tick keeps the rows it read, in particular last_run_id.
DueRows == {[id |-> s, next |-> rows[s].next, last |-> rows[s].last] : s \in {s \in Ids : Due(s)}}

\* ORDER BY next_fire_at, id
Earlier(a, b) == a.next < b.next \/ (a.next = b.next /\ a.id < b.id)

\* The row whose turn it is.
AtRow(d, e, phase) ==
    /\ disp[d].phase = phase
    /\ e \in disp[d].due /\ \A f \in disp[d].due : ~Earlier(f, e)

\* scheduleDispatcherTick
Tick(d) ==
    /\ disp[d].phase = "asleep" /\ DueRows # {}
    /\ disp' = [disp EXCEPT ![d] = [@ EXCEPT !.phase = "row", !.now = clock, !.due = DueRows]]
    /\ UNCHANGED <<clock, rows, cause, pausedBy, broken, runs, faults, verbs>>

\* the loop goes on with the rest of the list, or the fiber sleeps
NextRow(d, e) ==
    IF disp[d].due = {e} THEN [disp EXCEPT ![d] = Asleep]
    ELSE [disp EXCEPT ![d].phase = "row", ![d].due = @ \ {e}, ![d].run = 0]

\* the test for a settled prior run is negated once too often
FaultOverlaps(e) == e.last # 0 /\ Settled(runs[e.last].status)

\* overlap_policy 'skip' and the run of the last recorded fire has not settled
Overlaps(e) == e.id \in SkipIds /\ e.last # 0 /\ ~Settled(runs[e.last].status)

\* next_fire_at is left where it was
FaultStaysDue(s, now) == rows[s].next

\* recordScheduleSkipped
AdvancedFrom(s, now) == IF rows[s].state = "live" THEN now + Interval ELSE rows[s].next

SkipRow(d, e) ==
    /\ AtRow(d, e, "row") /\ Overlaps(e)
    /\ rows' = [rows EXCEPT ![e.id].next = AdvancedFrom(e.id, disp[d].now)]
    /\ disp' = NextRow(d, e)
    /\ UNCHANGED <<clock, cause, pausedBy, broken, runs, faults, verbs>>

\* resolveSchedulingWorkflow, readFileSync or buildSaveWorkflow failed
AutoPause(d, e) ==
    /\ AtRow(d, e, "row") /\ ~Overlaps(e) /\ Unresolvable(e.id)
    /\ rows' = PausedRow(e.id) /\ pausedBy' = BlamePause(e.id, "dispatcher")
    /\ cause' = cause \cup {e.id}
    /\ disp' = NextRow(d, e)
    /\ UNCHANGED <<clock, broken, runs, faults, verbs>>

\* commitSaveWorkflow and commitEnqueue; the row is read again by nobody
Enqueue(d, e) ==
    /\ AtRow(d, e, "row") /\ ~Overlaps(e) /\ ~Unresolvable(e.id)
    /\ runs' = Append(runs, [of |-> e.id, at |-> disp[d].now, recorded |-> FALSE,
                             everSettled |-> FALSE, status |-> "active"])
    /\ disp' = [disp EXCEPT ![d].phase = "record", ![d].run = Len(runs) + 1]
    /\ UNCHANGED <<clock, rows, cause, pausedBy, broken, faults, verbs>>

\* recordScheduleFire: last_run_id, and next_fire_at anchored to this fire
Record(d, e) ==
    /\ AtRow(d, e, "record")
    /\ rows' = [rows EXCEPT ![e.id].next = AdvancedFrom(e.id, disp[d].now),
                            ![e.id].last = IF rows[e.id].state = "live" THEN disp[d].run ELSE @]
    /\ runs' = [runs EXCEPT ![disp[d].run].recorded = TRUE]
    /\ disp' = NextRow(d, e)
    /\ UNCHANGED <<clock, cause, pausedBy, broken, faults, verbs>>

\* A write of the tick throws (a busy database): the loop logs and sleeps, the
\* rest of the list waits for the next tick.
TickFails(d) ==
    /\ disp[d].phase \in {"row", "record"} /\ faults < MaxFaults
    /\ faults' = faults + 1
    /\ disp' = [disp EXCEPT ![d] = Asleep]
    /\ UNCHANGED <<clock, rows, cause, pausedBy, broken, runs, verbs>>

Crash(d) ==
    /\ disp[d].phase # "down" /\ faults < MaxFaults
    /\ faults' = faults + 1
    /\ disp' = [disp EXCEPT ![d] = [Asleep EXCEPT !.phase = "down"]]
    /\ UNCHANGED <<clock, rows, cause, pausedBy, broken, runs, verbs>>

\* startScheduleDispatcher, once the daemon has the lock
Start(d) ==
    /\ disp[d].phase = "down"
    /\ disp' = [disp EXCEPT ![d] = Asleep]
    /\ UNCHANGED <<clock, rows, cause, pausedBy, broken, runs, faults, verbs>>

----------------------------------------------------------------------------
(* The runs and the file system.                                           *)

\* a run ends or is quarantined, and an operator lifts a quarantine (only for
\* the schedules whose dispatch reads the status)
RunMoves(i, status) ==
    /\ runs[i].of \in SkipIds
    /\ \/ runs[i].status = "active" /\ status # "active"
       \/ runs[i].status = "quarantined" /\ status # "quarantined"
    /\ runs' = [runs EXCEPT ![i].status = status, ![i].everSettled = @ \/ Settled(status)]
    /\ UNCHANGED <<clock, rows, cause, pausedBy, broken, disp, faults, verbs>>

EditWorkflow(s) ==
    /\ rows[s].state = "live" /\ Verb
    /\ broken' = IF s \in broken THEN broken \ {s} ELSE broken \cup {s}
    /\ UNCHANGED <<clock, rows, cause, pausedBy, runs, disp, faults>>

Elapse ==
    /\ clock < MaxTime
    /\ clock' = clock + 1
    /\ UNCHANGED <<rows, cause, pausedBy, broken, runs, disp, faults, verbs>>

Dispatch(d) ==
    \/ Tick(d)
    \/ \E e \in disp[d].due : SkipRow(d, e) \/ AutoPause(d, e) \/ Enqueue(d, e) \/ Record(d, e)

Next ==
    \/ \E s \in Ids : \/ \E f \in BOOLEAN : Create(s, f)
                      \/ Pause(s) \/ Resume(s) \/ Delete(s) \/ EditWorkflow(s)
    \/ \E d \in Daemons : Dispatch(d) \/ TickFails(d) \/ Crash(d) \/ Start(d)
    \/ \E i \in DOMAIN runs : \E t \in {"active", "quarantined", "terminal"} : RunMoves(i, t)
    \/ Elapse

\* The fiber loops for as long as its daemon lives, and a harness restarts a
\* daemon that died.
Fairness == \A d \in Daemons : WF_vars(Dispatch(d)) /\ WF_vars(Start(d))

Spec == Init /\ [][Next]_vars /\ Fairness

----------------------------------------------------------------------------
(* Properties.                                                             *)

\* Two recorded fires of one schedule are at least an interval apart, whatever
\* the operator pauses and resumes and however late the ticks run: a catch-up
\* is one fire, and next_fire_at counts from it and not from the missed slot.
FiresSpaced ==
    \A i, j \in DOMAIN runs :
        (i < j /\ runs[i].of = runs[j].of /\ runs[i].recorded /\ runs[j].recorded)
            => runs[j].at - runs[i].at >= Interval

\* With overlap 'skip', a run fired while an older run of the schedule is
\* under way has an excuse: the fire of the older one was never recorded, or
\* the older one had settled once (a quarantine an operator lifted).
OverlapNeedsAnExcuse ==
    \A i, j \in DOMAIN runs :
        (/\ i < j /\ runs[i].of = runs[j].of /\ runs[i].of \in SkipIds
         /\ runs[i].status = "active" /\ runs[j].status = "active")
            => ~runs[i].recorded \/ runs[i].everSettled

\* A due schedule does not stay due: a tick fires, skips or pauses it, also
\* when a tick before it failed half way through its list or the daemon died.
DueServed == \A s \in Ids : Due(s) ~> ~Due(s)

\* The header of the dispatcher: with overlap 'skip' there is no fire while
\* the prior run has not ended.  Not kept: a crash between the enqueue and the
\* record leaves a run the next tick does not know of.
SkipOnOverlap ==
    \A i, j \in DOMAIN runs :
        (i < j /\ runs[i].of = runs[j].of /\ runs[i].of \in SkipIds /\ ~runs[i].everSettled)
            => runs[i].status # "active" \/ runs[j].status # "active"

\* `schedule list` prints the newest invalid-workflow event of a paused row as
\* what paused it.  Not kept once that schedule was repaired and resumed.
CauseIsCurrent ==
    \A s \in Ids : rows[s].paused /\ LatestError(s) => pausedBy[s] = "dispatcher"

=============================================================================
