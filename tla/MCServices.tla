------------------------------ MODULE MCServices ------------------------------
(* Services around the engine on small instances: blobs and their           *)
(* collector, the schedule dispatcher, provider credentials and             *)
(* definitions. The constants of the configuration are those of BlobStore.  *)
EXTENDS BlobStore, Sequences

VARIABLES
    part,   \* the component this behaviour runs
    schClock, schRows, schCause, schPausedBy, schBroken, schRuns, schDisp, schFaults,
    schVerbs,
    pvCreds, pvConfigs, pvClock, pvFlight, pvEdit, pvBackoff, pvRegistry, pvWritten,
    pvFaults, pvHeld, pvStamped, pvTied

schVars == <<
    schClock, schRows, schCause, schPausedBy, schBroken, schRuns, schDisp, schFaults,
    schVerbs>>
pvVars == <<
    pvCreds, pvConfigs, pvClock, pvFlight, pvEdit, pvBackoff, pvRegistry, pvWritten,
    pvFaults, pvHeld, pvStamped, pvTied>>
allVars == <<part, vars, schVars, pvVars>>

S == INSTANCE Schedules WITH
         Ids <- {1, 2}, Daemons <- {1}, SkipIds <- {1}, Interval <- 2, MaxTime <- 2,
         MaxFaults <- 1, MaxVerbs <- 1, None <- None, clock <- schClock,
         rows <- schRows, cause <- schCause, pausedBy <- schPausedBy,
         broken <- schBroken, runs <- schRuns, disp <- schDisp, faults <- schFaults,
         verbs <- schVerbs

ASSUME SchedulesAssumption == S!SchedulesAssumption

P == INSTANCE Providers WITH
         Ids <- {"o", "k"}, OAuth <- {"o"}, Procs <- {"d", "c"}, Daemon <- "d",
         MaxWrites <- 2, MaxTime <- 2, MaxFaults <- 1, None <- None, creds <- pvCreds,
         configs <- pvConfigs, clock <- pvClock, flight <- pvFlight, edit <- pvEdit,
         backoff <- pvBackoff, registry <- pvRegistry, written <- pvWritten,
         faults <- pvFaults, held <- pvHeld, stamped <- pvStamped, tied <- pvTied

ASSUME ProvidersAssumption == P!ProvidersAssumption

\* A component with several initial states stays in one of them while another runs.
schIdle == S!Init /\ \A s \in {1, 2} : schPausedBy[s] = None

ServicesInit ==
    \/ part = "blobs" /\ schIdle /\ P!Init /\ Init
    \/ part = "schedules" /\ Init /\ P!Init /\ S!Init
    \/ part = "providers" /\ Init /\ schIdle /\ P!Init

ServicesNext ==
    \/ part = "blobs" /\ Next /\ UNCHANGED <<part, schVars, pvVars>>
    \/ part = "schedules" /\ S!Next /\ UNCHANGED <<part, vars, pvVars>>
    \/ part = "providers" /\ P!Next /\ UNCHANGED <<part, vars, schVars>>

\* Each component's own fairness, while it is the one that runs.
ServicesFairness ==
    /\ \A s \in Shas : WF_vars(part = "blobs" /\ Age(s))
    /\ \A w \in Writers : WF_vars(part = "blobs" /\ FinishWrite(w))
    /\ \A g \in Sweepers : WF_vars(part = "blobs" /\ Sweep(g))
    /\ \A d \in {1} : WF_schVars(part = "schedules" /\ S!Dispatch(d))
    /\ \A d \in {1} : WF_schVars(part = "schedules" /\ S!Start(d))
    /\ WF_pvVars(part = "providers" /\ P!Call)
    /\ \A p \in {"d", "c"} : WF_pvVars(part = "providers" /\ P!Settle(p))
    /\ WF_pvVars(part = "providers" /\ P!WindowPasses("d"))

ServicesSpec == ServicesInit /\ [][ServicesNext]_allVars /\ ServicesFairness

-------------------------------------------------------------------------------
\* With overlap skip, a second run under way has an excuse: an unrecorded
\* fire, or a quarantine that was lifted.
OverlapNeedsAnExcuse == part = "schedules" => S!OverlapNeedsAnExcuse

\* A due schedule is fired, skipped or paused, also after a failed tick or a
\* crash.
DueServed == part = "schedules" => S!DueServed

\* A model registry that takes itself for current has every definition there
\* is, although other processes write while it loads, unless two of them were
\* written in one millisecond or the read of its load threw.
RegistryCurrent == part = "providers" => P!RegistryCurrent

\* An expired token is refreshed or gives way to another credential, although
\* an exchange fails, hangs or is overtaken by a write of the old map.
ExpiredIsRefreshed == part = "providers" => P!ExpiredIsRefreshed

\* What the services keep true beside the content of blobs: the two together.
ServicesSound == OverlapNeedsAnExcuse /\ RegistryCurrent

\* What is due is done: garbage is collected, and the two above.
ServicesProgress == Reclaims /\ DueServed /\ ExpiredIsRefreshed

===============================================================================
