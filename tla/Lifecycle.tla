------------------------------ MODULE Lifecycle ------------------------------
(* What the executor promises about runs, without locks, claims, versions    *)
(* or sweeps: a run is worked on by at most one process, which alone decides *)
(* how its turn ends; otherwise it is taken back whole; an ended run stays   *)
(* ended.  RunOwnership implements it.                                       *)
EXTENDS Naturals, FiniteSets

CONSTANTS Runs, Pids, MaxInFlight

VARIABLES status,  \* of each run
          owners   \* who is working on which run: pairs <<run, process>>

lifeVars == <<status, owners>>

OwnersOf(r) == {o \in owners : o[1] = r}

InFlight == {r \in Runs : status[r] = "running"}

Init ==
    /\ status = [r \in Runs |-> "queued"]
    /\ owners = {}

\* A process starts on a queued run while there is a free slot.
Claim(r, p) ==
    /\ status[r] = "queued"
    /\ Cardinality(InFlight) < MaxInFlight
    /\ status' = [status EXCEPT ![r] = "running"]
    /\ owners' = owners \cup {<<r, p>>}

\* The owner, and nobody else, ends its turn by parking or ending the run.
Finish(r, p, s) ==
    /\ <<r, p>> \in owners
    /\ s \in {"paused", "done"}
    /\ status' = [status EXCEPT ![r] = s]
    /\ owners' = owners \ {<<r, p>>}

\* A process stops or dies: the runs it worked on stay running, without an owner.
Abandon(gone) ==
    /\ gone \subseteq owners
    /\ owners' = owners \ gone
    /\ UNCHANGED status

\* A running run is taken back, from its owner too: the owner's work is void.
TakeBack(r) ==
    /\ status[r] = "running"
    /\ status' = [status EXCEPT ![r] = "queued"]
    /\ owners' = owners \ OwnersOf(r)

\* A run with a call of unknown outcome is put before an operator.
Quarantine(r) ==
    /\ status[r] \in {"queued", "running", "paused"}
    /\ status' = [status EXCEPT ![r] = "quarantined"]
    /\ owners' = owners \ OwnersOf(r)

\* A run that waits is queued again, or ended by a cancel.
Wake(r, s) ==
    /\ status[r] \in {"paused", "quarantined"}
    /\ s \in {"queued", "done"}
    /\ status' = [status EXCEPT ![r] = s]
    /\ UNCHANGED owners

Next ==
    \/ \E r \in Runs, p \in Pids : Claim(r, p) \/ \E s \in {"paused", "done"} : Finish(r, p, s)
    \/ \E gone \in SUBSET owners : Abandon(gone)
    \/ \E r \in Runs : TakeBack(r) \/ Quarantine(r) \/ \E s \in {"queued", "done"} : Wake(r, s)

Spec == Init /\ [][Next]_lifeVars
=============================================================================
