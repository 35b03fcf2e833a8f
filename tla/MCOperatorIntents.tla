-------------------------- MODULE MCOperatorIntents --------------------------
(* Intents and daemon releases for the configurations of OperatorIntents. *)
EXTENDS OperatorIntents

Controls == {"cancel", "pause", "resume", "raise", "unquarantine"}

Always  == [n \in 0 .. MaxStops |-> TRUE]
Never   == [n \in 0 .. MaxStops |-> FALSE]
\* The last release in play no longer admits the run.
Upgrade == [n \in 0 .. MaxStops |-> n < MaxStops]
=============================================================================
