-------------------------------- MODULE MCOutbox --------------------------------
(* Values for the constants of Outbox: one row of every kind but "dm",      *)
(* which goes the way of "agent" without its first step.                    *)
EXTENDS Outbox

OneOfEach == [k \in Keys |-> k]
Once == [x \in Mishaps |-> 1]
=================================================================================
