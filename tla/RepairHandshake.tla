---------------------------- MODULE RepairHandshake ----------------------------
(***************************************************************************)
(* What a ticket promises to the two sides of a repair: who holds the ball *)
(* is known in every phase.  Nobody holds it before the ticket exists and  *)
(* after it is closed; under review the manager does; a reopened or        *)
(* returned ticket is somebody's again.                                    *)
(***************************************************************************)
VARIABLES phase, ball

Phases == {"none", "open", "review", "closed"}
Parties == {"engineer", "manager"}

Init == phase = "none" /\ ball = "nobody"

\* A ticket is filed; a bystander's ticket is nobody's until someone acts.
File ==
  /\ phase = "none"
  /\ phase' = "open"
  /\ ball' \in Parties \cup {"nobody"}

\* A message of one side gives the ball to the other.
Pass ==
  /\ phase = "open"
  /\ ball' \in Parties
  /\ UNCHANGED phase

Report ==
  /\ phase = "open"
  /\ phase' = "review"
  /\ ball' = "manager"

Return ==
  /\ phase = "review"
  /\ phase' = "open"
  /\ ball' \in Parties

Close ==
  /\ phase \in {"open", "review"}
  /\ phase' = "closed"
  /\ ball' = "nobody"

Reopen ==
  /\ phase = "closed"
  /\ phase' = "open"
  /\ ball' \in Parties

Next == File \/ Pass \/ Report \/ Return \/ Close \/ Reopen

Spec == Init /\ [][Next]_<<phase, ball>>
=============================================================================
