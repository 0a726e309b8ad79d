---------------------------- MODULE OrderedCommit ----------------------------
(***************************************************************************)
(* What a group's inbox loop promises for one batch of messages, said      *)
(* without gates, events or tasks: the messages of the batch carry the     *)
(* positions 1..n of the (sent_at, message_id) order; each of them either  *)
(* commits or is skipped, a message commits only when nothing earlier is   *)
(* still open, a skip needs nobody's permission, and the batch is over     *)
(* only when no message of it is open.                                     *)
(***************************************************************************)
EXTENDS Naturals

CONSTANT N                         \* the batch limit of the group loop

Positions == 1..N
Fates == {"absent", "open", "committed", "skipped"}

VARIABLE fate                      \* fate[i]: what became of position i

OCTypeOK == fate \in [Positions -> Fates]

IsOpen(i) == fate[i] = "open"

Idle == \A i \in Positions : ~ IsOpen(i)

Init == fate = [i \in Positions |-> "absent"]

\* The loop takes up the n oldest due messages.
StartBatch ==
  /\ Idle
  /\ \E n \in Positions :
       fate' = [i \in Positions |-> IF i <= n THEN "open" ELSE "absent"]

\* The short business transaction of position i runs.
CommitInOrder(i) ==
  /\ IsOpen(i)
  /\ \A j \in 1..(i - 1) : ~ IsOpen(j)
  /\ fate' = [fate EXCEPT ![i] = "committed"]

\* Position i failed before its transaction; it may be skipped at any time.
Skip(i) ==
  /\ IsOpen(i)
  /\ fate' = [fate EXCEPT ![i] = "skipped"]

\* The whole batch has been dealt with and the loop forgets it.
EndBatch ==
  /\ Idle
  /\ \E i \in Positions : fate[i] # "absent"
  /\ fate' = [i \in Positions |-> "absent"]

Resolve(i) == CommitInOrder(i) \/ Skip(i)

Next ==
  \/ StartBatch
  \/ EndBatch
  \/ \E i \in Positions : Resolve(i)

Spec ==
  /\ Init
  /\ [][Next]_fate
  /\ \A i \in Positions : WF_fate(Resolve(i))
=============================================================================
