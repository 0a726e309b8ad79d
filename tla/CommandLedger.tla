---------------------------- MODULE CommandLedger ----------------------------
(***************************************************************************)
(* What the executor of commands promises, said without messages, tasks or *)
(* transactions: every command has a key, and a key gets one final answer. *)
(* An applied command is a record and an effect in one step, on the ticket *)
(* as the command expected it; a refused one is a record only.  Others may *)
(* write the ticket, and nobody takes a record or an effect back.          *)
(***************************************************************************)
EXTENDS Naturals, Sequences

VARIABLES
  records,  \* the keys that have been answered, and how
  effects,  \* what has been done to the ticket, in order
  ticket    \* the ticket's version

Init == records = {} /\ effects = <<>> /\ ticket = 1

\* The step puts one new key on record, and this is the record.
Answers(r) ==
  /\ \A s \in records : s.key # r.key
  /\ records' = records \cup {r}

\* A command of a message's own is executed for nobody else.
Owns(key, e) == key[1] = "direct" => key[2] = e.by /\ e.origin = e.by

Commit ==
  \E r \in records', e \in {effects'[i] : i \in DOMAIN effects'} :
    /\ Answers(r) /\ r.status = "APPLIED" /\ Owns(r.key, e)
    /\ effects' = Append(effects, e)
    /\ e.shown = ticket /\ e.at = ticket
    /\ ticket' = ticket + 1

Refuse ==
  /\ \E r \in records' : Answers(r) /\ r.status = "REJECTED"
  /\ UNCHANGED <<effects, ticket>>

Write ==
  /\ ticket' = ticket + 1
  /\ UNCHANGED <<records, effects>>

Next == Commit \/ Refuse \/ Write

Spec == Init /\ [][Next]_<<records, effects, ticket>>

-----------------------------------------------------------------------------
\* A key has one answer.
OneAnswer == \A r, s \in records : r.key = s.key => r = s

\* No effect is lost to another: each was done to a later version of the
\* ticket than all before it, and the ticket has moved on since the last.
Serial ==
  \A i, j \in DOMAIN effects :
    /\ i < j => effects[i].at < effects[j].at
    /\ effects[i].at < ticket
=============================================================================
