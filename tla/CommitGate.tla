------------------------------ MODULE CommitGate ------------------------------
(***************************************************************************)
(* The group loop of workers/inbox_worker.py and the OrderedCommitGate of  *)
(* ordering.py.  The loop takes up to N due messages of one group, starts  *)
(* a task for each, waits for all of them (asyncio.gather) and begins      *)
(* again.  The tasks archive attachments and call the language model in    *)
(* parallel; the business transaction of a message runs only when the gate *)
(* has opened its turn.                                                    *)
(*                                                                         *)
(* A position i \in 1..size is the message's place in the batch, which the *)
(* query sorts by (sent_at, message_id).  Between two awaits a task runs   *)
(* without interruption, so one action is one stretch of code between two  *)
(* awaits: in particular the end of wait_turn, the synchronous business    *)
(* code and the mark_done of its finally block are one action (Commit).    *)
(***************************************************************************)
EXTENDS Naturals

CONSTANT N                         \* InboxWorker(batch=5)

ASSUME BatchLimit == N \in Nat \ {0}

Positions == 1..N

\* Where a task is: the stretches that come before its commit ...
BeforeCommit == {"created", "archiving", "recognising", "waiting"}
\* ... and those after it, or after the failure that replaces it.
PastCommit == {"agent", "failed", "returning", "ended"}

VARIABLES
  size,        \* number of messages in the current batch, 0 between batches
  pc,          \* pc[i]: where the task of position i is
  done,        \* gate._done
  next,        \* gate._next, counted from 1
  turns,       \* the positions whose asyncio.Event in gate._turns is set
  committed    \* history: the positions whose business code has run

gate == <<done, next, turns>>
vars == <<size, pc, done, next, turns, committed>>

Batch == 1..size

TypeOK ==
  /\ size \in 0..N
  /\ pc \in [Positions -> BeforeCommit \cup PastCommit \cup {"absent"}]
  /\ done \subseteq Batch
  /\ next \in 1..(size + 1)
  /\ turns \subseteq Batch
  /\ committed \subseteq Batch

Init ==
  /\ size = 0
  /\ pc = [i \in Positions |-> "absent"]
  /\ done = {}
  /\ next = 1
  /\ turns = {}
  /\ committed = {}

Goto(i, from, to) ==
  /\ pc[i] = from
  /\ pc' = [pc EXCEPT ![i] = to]

-----------------------------------------------------------------------------
(* The gate.                                                               *)

\* wait_turn returns: the event of the message is set.
HasTurn(i) == i \in turns

\* Mutant of MarkDone: opens the turn after i, whoever is before it.
MarkDone_OpensSuccessor(i) ==
  /\ done' = done \cup {i}
  /\ turns' = turns \cup ({i + 1} \cap Batch)
  /\ next' = IF next = i THEN next + 1 ELSE next

\* Mutant of MarkDone: counts the calls, not the messages that are done.
MarkDone_PastTheEnd(i) ==
  /\ done' = done \cup {i}
  /\ next' = next + 1
  /\ turns' = turns \cup ({next + 1} \cap Batch)

\* mark_done records the message once and moves `_next` over the messages
\* that are done, to the first one that is not, opening each turn it reaches.
MarkDone(i) ==
  IF i \in done THEN UNCHANGED gate
  ELSE /\ done' = done \cup {i}
       /\ \E k \in next..(size + 1) :
            /\ next..(k - 1) \subseteq done'
            /\ k \notin done'
            /\ next' = k
            /\ turns' = turns \cup ((next + 1)..k \cap Batch)

-----------------------------------------------------------------------------
(* The loop and its tasks.                                                 *)

\* inbox_next_due_for_group returned n messages: a new gate, n new tasks.
NewBatch ==
  /\ size = 0
  /\ \E n \in Positions :
       /\ size' = n
       /\ pc' = [i \in Positions |-> IF i <= n THEN "created" ELSE "absent"]
  /\ turns' = {1}
  /\ UNCHANGED <<done, next, committed>>

\* graph_prepare_message: the row becomes PROCESSING, or the node fails.
Prepare(i) ==
  /\ \/ Goto(i, "created", "archiving")
     \/ Goto(i, "created", "failed")
  /\ UNCHANGED <<size, done, next, turns, committed>>

\* archive_attachments ends; a message with attachments asks for its turn at
\* once, any other one goes to the language model first; or the node fails.
Archive(i) ==
  /\ \/ Goto(i, "archiving", "waiting")
     \/ Goto(i, "archiving", "recognising")
     \/ Goto(i, "archiving", "failed")
  /\ UNCHANGED <<size, done, next, turns, committed>>

\* _decide returns or raises.
Recognise(i) ==
  /\ \/ Goto(i, "recognising", "waiting")
     \/ Goto(i, "recognising", "failed")
  /\ UNCHANGED <<size, done, next, turns, committed>>

\* The turn comes: the business code runs to its end - a completed row goes
\* on to the ticket agent, a retried or dead one is finished, an exception
\* goes to handle_failure - and the finally block marks the message done.
Commit(i) ==
  /\ HasTurn(i)
  /\ \/ Goto(i, "waiting", "agent")
     \/ Goto(i, "waiting", "returning")
     \/ Goto(i, "waiting", "failed")
  /\ MarkDone(i)
  /\ committed' = committed \cup {i}
  /\ UNCHANGED size

\* resolve_ticket_agent and invoke_ticket_agent; their errors end there.
RunAgent(i) ==
  /\ Goto(i, "agent", "returning")
  /\ UNCHANGED <<size, done, next, turns, committed>>

\* handle_failure: the row is scheduled again or becomes a dead letter; this
\* happens whenever the node runs, in turn or not.
HandleFailure(i) ==
  /\ Goto(i, "failed", "returning")
  /\ UNCHANGED <<size, done, next, turns, committed>>

\* Mutant of Return: no mark_done in the finally block.
Return_NoRelease(i) ==
  /\ Goto(i, "returning", "ended")
  /\ UNCHANGED <<size, done, next, turns, committed>>

\* process returns; its finally block releases the turn if nothing else did.
Return(i) ==
  /\ Goto(i, "returning", "ended")
  /\ MarkDone(i)
  /\ UNCHANGED <<size, committed>>

\* Mutant of EndBatch: the loop goes on when one task has ended.
EndBatch_FirstDone ==
  /\ \E i \in Batch : pc[i] = "ended"
  /\ size' = 0
  /\ pc' = [i \in Positions |-> "absent"]
  /\ done' = {}
  /\ next' = 1
  /\ turns' = {}
  /\ committed' = {}

\* asyncio.gather returns, the notifier is flushed, the gate is forgotten.
EndBatch ==
  /\ size > 0
  /\ \A i \in Batch : pc[i] = "ended"
  /\ size' = 0
  /\ pc' = [i \in Positions |-> "absent"]
  /\ done' = {}
  /\ next' = 1
  /\ turns' = {}
  /\ committed' = {}

Task(i) ==
  \/ Prepare(i)
  \/ Archive(i)
  \/ Recognise(i)
  \/ Commit(i)
  \/ RunAgent(i)
  \/ HandleFailure(i)
  \/ Return(i)

Next ==
  \/ NewBatch
  \/ EndBatch
  \/ \E i \in Positions : Task(i)

\* The event loop runs every task that can run, and every await of a task
\* that is not wait_turn ends: the model client and the downloader have
\* timeouts.
Fairness ==
  /\ WF_vars(EndBatch)
  /\ \A i \in Positions : WF_vars(Task(i))

Spec == Init /\ [][Next]_vars /\ Fairness

-----------------------------------------------------------------------------
(* Safety.                                                                 *)

\* No overtaking: once the business code of a message has run, no earlier
\* message of the batch can still run its own (inbox_worker.py and README
\* promise commits in (sent_at, message_id) order), however recognitions,
\* failures before the commit and late releases interleave.
NoOvertaking ==
  \A j \in committed : \A i \in Batch : i < j => pc[i] \in PastCommit

\* The loop in mark_done opens exactly the turns it should: a turn is open
\* iff every earlier message has been marked done - none too early, and
\* none forgotten when messages are marked done out of order.
TurnsExact ==
  turns = {i \in Batch : 1..(i - 1) \subseteq done}

\* A turn is given away only by a message that cannot commit any more.
DoneIsPastCommit ==
  \A i \in done : pc[i] \in PastCommit

\* The strengthening the proofs use.
Inv ==
  /\ TypeOK
  /\ \A i \in Positions : (pc[i] = "absent") <=> (i \notin Batch)
  /\ next \notin done
  /\ 1..(next - 1) \subseteq done
  /\ turns = {i \in Batch : i <= next}
  /\ DoneIsPastCommit
  /\ \A j \in committed : /\ pc[j] \in PastCommit
                          /\ 1..(j - 1) \subseteq done

-----------------------------------------------------------------------------
(* Liveness.                                                               *)

\* A bad message never blocks its group: every task of a batch ends, so the
\* loop always comes back for the next batch.
BatchesEnd == (size > 0) ~> (size = 0)

-----------------------------------------------------------------------------
(* Refinement.                                                             *)

\* A position is open until its business code has run or it has failed.
FateOf(i) ==
  IF pc[i] = "absent" THEN "absent"
  ELSE IF i \in committed THEN "committed"
  ELSE IF pc[i] \in PastCommit THEN "skipped"
  ELSE "open"

Ordered == INSTANCE OrderedCommit WITH fate <- [i \in Positions |-> FateOf(i)]

\* The gate implements ordered commits, fairness included.
ImplementsOrderedCommit == Ordered!Spec
=============================================================================
