--------------------------- MODULE MessageProcessing ---------------------------
(***************************************************************************)
(* The messages of one member of one group, from the inbox to their effect *)
(* on a ticket: the rows of inbox_messages and the worker that takes them  *)
(* in batches (workers/inbox_worker.py), the business code of a message    *)
(* and the pending actions that wait for a reply (pipeline.py,             *)
(* routing/pending_actions.py), and the executor's ledger                  *)
(* (tickets/executor.py).                                                  *)
(*                                                                         *)
(* The database commits every statement or transaction on its own, so the  *)
(* business code of a message is a job of several steps, one per commit.   *)
(* No other task of the process runs during a job; the process may die     *)
(* between two steps, a step may raise, and the administration server may  *)
(* write the ticket.  What the language model makes of a message is a      *)
(* nondeterministic choice, made again when the message is processed again.*)
(***************************************************************************)
EXTENDS Naturals, Sequences, FiniteSets

CONSTANTS
  M,             \* number of messages, numbered by (sent_at, message_id)
  BatchLimit,    \* InboxWorker(batch=...)
  MaxAttempts,   \* LLM_MAX_ATTEMPTS
  LateComers,    \* the messages that may arrive after later ones
  Replies,       \* which replies to a pending action occur
  MaxMishaps     \* bound of the model: how many mishaps happen

Messages == 1..M
AllReplies == {"confirm", "correct", "decline"}

ASSUME MessageConstants ==
  /\ M \in Nat /\ BatchLimit \in Nat \ {0} /\ MaxAttempts \in Nat \ {0}
  /\ LateComers \subseteq Messages
  /\ Replies \subseteq AllReplies
  /\ MaxMishaps \in Nat

VARIABLES
  row,         \* inbox_messages.status
  attempts,    \* inbox_messages.attempts
  ready,       \* RETRY_PENDING rows whose next_attempt_at has come
  result,      \* inbox_messages.processed_result
  pendings,    \* pending_actions, by id; from and corrected are history
  executions,  \* action_executions: key and status
  version,     \* the ticket's version
  pc,          \* memory: where the task of each message of the batch is
  job,         \* memory: the business code that is running
  applied,     \* history: the effects on the ticket, in order
  mishaps,     \* bound: how many mishaps have happened
  cut          \* history: how often the job of a message was cut short

rows == <<row, attempts, ready, result>>
store == <<rows, pendings, executions, version, applied>>
vars == <<rows, pendings, executions, version, pc, job, applied, mishaps, cut>>

Unsettled == {"RECEIVED", "PROCESSING", "RETRY_PENDING"}
Settled == {"COMPLETED", "DEAD_LETTER"}
PendingStatuses == {"WAITING", "CONFIRMED", "REJECTED", "EXPIRED", "SUPERSEDED"}
ExecutionStatuses == {"APPLIED", "REJECTED"}
Outcomes == {"OK", "REJECTED", "INTERNAL_ERROR"}
Results == {"none", "IGNORED", "ASKED", "EXECUTED", "REJECTED", "INTERNAL_ERROR"}
Steps == {"idle", "confirm", "decline", "execute", "supersede", "create",
          "complete", "reply"}

\* dedupe_key: direct:<message>, or confirm:<pending>:<version>.  A pending
\* action that can still be answered has version 0.
Keys == {"direct", "confirm"} \X Nat

NoJob == [step |-> "idle", msg |-> 0, pending |-> 0, origin |-> 0,
          shown |-> 0, redraft |-> FALSE, result |-> "none"]

Key == IF job.pending = 0 THEN <<"direct", job.msg>> ELSE <<"confirm", job.pending>>

TypeOK ==
  /\ row \in [Messages -> {"unsent"} \cup Unsettled \cup Settled]
  /\ attempts \in [Messages -> 0..MaxAttempts]
  /\ ready \subseteq {m \in Messages : row[m] = "RETRY_PENDING"}
  /\ result \in [Messages -> Results]
  /\ pendings \in Seq([origin : Messages, shown : Nat, from : Nat,
                       status : PendingStatuses, corrected : BOOLEAN])
  /\ executions \subseteq [key : Keys, status : ExecutionStatuses]
  /\ version \in Nat
  /\ pc \in [Messages -> {"none", "created", "processing", "ended"}]
  /\ job \in [step : Steps, msg : 0..M, pending : 0..Len(pendings),
              origin : 0..M, shown : Nat, redraft : BOOLEAN, result : Results]
  /\ applied \in Seq([by : Messages, origin : Messages, shown : Nat, at : Nat])
  /\ mishaps \in Nat
  /\ cut \in [Messages -> Nat]

Init ==
  /\ row = [m \in Messages |-> "unsent"]
  /\ attempts = [m \in Messages |-> 0]
  /\ ready = {}
  /\ result = [m \in Messages |-> "none"]
  /\ pendings = <<>>
  /\ executions = {}
  /\ version = 1
  /\ pc = [m \in Messages |-> "none"]
  /\ job = NoJob
  /\ applied = <<>>
  /\ mishaps = 0
  /\ cut = [m \in Messages |-> 0]

\* An error, a crash or a write of somebody else happens.
Mishap ==
  /\ mishaps < MaxMishaps
  /\ mishaps' = mishaps + 1

\* The job that runs, if any, goes no further.
JobIsCut == cut' = [m \in Messages |-> IF m = job.msg THEN cut[m] + 1 ELSE cut[m]]

-----------------------------------------------------------------------------
(* The inbox and the worker.                                               *)

\* enqueue_message (INSERT OR IGNORE: a second arrival changes nothing).
Arrive(m) ==
  /\ job = NoJob
  /\ row[m] = "unsent"
  /\ \A i \in 1..(m - 1) : row[i] # "unsent" \/ i \in LateComers
  /\ row' = [row EXCEPT ![m] = "RECEIVED"]
  /\ UNCHANGED <<attempts, ready, result, pendings, executions, version, pc, job, applied>>
  /\ UNCHANGED <<mishaps, cut>>

\* The retry delay is over.
BecomeDue(m) ==
  /\ job = NoJob
  /\ row[m] = "RETRY_PENDING" /\ m \notin ready
  /\ ready' = ready \cup {m}
  /\ UNCHANGED <<row, attempts, result, pendings, executions, version, pc, job, applied>>
  /\ UNCHANGED <<mishaps, cut>>

\* Mutant of Due: the query looks at DEAD_LETTER only.
Due_AnyStatus == {m \in Messages : row[m] \notin {"unsent", "DEAD_LETTER"}}

Due == {m \in Messages : row[m] = "RECEIVED" \/ m \in ready}

\* inbox_next_due_for_group: the first due rows become the next batch.
TakeBatch ==
  /\ job = NoJob
  /\ \A m \in Messages : pc[m] \in {"none", "ended"}
  /\ Due # {}
  /\ pc' = [m \in Messages |->
              IF m \in Due /\ Cardinality({i \in Due : i < m}) < BatchLimit
              THEN "created" ELSE "none"]
  /\ UNCHANGED <<store, job, mishaps, cut>>

\* graph_prepare_message.
Claim(m) ==
  /\ job = NoJob
  /\ pc[m] = "created"
  /\ pc' = [pc EXCEPT ![m] = "processing"]
  /\ row' = [row EXCEPT ![m] = "PROCESSING"]
  /\ ready' = ready \ {m}
  /\ UNCHANGED <<attempts, result, pendings, executions, version, job, applied, mishaps, cut>>

\* Mutant of RetryOrDead: there is no last attempt.
RetryOrDead_Uncounted(m) ==
  /\ attempts' = [attempts EXCEPT ![m] = @ + 1]
  /\ row' = [row EXCEPT ![m] = "RETRY_PENDING"]
  /\ ready' = ready \ {m}
  /\ pc' = [pc EXCEPT ![m] = "ended"]
  /\ UNCHANGED result

\* _retry_or_dead; the task ends.
RetryOrDead(m) ==
  /\ attempts' = [attempts EXCEPT ![m] = @ + 1]
  /\ row' = [row EXCEPT ![m] =
               IF attempts[m] + 1 >= MaxAttempts THEN "DEAD_LETTER" ELSE "RETRY_PENDING"]
  /\ ready' = ready \ {m}
  /\ pc' = [pc EXCEPT ![m] = "ended"]
  /\ UNCHANGED result

\* A node before the commit fails: handle_failure, whoever's turn it is.
FailEarly(m) ==
  /\ job = NoJob
  /\ pc[m] \in {"created", "processing"}
  /\ RetryOrDead(m)
  /\ UNCHANGED <<pendings, executions, version, job, applied, mishaps, cut>>

-----------------------------------------------------------------------------
(* The business code: _handle_decided, when the gate has opened the turn.  *)

Waiting == {p \in DOMAIN pendings : pendings[p].status = "WAITING"}

\* Mutant of MyTurn: nobody waits for the gate.
MyTurn_Anytime(m) == job = NoJob /\ pc[m] = "processing"

MyTurn(m) ==
  /\ job = NoJob
  /\ pc[m] = "processing"
  /\ \A i \in 1..(m - 1) : pc[i] \in {"none", "ended"}

\* inbox_set_status(COMPLETED); the task ends.
Finish(m, res) ==
  /\ row' = [row EXCEPT ![m] = "COMPLETED"]
  /\ result' = [result EXCEPT ![m] = res]
  /\ pc' = [pc EXCEPT ![m] = "ended"]
  /\ UNCHANGED <<attempts, ready>>

\* No effect: chat, a question to the bot, or a command that routing or
\* validation turns down.
Drop(m) ==
  /\ MyTurn(m)
  /\ \/ Finish(m, "IGNORED")
     \/ Finish(m, "REJECTED")
  /\ UNCHANGED <<pendings, executions, version, job, applied, mishaps, cut>>

\* The decision says that the model could not be reached.
Fallback(m) ==
  /\ MyTurn(m)
  /\ RetryOrDead(m)
  /\ UNCHANGED <<pendings, executions, version, job, applied, mishaps, cut>>

\* The job of a command, on the ticket as it is now.
OwnJob(m, step, res) ==
  [step |-> step, msg |-> m, pending |-> 0, origin |-> m, shown |-> version,
   redraft |-> FALSE, result |-> res]

\* A command that needs no confirmation.
Act(m) ==
  /\ MyTurn(m)
  /\ job' = OwnJob(m, "execute", "none")
  /\ UNCHANGED <<store, pc, mishaps, cut>>

\* _create_confirm_pending, _create_clarify_pending.
Ask(m) ==
  /\ MyTurn(m)
  /\ job' = OwnJob(m, "supersede", "ASKED")
  /\ UNCHANGED <<store, pc, mishaps, cut>>

\* The job of a reply to the pending action p.
ReplyJob(m, p, step, redraft, res) ==
  [step |-> step, msg |-> m, pending |-> p, origin |-> pendings[p].origin,
   shown |-> pendings[p].shown, redraft |-> redraft, result |-> res]

\* _confirm_pending: the ticket must still have the version of the question.
Confirm(m) ==
  /\ "confirm" \in Replies
  /\ MyTurn(m)
  /\ \E p \in Waiting :
       IF pendings[p].shown = version
       THEN /\ job' = ReplyJob(m, p, "confirm", TRUE, "none")
            /\ UNCHANGED <<rows, pc>>
       ELSE /\ Finish(m, "REJECTED")
            /\ UNCHANGED job
  /\ UNCHANGED <<pendings, executions, version, applied, mishaps, cut>>

\* _correct_pending, and _assign_pending_target for one chosen ticket: no
\* second draft if the execution fails.
Correct(m) ==
  /\ "correct" \in Replies
  /\ MyTurn(m)
  /\ \E p \in Waiting : job' = ReplyJob(m, p, "confirm", FALSE, "none")
  /\ UNCHANGED <<store, pc, mishaps, cut>>

\* _reject_pending.
Decline(m) ==
  /\ "decline" \in Replies
  /\ MyTurn(m)
  /\ \E p \in Waiting :
       job' = ReplyJob(m, p, "decline", FALSE, "REJECTED")
  /\ UNCHANGED <<store, pc, mishaps, cut>>

-----------------------------------------------------------------------------
(* The steps of a job, each with its own commit.                           *)

Goto(step) == job' = [job EXCEPT !.step = step]

\* resolve_pending; nobody else in the process answers meanwhile.
Resolve ==
  /\ job.step \in {"confirm", "decline"}
  /\ pendings' = [pendings EXCEPT
       ![job.pending].status = IF job.step = "confirm" THEN "CONFIRMED" ELSE "REJECTED",
       ![job.pending].corrected = job.step = "confirm" /\ ~job.redraft]
  /\ Goto(IF job.step = "confirm" THEN "execute" ELSE "complete")
  /\ UNCHANGED <<rows, executions, version, pc, applied, mishaps, cut>>

\* The processed_result of an execution.
ResultOf(outcome) == IF outcome = "OK" THEN "EXECUTED" ELSE outcome

\* Mutant of NeedsRedraft: a breakdown is not drafted again.
NeedsRedraft_Never(outcome) == FALSE

\* _create_retry_pending follows an execution that broke down.
NeedsRedraft(outcome) == job.redraft /\ outcome = "INTERNAL_ERROR"

Executed(outcome) ==
  job' = [job EXCEPT !.step = IF NeedsRedraft(outcome) THEN "supersede" ELSE "complete",
                     !.result = ResultOf(outcome)]

\* Mutant of Apply: the version is not compared.
Apply_AnyVersion ==
  /\ executions' = executions \cup {[key |-> Key, status |-> "APPLIED"]}
  /\ version' = version + 1
  /\ applied' = Append(applied, [by |-> job.msg, origin |-> job.origin,
                                 shown |-> job.shown, at |-> version])
  /\ Executed("OK")

\* One transaction: the record, the effect and the record's final status,
\* if the version is the expected one.
Apply ==
  /\ version = job.shown
  /\ executions' = executions \cup {[key |-> Key, status |-> "APPLIED"]}
  /\ version' = version + 1
  /\ applied' = Append(applied, [by |-> job.msg, origin |-> job.origin,
                                 shown |-> job.shown, at |-> version])
  /\ Executed("OK")

\* The same transaction, when the version has moved or the handler refuses.
Refuse ==
  /\ executions' = executions \cup {[key |-> Key, status |-> "REJECTED"]}
  /\ Executed("REJECTED")
  /\ UNCHANGED <<version, applied, mishaps, cut>>

\* An exception rolls the transaction back: no record stays.
RollBack ==
  /\ Mishap
  /\ Executed("INTERNAL_ERROR")
  /\ UNCHANGED <<executions, version, applied, cut>>

\* execute: a key that is on record is not executed again.
Execute ==
  /\ job.step = "execute"
  /\ IF \E e \in executions : e.key = Key
     THEN /\ \E e \in executions :
               /\ e.key = Key
               /\ Executed(IF e.status = "APPLIED" THEN "OK" ELSE e.status)
          /\ UNCHANGED <<executions, version, applied, mishaps, cut>>
     ELSE \/ Apply /\ UNCHANGED <<mishaps, cut>>
          \/ Refuse
          \/ RollBack
  /\ UNCHANGED <<rows, pendings, pc>>

\* supersede_waiting.
Supersede ==
  /\ job.step = "supersede"
  /\ pendings' = [p \in DOMAIN pendings |->
                    IF p \in Waiting THEN [pendings[p] EXCEPT !.status = "SUPERSEDED"]
                    ELSE pendings[p]]
  /\ Goto("create")
  /\ UNCHANGED <<rows, executions, version, pc, applied, mishaps, cut>>

\* create_pending; a second draft keeps the expected version of the first.
Create ==
  /\ job.step = "create"
  /\ pendings' = Append(pendings, [origin |-> job.origin, shown |-> job.shown,
                                   from |-> job.pending, status |-> "WAITING",
                                   corrected |-> FALSE])
  /\ Goto("complete")
  /\ UNCHANGED <<rows, executions, version, pc, applied, mishaps, cut>>

\* _complete; what follows an execution (order registration, outbox, reply)
\* may still raise.
Complete ==
  /\ job.step = "complete"
  /\ row' = [row EXCEPT ![job.msg] = "COMPLETED"]
  /\ result' = [result EXCEPT ![job.msg] = job.result]
  /\ Goto("reply")
  /\ UNCHANGED <<attempts, ready, pendings, executions, version, pc, applied, mishaps, cut>>

Reply ==
  /\ job.step = "reply"
  /\ pc' = [pc EXCEPT ![job.msg] = "ended"]
  /\ job' = NoJob
  /\ UNCHANGED <<store, mishaps, cut>>

\* A step raises: handle_failure, even after _complete.
Raise ==
  /\ job # NoJob
  /\ Mishap /\ JobIsCut
  /\ RetryOrDead(job.msg)
  /\ job' = NoJob
  /\ UNCHANGED <<pendings, executions, version, applied>>

JobStep ==
  Resolve \/ Execute \/ Supersede \/ Create \/ Complete \/ Reply

-----------------------------------------------------------------------------
(* Everybody else.                                                         *)

\* expire_due_pendings, from the scheduler.
Expire(p) ==
  /\ job = NoJob
  /\ p \in Waiting
  /\ pendings' = [pendings EXCEPT ![p].status = "EXPIRED"]
  /\ UNCHANGED <<rows, executions, version, pc, job, applied, mishaps, cut>>

\* Another process writes the ticket.
AdminWrite ==
  /\ Mishap
  /\ version' = version + 1
  /\ UNCHANGED <<rows, pendings, executions, pc, job, applied, cut>>

\* Mutant of ResetStale: rows stay PROCESSING at start.
ResetStale_Not == row

\* inbox_reset_stale.
ResetStale == [m \in Messages |-> IF row[m] = "PROCESSING" THEN "RECEIVED" ELSE row[m]]

\* The process dies and starts again: what is in memory is gone.
Crash ==
  /\ Mishap /\ JobIsCut
  /\ row' = ResetStale
  /\ pc' = [m \in Messages |-> "none"]
  /\ job' = NoJob
  /\ UNCHANGED <<attempts, ready, result, pendings, executions, version, applied>>

Handle(m) ==
  \/ Claim(m)
  \/ FailEarly(m)
  \/ Drop(m)
  \/ Fallback(m)
  \/ Act(m)
  \/ Ask(m)
  \/ Confirm(m)
  \/ Correct(m)
  \/ Decline(m)

Next ==
  \/ \E m \in Messages : Arrive(m) \/ BecomeDue(m) \/ Handle(m)
  \/ TakeBatch
  \/ JobStep
  \/ Raise
  \/ \E p \in DOMAIN pendings : Expire(p)
  \/ AdminWrite
  \/ Crash

\* The event loop serves every task; delays end; the model client has a
\* timeout, so every recognition ends, with a decision or without.
Fairness ==
  /\ WF_vars(TakeBatch)
  /\ WF_vars(JobStep)
  /\ \A m \in Messages : WF_vars(BecomeDue(m)) /\ WF_vars(Handle(m))

Spec == Init /\ [][Next]_vars /\ Fairness

-----------------------------------------------------------------------------
(* Safety.                                                                 *)

Effects(m) == {i \in DOMAIN applied : applied[i].by = m}

EffectsFor(m) == {i \in DOMAIN applied : applied[i].origin = m}

\* One request, one effect: what a message asks for is done at most once,
\* now or after a confirmation (db.py: dedupe_key prevents that a crash
\* executes twice).
DoneOnce ==
  \A i, j \in DOMAIN applied : applied[i].origin = applied[j].origin => i = j

\* That is so as long as its processing is not cut short; a crash or a late
\* error may repeat the request whose job it cuts short once, and no other.
RepeatsArePaidFor ==
  \A m \in Messages : Cardinality(EffectsFor(m)) <= 1 + cut[m]

\* The ledger counts the effects: one APPLIED record for every effect on the
\* ticket, crashes, retries and repeated recognitions included - no effect
\* without a record, and no record without its effect.
LedgerCountsEffects ==
  Len(applied) = Cardinality({e \in executions : e.status = "APPLIED"})

\* What a member confirms is done to the ticket as the question showed it: no
\* write of anybody lies between the question and the effect.
ConfirmedActionIsCurrent ==
  \A i \in DOMAIN applied : applied[i].at = applied[i].shown

\* The executor keeps its promise, that one included, through crashes,
\* roll-backs, repeated recognitions and writes of others: a key gets one
\* answer, with its effect or without, and answers and effects stay.
Ledger ==
  INSTANCE CommandLedger WITH records <- executions, effects <- applied, ticket <- version

ImplementsLedger == Ledger!Spec

\* No job was cut short so far.
Undisturbed == \A m \in Messages : cut[m] = 0

\* A confirmed action is executed or refused on record, or waits again
\* (semantics/types.py: "confirmed by the user, executed").  Corrections do
\* not promise that: the draft of one whose execution breaks down is gone.
ConfirmedIsSettled ==
  Undisturbed => \A p \in DOMAIN pendings :
    pendings[p].status = "CONFIRMED" /\ ~pendings[p].corrected /\ job.pending # p =>
      \/ \E e \in executions : e.key = <<"confirm", p>>
      \/ \E q \in DOMAIN pendings : pendings[q].from = p

\* A dead letter tells the group that the message was not executed; that is
\* so if none of its jobs was cut short.
DeadLettersDidNothing ==
  \A m \in Messages : row[m] = "DEAD_LETTER" /\ cut[m] = 0 => Effects(m) = {}

\* A row that reads EXECUTED had its effect ...
ExecutedHadEffect ==
  \A m \in Messages : row[m] = "COMPLETED" /\ result[m] = "EXECUTED" => Effects(m) # {}

\* ... and one that reads otherwise had none, if none of its jobs was cut short.
OthersHadNoEffect ==
  \A m \in Messages :
    row[m] = "COMPLETED" /\ result[m] # "EXECUTED" /\ cut[m] = 0 => Effects(m) = {}

\* A row that reads PROCESSING has a task: no failure, no end of a batch and no
\* crash leaves it where no query would find it.
ProcessingHasTask ==
  \A m \in Messages : row[m] = "PROCESSING" => pc[m] = "processing"

\* What a row tells of its message, in all four respects.
RowsTellTheTruth ==
  /\ DeadLettersDidNothing /\ ExecutedHadEffect /\ OthersHadNoEffect
  /\ ProcessingHasTask

\* A message acts after a later one only if it came late or had to be retried,
\* whoever else failed or died before (inbox_next_due_for_group, ordering.py).
OvertakenOnesWereLate ==
  \A i, j \in DOMAIN applied :
    LET m == applied[j].by
    IN  i < j /\ m < applied[i].by => attempts[m] > 0 \/ m \in LateComers

\* Every irregularity among the effects is accounted for: what is done again
\* by a crash or a late error, what is done out of order by a retry or delay.
EffectsAreAccounted == RepeatsArePaidFor /\ OvertakenOnesWereLate

\* A settled question is never answered again, whoever dies meanwhile
\* (resolve_pending changes rows that are WAITING only).
AnswersAreFinal ==
  [][\A p \in DOMAIN pendings : pendings[p].status # "WAITING" =>
       p \in DOMAIN pendings' /\ pendings'[p] = pendings[p]]_vars

\* Messages reach the ticket in the order they were sent (README, workers).
EffectsInOrder ==
  \A i, j \in DOMAIN applied : i < j => applied[i].by <= applied[j].by

-----------------------------------------------------------------------------
(* Liveness.                                                               *)

\* Every message that arrived is completed or a dead letter at last, however
\* the crash, the failures and the retries fall.
MessagesSettle ==
  \A m \in Messages : (row[m] \in Unsettled) ~> (row[m] \in Settled)
=============================================================================
