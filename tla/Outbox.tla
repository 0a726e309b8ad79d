--------------------------------- MODULE Outbox ---------------------------------
(***************************************************************************)
(* What the bot says: the rows of notification_deliveries and the Notifier *)
(* (notifier.py), which sends them through the dws command line            *)
(* (_dws_sender of main.py) and records what it said as system messages,   *)
(* the context of later recognitions.                                      *)
(*                                                                         *)
(* Every database call of a sending method commits on its own, so a method *)
(* is a job of several steps.  It is synchronous: no other task of the     *)
(* process runs before it returns, but the process may die between two     *)
(* steps and the administration server may clear reminders at any moment.  *)
(* A row is named by its dedupe key; texts are abstracted to whether the   *)
(* group reads the row's own text or the placeholder that reply_text makes *)
(* of a row without one.  Shadow mode, which sends nothing, is left out.   *)
(***************************************************************************)
EXTENDS Naturals, FiniteSets

CONSTANTS
  Keys,          \* dedupe keys
  KindOf,        \* the kind of each key
  Limit,         \* claim_pending_notifications(limit=50)
  Allowed        \* bound of the model: how many mishaps of each kind happen

\* exec: written by the executor, sent by flush; reply: send_group_now; agent:
\* send_agent_message; remind: send_deduped_group; dm: send_deduped_user.
Kinds == {"exec", "reply", "agent", "remind", "dm"}

\* The process dies; the sender raises and nothing was sent; it raises, but
\* the message was sent (the 30 seconds of subprocess.run were over); the
\* reminders of a ticket are cleared; the system message cannot be written.
Mishaps == {"crash", "refused", "unanswered", "cleared", "unrecorded"}

ASSUME OutboxConstants ==
  /\ IsFiniteSet(Keys)
  /\ KindOf \in [Keys -> Kinds]
  /\ Limit \in Nat \ {0}
  /\ Allowed \in [Mishaps -> Nat]

VARIABLES
  status,      \* notification_deliveries.status, "absent" without a row
  old,         \* the CLAIMED rows that were claimed five minutes ago or more
  job,         \* memory: the sending method that is running
  queue,       \* memory: the claimed rows that flush has still to send
  transcript,  \* the keys whose text is in inbox_messages as a system message
  delivered,   \* history: how often the text of a row reached the chat
  placeheld,   \* history: the keys that reached the chat as a placeholder
  mishaps      \* history: how many mishaps of each kind have happened

vars == <<status, old, job, queue, transcript, delivered, placeheld, mishaps>>

Live == {"PENDING", "CLAIMED"}
Settled == {"SENT", "FAILED"}

NoJob == [by |-> "none", key |-> "none", step |-> "idle"]

TypeOK ==
  /\ status \in [Keys -> {"absent"} \cup Live \cup Settled]
  /\ old \subseteq {k \in Keys : status[k] = "CLAIMED"}
  /\ job \in {NoJob} \cup [by : {"call", "flush"}, key : Keys,
                           step : {"record", "send", "sent", "raised"}]
  /\ queue \subseteq Keys
  /\ transcript \subseteq Keys
  /\ delivered \in [Keys -> Nat]
  /\ placeheld \subseteq Keys
  /\ mishaps \in [Mishaps -> Nat] /\ \A x \in Mishaps : mishaps[x] <= Allowed[x]

Init ==
  /\ status = [k \in Keys |-> "absent"]
  /\ old = {}
  /\ job = NoJob
  /\ queue = {}
  /\ transcript = {}
  /\ delivered = [k \in Keys |-> 0]
  /\ placeheld = {}
  /\ mishaps = [x \in Mishaps |-> 0]

Happens(mishap) ==
  /\ mishaps[mishap] < Allowed[mishap]
  /\ mishaps' = [mishaps EXCEPT ![mishap] = @ + 1]

Idle == job = NoJob /\ queue = {}

Goto(step) == job' = [job EXCEPT !.step = step]

\* mark_notification: a row that was deleted meanwhile is not written.
Mark(k, s) ==
  /\ status' = IF status[k] = "absent" THEN status ELSE [status EXCEPT ![k] = s]
  /\ old' = old \ {k}

-----------------------------------------------------------------------------
(* The sending methods.                                                    *)

\* Mutant of IsNew: INSERT OR REPLACE.
IsNew_Replace(k) == TRUE

\* insert_notification: INSERT OR IGNORE on the dedupe key.
IsNew(k) == status[k] = "absent"

\* What a method does after it has written its row.
FirstStep(k) == IF KindOf[k] \in {"reply", "agent"} THEN "record" ELSE "send"

\* A method is called for a key, for the first time or again.
\* send_group_now records its text even if the row exists.
Call(k) ==
  /\ Idle
  /\ IF IsNew(k)
     THEN /\ status' = [status EXCEPT ![k] = "PENDING"]
          /\ job' = IF KindOf[k] = "exec" THEN NoJob
                    ELSE [by |-> "call", key |-> k, step |-> FirstStep(k)]
          /\ UNCHANGED transcript
     ELSE /\ KindOf[k] = "reply"
          /\ transcript' = transcript \cup {k}
          /\ UNCHANGED <<status, job>>
  /\ UNCHANGED <<old, queue, delivered, placeheld, mishaps>>

\* record_system_reply: before the sending in a method, after it in flush.
Record ==
  /\ job.step = "record"
  /\ transcript' = transcript \cup {job.key}
  /\ IF job.by = "call" THEN Goto("send") ELSE job' = NoJob
  /\ UNCHANGED <<status, old, queue, delivered, placeheld, mishaps>>

\* The system message cannot be written: flush takes that for a failure; a
\* method is left, and the caller's message is retried.
RecordRaises ==
  /\ job.step = "record"
  /\ Happens("unrecorded")
  /\ IF job.by = "flush" THEN Goto("raised") ELSE job' = NoJob
  /\ UNCHANGED <<status, old, queue, transcript, delivered, placeheld>>

\* _build_text: only a reminder has neither a payload nor a text of its own.
HasOwnText(k) == job.by = "call" \/ KindOf[k] # "remind"

Deliver(k) ==
  /\ delivered' = [delivered EXCEPT ![k] = @ + 1]
  /\ placeheld' = IF HasOwnText(k) THEN placeheld ELSE placeheld \cup {k}

\* Mutant of Send: a sender that only logs what went wrong.
Send_Swallows ==
  /\ job.step = "send"
  /\ Goto("sent")
  /\ \/ Deliver(job.key) /\ UNCHANGED mishaps
     \/ Happens("refused") /\ UNCHANGED <<delivered, placeheld>>
  /\ UNCHANGED <<status, old, queue, transcript>>

\* The sender returns, or it raises although or because the text has (not)
\* been sent.
Send ==
  /\ job.step = "send"
  /\ \/ Deliver(job.key) /\ Goto("sent") /\ UNCHANGED mishaps
     \/ Deliver(job.key) /\ Goto("raised") /\ Happens("unanswered")
     \/ Goto("raised") /\ Happens("refused") /\ UNCHANGED <<delivered, placeheld>>
  /\ UNCHANGED <<status, old, queue, transcript>>

\* Mutant of MarkSent: the row is left as it is.
MarkSent_Not ==
  /\ job.step = "sent"
  /\ IF job.by = "flush" THEN Goto("record") ELSE job' = NoJob
  /\ UNCHANGED <<status, old, queue, transcript, delivered, placeheld, mishaps>>

MarkSent ==
  /\ job.step = "sent"
  /\ Mark(job.key, "SENT")
  /\ IF job.by = "flush" THEN Goto("record") ELSE job' = NoJob
  /\ UNCHANGED <<queue, transcript, delivered, placeheld, mishaps>>

\* send_group_now leaves the row PENDING for flush; the others give it up.
GivesUp == job.by = "flush" \/ KindOf[job.key] # "reply"

MarkFailed ==
  /\ job.step = "raised"
  /\ IF GivesUp THEN Mark(job.key, "FAILED") ELSE UNCHANGED <<status, old>>
  /\ job' = NoJob
  /\ UNCHANGED <<queue, transcript, delivered, placeheld, mishaps>>

-----------------------------------------------------------------------------
(* flush, after a message or a batch of messages.                          *)

\* Mutant of Revived: rows that a crash left CLAIMED stay so.
Revived_None == {}

\* The rows that a crash left CLAIMED, five minutes later.
Revived == old

\* claim_pending_notifications, one transaction.
Claim ==
  /\ Idle
  /\ LET pending == {k \in Keys : status[k] = "PENDING"} \cup Revived
     IN /\ pending # {}
        /\ \E claimed \in SUBSET pending :
             /\ Cardinality(claimed) = IF Cardinality(pending) < Limit
                                       THEN Cardinality(pending) ELSE Limit
             /\ queue' = claimed
             /\ status' = [k \in Keys |-> IF k \in claimed THEN "CLAIMED"
                                          ELSE IF k \in pending THEN "PENDING"
                                          ELSE status[k]]
  /\ old' = old \ Revived
  /\ UNCHANGED <<job, transcript, delivered, placeheld, mishaps>>

\* The loop of flush turns to another claimed row.
TakeUp(k) ==
  /\ job = NoJob
  /\ k \in queue
  /\ queue' = queue \ {k}
  /\ job' = [by |-> "flush", key |-> k, step |-> "send"]
  /\ UNCHANGED <<status, old, transcript, delivered, placeheld, mishaps>>

-----------------------------------------------------------------------------
(* Everybody else.                                                         *)

\* Five minutes have passed since a row was claimed.  flush ends before the
\* next one begins, so this matters for rows that a crash left behind.
GrowOld(k) ==
  /\ Idle
  /\ status[k] = "CLAIMED" /\ k \notin old
  /\ old' = old \cup {k}
  /\ UNCHANGED <<status, job, queue, transcript, delivered, placeheld, mishaps>>

\* clear_ticket_sla_dedupe, when a ticket is reopened: the administration
\* server does that even while the bot is sending.
Clear(k) ==
  /\ KindOf[k] = "remind" /\ status[k] # "absent"
  /\ Happens("cleared")
  /\ status' = [status EXCEPT ![k] = "absent"]
  /\ old' = old \ {k}
  /\ UNCHANGED <<job, queue, transcript, delivered, placeheld>>

Crash ==
  /\ Happens("crash")
  /\ job' = NoJob
  /\ queue' = {}
  /\ UNCHANGED <<status, old, transcript, delivered, placeheld>>

JobStep == Record \/ Send \/ MarkSent \/ MarkFailed

Next ==
  \/ \E k \in Keys : Call(k) \/ TakeUp(k) \/ GrowOld(k) \/ Clear(k)
  \/ JobStep
  \/ RecordRaises
  \/ Claim
  \/ Crash

\* Methods run to their end and time passes.  flush follows every batch of
\* messages, so Claim is fair as long as members keep writing.
Fairness ==
  /\ WF_vars(JobStep)
  /\ WF_vars(Claim)
  /\ \A k \in Keys : WF_vars(TakeUp(k)) /\ WF_vars(GrowOld(k))

Spec == Init /\ [][Next]_vars /\ Fairness

-----------------------------------------------------------------------------
(* Properties.                                                             *)

\* Nobody is told the same thing twice without a cause: every repetition of
\* a row takes a crash, a sending that was not answered, or a reopening that
\* cleared the reminder - whatever is called again, flushed or claimed again.
NoNeedlessRepeat ==
  \A k \in Keys :
    delivered[k] <= 1 + mishaps["crash"]
                    + (IF KindOf[k] = "reply" THEN mishaps["unanswered"] ELSE 0)
                    + (IF KindOf[k] = "remind" THEN mishaps["cleared"] ELSE 0)

\* The row says what happened: SENT was delivered, and what reads FAILED or is
\* still PENDING was not, unless an answer got lost or the process died.
StatusTellsDelivery ==
  \A k \in Keys :
    /\ status[k] = "SENT" => delivered[k] > 0
    /\ /\ status[k] = "FAILED" \/ (status[k] \in Live /\ job.key # k)
       /\ mishaps["crash"] + mishaps["unanswered"] + mishaps["unrecorded"] + mishaps["cleared"] = 0
       => delivered[k] = 0

\* The group reads the reminder and not the placeholder (notifier.py: failed
\* reminders are given up because a retry would only send that), unless the
\* process dies between the row and the sending.
OwnWords == mishaps["crash"] = 0 => placeheld = {}

\* Both: what the table says of a message is what the group has read.
RowsTellDelivery == StatusTellsDelivery /\ OwnWords

\* Every row is sent or given up at last: also what a crash left claimed.
EverythingSettles ==
  \A k \in Keys : status[k] \in Live ~> status[k] \notin Live
=============================================================================
