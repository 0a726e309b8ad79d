# Verification of the DingTalk repair bot

TLA+ models of the bot in `src/`, TLC configurations that check them on small
instances, and proofs of the central theorems for every value of the
constants. Paths below are relative to the repository root.

## 1. The system

Store managers, engineers and leaders talk in DingTalk groups. The bot reads
every message, lets a language model turn it into a command on a repair
*ticket*, executes the command, answers, and reminds whoever keeps the other
side waiting. All state is in one SQLite database (`db.py`), except a shared
xlsx table of spare-part orders, which another program edits too.

    dws child process --> event_listener / normalizer --> inbox_messages
    inbox_messages --> InboxWorker: one loop per group, batches, OrderedCommitGate
       task of a message (dispatcher graph): prepare -> archive attachments
         -> recognise (model) -> [turn] commit -> ticket agent
       commit: pending action? -> route to a ticket -> validate -> execute
    executor: one transaction = ledger row + ticket (compare-and-swap on its
         version) + cycles, pauses, deadline + notification row
    notification_deliveries --> Notifier.flush / send_* --> dws --> group
         (what was said is recorded in inbox_messages as context)
    SchedulerWorker: SLA scan, response scan, order scan, resync, expiry
    admin/server.py: a second process on the same database

Scheduler, group loops and notifier are tasks of one event loop, so a stretch
of code without `await` is not interrupted by another task. It may still be
cut by the death of the process between two commits, by an exception, and by
the administration server, which writes the same database at any moment.

### Inventory

| Component | State | Operations | Correct when |
|---|---|---|---|
| Group inbox loop, commit gate (`workers/inbox_worker.py`, `ordering.py`, `graphs/dispatcher_graph.py`) | batch, tasks, `done`, `next`, turns | take a batch, nodes of a task and their failure edges, `wait_turn`, `mark_done` | business code runs in the order of the batch; no turn is lost; every batch ends |
| Inbox rows (`db.py`, `pipeline.py`) | status, attempts, retry time, result | enqueue, claim, retry or dead letter, complete, reset at start | every message settles once; its row tells what it did |
| Pending actions (`routing/pending_actions.py`, `pipeline.py`) | WAITING/CONFIRMED/REJECTED/EXPIRED/SUPERSEDED, expected version | create or supersede, confirm, correct, decline, expire, second draft | a confirmation acts on the ticket that was shown, and CONFIRMED means settled |
| Executor: ledger (`tickets/executor.py`) | `action_executions` | `execute` under a dedupe key | ledger and effects agree |
| Executor: ticket state machine (`tickets/`, `db.py`) | status, version, side, cycles, timeout cycle, pause | the handlers of `_dispatch`, `_finalize` | row and cycles agree; a review is waited for by the manager |
| Clocks (`db.py`, `tickets/executor.py`, `workers/scheduler.py`) | `waiting_since`, `current_deadline_at`, special cases, reminder keys | pause, resume, switch, scans | pauses are not counted, reminders are earned and paced |
| Outbox and Notifier (`notifier.py`, `main.py`) | `notification_deliveries`, transcript | five ways to send, claim, mark, clear | nothing lost, nothing repeated without a cause |
| Orders and shared table (`reconciling/`, `workers/scheduler.py`) | `order_monitor`, xlsx file | register, append, resync, scan, notice | synchronised means written; the end of an order is told |
| Administration server (`admin/server.py`) | the same database | set status, quick-create, clear reminders, table editor | its writes keep what the bot relies on |
| Ticket agent (`graphs/ticket_agent_graph.py`, `runtime.py`) | stage in the checkpoint, lock per ticket, links | find the ticket, queue for its lock, load, file, advise, synchronise the stage | the stage follows the ticket; what is said is filed; no advice after a hand-over; no run keeps the lock |
| Routing, contexts, validation (`routing/`, `semantics/validator.py`, `pipeline.py`) | selected tickets, the open question | number, quote, suffix, context, scores, only candidate; role, state, fields, confirmation; answers that choose tickets | a written number is obeyed; a context ends with its ticket; a stale choice acts on nothing |
| Recognition (`semantics/classifier.py`, `model_client.py`) | none | prompt, call, repair, guards | a written number is not misread |
| Listener, normaliser (`event_listener.py`, `event_normalizer.py`) | child process, delays | start, read, filter, enqueue, reconnect | the listener comes back; a message is one row |
| Images (`images/`, `pipeline.py`) | attachment rows, files, running analyses | download, write, rename, store, put to a ticket, analyse | a path leads to a whole picture; a picture keeps its ticket |
| Online table mirror (`workers/aitable_sync.py`) | none between two runs | diff, create, update, delete | the mirror converges |
| Look-ups, protocol compiler, evaluation, import, exports, scripts, configuration | none or offline | - | - |

`PROJECT.json` gives the status of each one and lists the hazards of the code
at their lines, with the properties that catch them.

### What is hard here

* *Order*: recognitions of one batch overlap and end in any order; retried
  rows come back later than their successors.
* *Two commits where one is meant*: executor and inbox row, overdue mark and
  timeout cycle, pending action and its execution, notice and flag, send and
  mark. The process may die in between.
* *Stale reads*: the pending action read before the recognition, the version a
  question was asked with, the copy of the xlsx file.
* *Second writers*: the administration server and the other program.
* *Work after the commit*: the agent's runs queue for the lock of a ticket
  while later messages change that ticket; analyses of pictures end whenever
  the model answers.
* *Many ways to mean a ticket*: number, quote, context, scores and open
  question disagree, and the list the recognition saw is old.
* *Long sequences*: close, reopen, pause, report, reject; sides that stay the
  same so that no cycle is opened; pauses that survive a closure.
* *Unreliable sending*: a time-out does not say whether a message was sent.

## 2. Modules

| Module | Models | Lines of code it stands for |
|---|---|---|
| `OrderedCommit` | abstract: a batch resolves from its front, each message commits or is skipped | specification of the gate |
| `CommitGate` | group loop, tasks with every failure edge, the gate | `workers/inbox_worker.py`, `ordering.py`, `graphs/dispatcher_graph.py`, nodes in `pipeline.py` |
| `RepairHandshake` | abstract: who has the ball of a ticket in which phase | specification of the lifecycle |
| `TicketLifecycle` | one ticket: all handlers of the executor, SLA scan, administration server | `tickets/`, `db.py`, `workers/scheduler.py`, `admin/server.py` |
| `CommandLedger` | abstract: a key gets one answer, an applied command one effect on the ticket as it expected it | specification of the executor |
| `MessageProcessing` | messages of one member from the row to the effect: attempts, pending actions, ledger | `pipeline.py`, `routing/pending_actions.py`, `tickets/executor.py`, `db.py` |
| `Conversation` | what a message means among several tickets: question, routing, context, validation, execution | `pipeline.py`, `routing/`, `semantics/`, `tickets/` |
| `TicketAgent` | the troubleshooting agent of one ticket: lock, nodes, checkpoint | `graphs/`, `pipeline.py` |
| `Intake` | child process, lines, rows; pictures from the download to the analysis | `event_listener.py`, `event_normalizer.py`, `images/`, `db.py`, `pipeline.py`, `main.py` |
| `Outbox` | notification rows, Notifier, sender | `notifier.py`, `db.py`, `main.py` |
| `SlaClock` | waiting clock, deadline, pauses, reminders | `db.py`, `tickets/executor.py`, `workers/scheduler.py` |
| `OrderMonitor` | orders, shared table, both programs | `reconciling/order_store.py`, `workers/scheduler.py`, `pipeline.py` |
| `SchedulerProofs` | theorems about `SlaClock` and `OrderMonitor`, the two modules of the scheduler | |
| the other `…Proofs` | theorems about the module of that name | |
| `MC…` | values of constants that a cfg cannot write | |

### How state and actions correspond to the code

**CommitGate.** `pc[i]` is the node at which the task of the i-th message of
the batch stands; a step of `Task(i)` runs from one `await` to the next.
`done`, `next` and `turns` are the fields of `OrderedCommitGate`. `Commit`
is the business code, which runs without an `await` when the turn is open.
Any node may fail; `HandleFailure` is the handler of the graph, and `Return`
is the `finally` of `MessageProcessingPipeline.process` with its `mark_done`.

**TicketLifecycle.** One action is one transaction of the executor: guard and
`update_ticket_cas` of the handler, then `_finalize` as
`SwitchResponsibility`, which includes the early return of
`switch_responsibility` when the side stays the same. `RoleAllowed` and
`RoutableStates` translate the checks of the validator and of routing;
`Arrives` distinguishes a validated command from the answer to the
which-ticket question, for which `pipeline.py:954` checks state and version
but no role. `MarkOverdue` and `OpenTimeoutCycle` are the two commits of the
SLA scan; `ScanInterrupted` is a death in between. `Admin` is the other
process.

**MessageProcessing.** `row`, `attempts`, `ready` and `result` are columns of
`inbox_messages`; `pendings`, `executions` and `version` are tables of the
same names. The business code of a message is a `job` whose steps are its
commits, in the order of the code: confirm or decline, execute, supersede,
create, complete, reply. `Raise`, `Crash`, `RollBack` and `AdminWrite` happen
between any two of them. What the model makes of a message is a choice that
is made again at every attempt. The version check of `_dispatch` is the guard
that separates `Apply` from `Refuse`. `applied` is a history of the effects:
whose message executed, whose request it was (`origin`), the version that the
request was made for and the version it met.

**Outbox.** A key is a row. The sending methods are jobs of several steps:
insert, record the system message, call the sender, mark. `queue` is the list
`flush` has claimed. `old` are claims of more than five minutes.

**Conversation.** One member, several tickets, numbered in the order of
every list. `question` is the WAITING pending action: intent, the tickets
whose versions it expects, those of them that were written since (`stale`
stands for a version that no longer matches) and the fields of a draft.
`selected` is the row of `ticket_contexts`. A message is a decision: intent,
the number the model read, the numbers in the text, the ticket of the quoted
message, the candidate whose score passes, and the fields it brings.
`IsReply` and its disjuncts are the first half of `_handle_decided`;
`Route` is `TicketRouter.route` in its order; `Valid` is `validate_decision`;
`After` is what the executor makes of the status. `last` records what the
message named and what it acted on. A message commits in one step, with two
exceptions in mind. The administration server is another process, so
"switch to" is two steps, `Select` (the ticket is found) and `SelectWrites`
(the context is written, `pipeline.py:1289`), between which the server may
close the ticket; and the answer that chooses several tickets checks all of
them (`Ready`) and executes one after the other, each in its own transaction
with its own version check, whose outcomes are a choice (`Outcomes`); the
server's write between two of these is in that choice only as a refusal.
`AdminSets` deletes the contexts of a ticket that it closes, as
`admin/server.py` does.

**TicketAgent.** `queue` is the `asyncio.Lock` of the ticket, which is served
in order, its holder first. A run is `Enter`, `Load` (with the correction of
the stage by the status), `File` (`persist_event`), `Tell` (`notify`, which
writes and sends) or `SyncLifecycle`, and `Return`, by which the last
checkpoint is written and the lock released. `stage` is the stage in the run,
`saved` that of the checkpoint, which the saver may have written up to any
node (`MaySaved`) when a crash or an exception ends the run, also between
`Tell` and `Return`: what was told and what is saved are two things. The
inbox row is COMPLETED before all this, so a crashed run is not repeated.

**Intake.** `pipe` is what the child has written and nobody has read.
`ReadLine` is the normaliser with `enqueue_message`; `ReadFails` a handler
that raises, which terminates the child and loses what is in the pipe.
`Fetch`, `Write`, `Fill`, `Rename`, `Store` are the steps of the archive
between which the process may die, `disk` survives. An error in one of them is
caught picture by picture (`ArchiveFails`); one outside, in listing the rows or
in marking a failure, ends the archiving of the message and is swallowed
(`ArchiveBreaks`, `pipeline.py:852`). `PrepareFails` is the node before, which
may fail into a retry or a dead letter, and `TakenForWords` the message whose
attachments could not be read there: it goes on without them. `missed` is a
history of the pictures that ended in such a way. An analysis is planned
with the message and runs in the background, perhaps twice for one picture.

**SlaClock.** Hours. A command is its effect on the clocks; `Finalize` ends
the pause for the intents the code names, `Shifted` is the move of
`waiting_since`, `Credited` the move of the deadline. History variables
measure independently how long somebody has really been waited for.

**OrderMonitor.** `table` is the file, `copy` and `theirs` are the two
programs' copies in memory. `wb.save` writes the file in place
(`order_store.py:48`): `BeginSave` empties it and makes it `torn`, `EndSave`
completes it, and a crash or a failing write in between leaves it torn. Then
every load and every scan of the bot raises, so no row is appended or marked
and no status is told until the other program saves the copy it still holds;
rows marked before are never written again by the bot. `table` is what the file
says, or said before it was torn. The other program is external: its behaviour is
taken from what `order_store.py`, `scheduler.py` and the documents say of it.
Assumed of it: it does not load a torn file, does not leave one, and does not
save while the bot writes. The file exists from the start (`_ensure_file`, the
same kind of save, is left out) and nobody deletes it.

### Composition

`CommitGate` implements `OrderedCommit` (property `ImplementsOrderedCommit`),
so `MessageProcessing` may take the guarantee as its guard `MyTurn` instead
of repeating the gate. `TicketLifecycle` implements `RepairHandshake`
(`ImplementsHandshake`) as long as commands come from roles the validator
admits and the administration server stays away. `MessageProcessing`
implements `CommandLedger` (`ImplementsLedger`): of all that the inbox, the
pending actions and the executor do, crashes included, what remains to be seen
from the ticket is that keys are answered once and that effects follow each
other on the versions they were meant for. `MessageProcessing`,
`Conversation` and `SlaClock` abstract the ticket to a version, to its
coarse status and to its clocks. `Intake` ends and `MessageProcessing` begins
with a row; `TicketAgent` begins where the business code of a message ends.

## 3. What TLC checks

| Run | Instance | States, about | Shows |
|---|---|---|---|
| `CommitGate` | `N = 5` messages per batch | 51 thousand | commits in order, every batch ends, the abstract gate is implemented |
| `TicketLifecycle` | 7 business writes, 1 interrupted scan | 72 thousand | ledger and row agree, waits are backed, a review asks the manager and is not paused, an overdue ticket is accountable, writes move the version, the abstract handshake is implemented |
| `Messages` | 3 messages, the second may come late, batches of 2, 2 attempts, all replies, 1 mishap | 2.0 million | no request is done more often than its own interruptions pay for, only late and retried ones are overtaken, confirmed means settled, rows tell the truth, the abstract ledger is implemented |
| `MessagesSettle` | 2 messages, 3 attempts, 2 mishaps of any kinds | 1.0 million | every message settles |
| `Conversation` | 3 tickets, 3 intents about tickets besides reports, questions and selections, both roles, the administration server at any moment | 72 thousand | numbers are obeyed, contexts end with their tickets, stale choices act on nothing |
| `TicketAgent` | 3 messages, 1 crash or failing run | 0.8 million | the stage follows the status, what is said is filed, no advice after a hand-over unless its run was cut short after telling, every task ends |
| `Intake` | 2 messages, 2 tickets, 2 mishaps | 0.6 million | pictures are kept or given up, unless archiving broke down, and stay with their ticket, the listener returns |
| `Outbox` | 4 rows of 4 kinds, portions of 2, one mishap of each kind | 0.3 million | nothing repeated without a cause, rows tell the delivery, every row settles |
| `SlaClock` | deadline 2 h, reminders at 1 and 2 h, 6 hours | 1.8 million | pauses are left out of waits, nobody is pressed too early or too often |
| `OrderMonitor` | 2 orders, one unknown to the shop, 1 crash, 1 failing load or save | 46 thousand | synchronised means written while the file is whole, endings are told unless it stays torn |

Why the bounds are enough. *CommitGate*: the gate compares a position with
the first undone one; five positions hold a done block, a gap, a done block
and an undone tail, and the proofs remove the bound. *TicketLifecycle*: the
longest interesting story (create, pause, stop, reopen, report, reject,
close) is seven writes, and again the invariants are proved without it.
*Messages*: a question, its answer and a third message in between or after;
with a batch limit of two the three never fit one batch. One late comer
among three leaves two that must keep their order, in one batch or in two. *Outbox*: rows do
not interact except through the portion of `flush`, which two rows fill.
*Conversation*: a choice of two tickets out of three, one of them stale, one
ticket never shown; the three intents are one that keeps the status, one that
closes and one that brings back. *TicketAgent*: a run, one that waits for its
lock and one whose message commits meanwhile. *Intake*: one picture is
processed again while another message is read; two mishaps make a crash in
the repetition of what a crash cut short. *SlaClock*: six hours hold a full wait, a pause and a second wait.
*OrderMonitor*: one order cannot lose another's row, two can. Every bound is
a CONSTANT with a comment; `Horizon`, `MaxVersion`, `MaxInterruptions`,
`MaxMishaps`, `Allowed`, `MaxCrashes`, `MaxFailures`, `T`, `Business`, `AdminTo`
and the numbers of messages are bounds of the model, the others parameters of
the code.

Deadlock is checked in `CommitGate`, `TicketLifecycle`, `Conversation`,
`Outbox` and `OrderMonitor`. The runs of messages (`Messages…`,
`TicketAgent`, `Intake`) end when every message is settled and no mishap is
left, and `SlaClock` ends at its horizon, so these say
`CHECK_DEADLOCK FALSE`; `MessagesSettle` and `RunsEnd` say the stronger thing.

Fairness. The event loop serves every task that can run and every `await` of
a task returns (the model client and the sender have time-outs, downloads
too), hence weak fairness of each task. `BecomeDue` and `GrowOld` are the
passage of time. `Outbox` assumes weak fairness of `Claim`, that is, that
members go on writing: `flush` runs only after a batch. `OrderMonitor`
assumes strong fairness of the minute-by-minute scans, which are disabled
again and again while another job runs on the same loop, and weak fairness of
the other program, which runs daily. `TicketAgent` assumes that a run which
holds the lock takes its steps or fails, `Intake` that the listener's loop,
its delays and the reading of lines go on (an exception out of
`_terminate_proc`, in the `finally` at `event_listener.py:200`, would end it)
and that a stopped process is started again. Mishaps are never fair.

### Where code and documents disagree

Two have runs that must find the violation.

| Run | What happens |
|---|---|
| `MessagesCrashRepeats` | A crash after the executor's commit; the second recognition asks instead of acting; the confirmation has a dedupe key of its own, and the request is executed twice. `db.py:17` says the key prevents that. |
| `ConversationDraft` | A report without a place becomes a draft and the member is asked to complete it; a bare "yes" builds the ticket without the place (`pipeline.py:1014`). `docs/系统说明与淘宝对账协作.md:20` says that what is missing is asked for and never assumed. |

Five more are definitions of the modules that TLC refutes when they are added
to the run of their module:

* `EffectsInOrder` (`MessageProcessing`): a row waits for its retry while
  later rows of its group are taken up and executed (`db.py:849`);
  `docs/业务流程与工单生命周期.md:186` promises order. How far that
  goes is checked and proved: `OvertakenOnesWereLate`.
* `RejectReturnsToEngineer` (`TicketLifecycle`): a leader rejects a
  completion; `switch_responsibility` maps a leader to the manager's side and
  does nothing because the ticket waits for it already, so the ticket goes
  back to work and still waits for the manager. `tickets/executor.py:358` says
  it is handed to the engineer.
* `RemindedOncePerCycle` (`SlaClock`): the end of a pause moves
  `waiting_since`, which is part of the reminder keys, so the cycle that goes
  on is reminded again; `workers/scheduler.py:299` says once per cycle.
* `ShippedMeansShipped` (`OrderMonitor`): 待发货 contains the word the scan
  looks for, so a paid order is announced as shipped and the real shipment is
  not; `workers/scheduler.py:170` says 待发货 is not announced.
* `WaitsWhenReported` (`TicketAgent`): the saved stage says that the agent
  waits for a confirmation of a ticket that nobody reported, or of a new
  ticket not at all.

Stronger forms of properties that the code does not satisfy, and other
observations made while modelling; the checked forms exempt them by name:

* An answer to the which-ticket question bypasses the role check
  (`pipeline.py:954`), so a completion may be reported by anybody:
  `StaffReportWaitsForManager` is about staff only.
* A scan that dies between the overdue mark and the timeout cycle leaves an
  overdue ticket that is asked for no reason (`workers/scheduler.py:250`);
  `OverdueAccountable` exempts interrupted scans.
* Hours of a pause count if the wait began inside it
  (`tickets/executor.py:278`): `PausesDoNotCount`. A pause that ends outside
  the running states is not credited to the deadline
  (`docs/SLA架构设计与绩效考核扩展.md:188`): `EveryPauseIsCredited`.
* A correction whose execution is rolled back gets no second draft
  (`pipeline.py:1104`), a confirmation does; a crash between confirming and
  executing loses the confirmed command (`pipeline.py:1045`), so
  `ConfirmedIsSettled` is about jobs that no crash cut short.
* A message that was executed may end as a dead letter whose text denies it,
  after a crash (`pipeline.py:1445`).
* A reminder that is sent again by `flush` is a placeholder
  (`notifier.py:163`); the overdue reminder, whose key has no date, is never
  tried again after a failure (`workers/scheduler.py:252`).
* The other program's save may drop a row that reads synchronised
  (`reconciling/order_store.py:41`). A death or a full disk while the bot
  writes the file tears it (`reconciling/order_store.py:48`): all rows are gone
  for every reader, those that read synchronised too, and the bot never
  repairs it. `SyncedMeansWritten` is about a whole file, `EndingsAreTold`
  about runs in which the file does not stay torn; they hold for every other
  failure and crash.
* A hand-over is announced (`graphs/ticket_agent_graph.py:161`) before the
  checkpoint knows of it. A run that dies or raises in between leaves a stage
  from before, and the next message of the manager is given advice after all;
  without the exemption (`lost`) TLC finds this in `HandedOverStaysQuiet`.
* A context may be written for a ticket that the administration server has
  closed since it was found (`pipeline.py:1289`); nobody deletes it until it
  expires or its ticket is closed again. `SelectionEndsWithTicket` exempts that
  context (`raced`) and no other.
* A message may be done with its picture neither stored nor given up: its
  attachment rows could not be listed (`images/archive.py:297`, swallowed at
  `pipeline.py:852`), marking a picture as given up failed as well
  (`images/archive.py:332`), or its preparation failed up to the dead letter
  (`graphs/dispatcher_graph.py:112`). `PicturesAreAccounted` exempts these
  messages (`missed`). One whose attachments cannot be read in
  `pipeline.py:240` is answered as if it had none.
* A written full number of a closed ticket is dropped by the recognition
  before the router sees it, and the message falls to the context or to the
  only candidate; a lone "2" is read as the second *active* ticket
  (`pipeline.py:788`), whatever list was shown. `NumberIsObeyed` is about the
  numbers that reach the router.
* The question to which ticket a picture belongs (`pipeline.py:1386`) leaves
  no pending action, so a number in reply never puts the picture anywhere. A
  number in reply to the question whether a report is a duplicate builds it.
* A handler that raises loses its line and everything the child had written
  behind it (`event_listener.py:86`). A late analysis that fails may overwrite
  ANALYZED.
* A reply to a message has the key `reply:<message>` (`notifier.py:64`): one
  that is processed again with another outcome is not answered again.
* The administration server may set PENDING_CONFIRM without opening a cycle
  (`admin/server.py:596`); properties about waits exempt tickets it touched.

## 4. What is proved

TLAPS proves the following for all values of the constants, from the named
assumptions of the modules (`BatchLimit`, `LifecycleConstants`,
`MessageConstants`, `OutboxConstants`, `ClockConstants`, `BoundsAssumption`,
`ConversationAssumption`, `IntakeAssumption` and `OrderConstants`) and
nothing else. Every safety property that a passing run checks is stated by a
theorem. Every proof has one step per action, and one per conjunct below it
where the action can disturb several.

**CommitGateProofs.** `NoOvertaking` and `TurnsExact` are not inductive: that
a message may commit only after its predecessors depends on what the gate
knows. `Inv` adds that
exactly the members of the batch have tasks, that `next` is the first
position that is not done, that exactly the turns up to `next` are open, that
what is done is past its commit, and that a task which has committed had all
its predecessors done.
`MarkDoneKeepsGate` is the one hard step: marking a position extends the done
prefix to the next gap. From `Inv`: `TypeCorrect`, `CommitsInOrder`,
`TurnsAreExact`, and `GateImplementsOrderedCommit`, the safety part of the
refinement (initial states and steps map; the fairness part is TLC's).

**TicketLifecycleProofs.** `Inv` is the type invariant, the bound of cycle
numbers by the version (which keeps new numbers fresh), and `LedgerAgrees`.
It holds for every writer, the administration server included:
`TypeCorrect`, `LedgerAgreesWithRow`, `WritesAreVisible`. `BotInv` adds what
holds until the administration server writes: waits are backed by a cycle, a
report by staff waits for the manager, a ticket under review or completed is
not paused, nobody is waited for before the ticket exists, and a ticket under
review was reported by somebody. From it come `BotKeepsTheHandshake` and
`TicketImplementsHandshake`. `OverdueIsAccountable` has an argument of its
own over the two statements of the scan. Each proof has one step per action;
the lemmas `Switch…` say once what `switch_responsibility` does.

**OutboxProofs.** `NoNeedlessRepeat` is a count, so its invariant is a
budget: `Owed` says how many texts a row may still cause (one in somebody's
hand, one that the row itself may start), and `delivered + Owed` never exceeds
the causes. `Places` ties the status of a row to the method or the queue that
holds it; without it a claimed row might be claimed again. `Told` and
`Reminders` give `RowsTellWhatWasSaid`: before the first crash no reminder is
live except while its own call runs.

**MessageProcessingProofs.** The question is how often one request can reach
the ticket, and no state says so directly: a request wanders from a row to a
job, into a question, into the job of somebody's answer, perhaps into a second
draft, and back into a row after a failure. The invariant `Inv` counts
*tokens*. `Owed(m)` is the number of places from which the request of message
`m` may still be executed: questions that wait (`QuestionsOf`), its row while
it is not settled (`RowOwes`), and the job of an answer between the resolution
of the question and the new question or the effect (`JobOwes`).
`TokensPaidFor` says that effects and tokens together never exceed one and the
number of times that a job of this very message was cut short (`cut[m]`, a
history variable). Every step hands a token on, loses it or turns it into an
effect; only a crash, or an error after the effect, makes a new one, and only
for the message of the job. So a crash in the job of one message never repeats
another's request, however often the process dies. `Working`,
`RecordsFit` and `ResultsFit` are what that argument needs: a job belongs to a
claimed row, the first step of an answer finds the question waiting, the key
of a confirmation is on record only after its question is settled (so an
execution that a key cuts short is a direct one, and had its effect), and only
what was executed reads EXECUTED. `EffectsShow` says where
the effect of every message shows whose jobs were not cut short, and, while no
job at all was, `ConfirmedIsUnderWay` where every confirmed question is.

The order has an argument of its own. That the gate opens turns in order is
proved in `CommitGateProofs`, for the positions of one batch; that messages
act in order needs the batches and the restarts as well. `InTurn` says who has
*passed*, that is, is settled or has failed once: everybody whose task has
ended; everybody earlier than a message that has a task, unless he has one too
(`BatchIsPrefix`: a batch takes the first of those that are due); everybody
earlier than a message that acts or has ever acted. For that, no row may be
left PROCESSING without a task (`ProcessingHasTask`), since no query would find
it when the next batch is made. So `OvertakenOnesWereLate`: a message acts
after a later one only if it arrived late or had to be retried itself; neither
a crash in the middle of a batch nor somebody else's failure changes that.

TLC checked every part of `Inv` with two messages and three mishaps and with
three and one before it was proved.

From `Inv` follow `EffectsAccounted`, `TurnsFollowMessages`, `LedgerIsExact`,
`ConfirmedSettled`, `RowsTruthful`, `TypeCorrect` and `ConfirmedCurrent`; `SettledStaysSettled` is about steps: a
settled question is never touched again, by a crash either.
`LedgerIsImplemented` maps every step to one of `CommandLedger` or to a
stutter: `Apply` is a commit, because the record of its key is new and the
version is the one it expected; every roll-back and every crash is a stutter;
the administration server's is a write of somebody else. `EffectsAreSerial`
is what the abstract module promises and the refinement carries over: one
answer for a key, and effects on versions that grow, so none is lost to
another. `EffectsAccounted` is the precise form of what the comment at
`db.py:17` says too generally: `DoneOnce` is refuted (`MessagesCrashRepeats`),
and this is how far it can be wrong.

**SchedulerProofs** holds the proofs about two modules. *SlaClock*:
`WaitIsMeasured` is inductive with the types. For
`NobodyIsPressed`, `Spent` says that a level which has reminded more often
than pauses ended has used up the key of this cycle, so the next scan is
silent; `Balance` that the deadline has every hour of every pause back, but
for those of the pause in force, or the working time is over anyway, or hours
were lost in a closure.

*OrderMonitor*: `SyncedMeansWritten` needs to know what every copy of
the file holds: `MarkedHasRow` (a job that is about to mark has its row in
the table), `CopyIsComplete` (the bot's copy lacks no row of the file, while it is
saved either) and
`TheirsIsOlder` (nobody but the other program drops rows, so its copy holds
none that the file has lost). Of a torn file the invariant speaks as well: what
the file said before it was torn is what a completed save would have kept.

**ConversationProofs.** The properties are nearly inductive: `Tables` and
`QuestionOK` add that a question shows existing tickets and that stale ones
are among them. The work is in the many ways of a message (`StepGood`), and in
the two writers that close tickets: the executor and the administration server
both delete the contexts, and only a context written by `SelectWrites` after
the closing stays.

**TicketAgentProofs.** `RunsAreSerial` comes first (the queue has no
repetitions, and only its head is in the graph). `Filed` is `SpokenIsFiled`
with the run that has filed and not yet spoken; `RunKnows` and `Rest` say what
a run in each node, and the checkpoint between runs, know of the status;
`Tracking` says where a hand-over that was announced is known: in the saved
stage after a run has returned, in the run's own stage before, or nowhere if
such a run was cut short, which is the exemption of the theorem.

**IntakeProofs.** `Kept`, picture by picture: a task that is about to rename
has a whole temporary file, one that is about to store has a whole file, a
file is never torn, and a picture past its archiving is stored, given up or
among those that were missed. `PictureKeepsTicket` needs types only.

Only model-checked: liveness (`BatchesEnd`, `MessagesSettle`, `RunsEnd`,
`ListenerReturns`, `EverythingSettles`, `EndingsAreTold`) and the fairness part
of `ImplementsOrderedCommit`, which are beyond TLAPS (it has no rules for
ENABLED here). The definitions that the code violates are refuted by TLC and
have no theorem, of course.

## 5. What is not modelled, and the plan

Not modelled because it keeps no state or is not part of the running program:
prompts and text repair of the recognition, the protocol compiler, the
evaluation, reports and exports, look-up tables, import and maintenance
scripts. The mirror of tickets in an online table (`workers/aitable_sync.py`)
compares two lists and calls a remote service whose behaviour is not in the
source; it prunes by numbers it read after the remote list, which is the one
order-dependent thing in it. Within the modules: cancellation at shutdown,
shadow mode and a disabled archiver (both do nothing), version tables of diagnoses and plans, negotiation in `SlaClock`,
the near-deadline and the daily reminder of the scheduler (texts with a dedupe
key like others in `Outbox`), other members' contexts in `Conversation`.

Done, in the order of the plan: `CommitGate` with `OrderedCommit`;
`TicketLifecycle` with `RepairHandshake`; `MessageProcessing` with
`CommandLedger`; `Outbox`; `SlaClock`; `OrderMonitor`; `TicketAgent`;
`Conversation`; `Intake`; and proofs about all of them.

Left: the refinement of an abstract notification (said at most once for every
cause) by `Outbox`; safety lemmas on which the other liveness properties
rest, as `ProcessingHasTask` is one of `MessagesSettle`; registration of orders after the
completion of a row, which needs `MessageProcessing` and `OrderMonitor`
together; the reminder keys of `SlaClock` as rows of `Outbox` (the overdue
reminder has a key without a date, so one failed sending is its last until the
ticket is reopened); negotiation in `SlaClock`.
