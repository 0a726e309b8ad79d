---------------------------- MODULE TicketAgent ----------------------------
(***************************************************************************)
(* The troubleshooting agent of ONE ticket (graphs/ticket_agent_graph.py,  *)
(* graphs/runtime.py): what the dispatcher does after the business code.   *)
(*                                                                         *)
(* A message commits (its turn at the gate is released, its inbox row      *)
(* reads COMPLETED), then its task looks for the agent's ticket, queues    *)
(* for the lock of the ticket and runs the graph once.  The stage of the   *)
(* agent lives in a checkpoint that a saver writes while the run goes on;  *)
(* every run starts at the entry node with the saved stage and corrects it *)
(* by the status of the ticket.  Other messages commit meanwhile.          *)
(*                                                                         *)
(* Batches are not modelled: the runs of a batch end before the next batch *)
(* begins, which is one of the orders that are possible here.              *)
(***************************************************************************)
EXTENDS Naturals, Sequences

CONSTANTS N,           \* bound: messages of the group that may concern the ticket
          MaxMishaps   \* bound: crashes and failing runs, together

ASSUME BoundsAssumption == N \in Nat /\ MaxMishaps \in Nat

Msgs == 1..N   \* numbered in the order of their commits

Statuses == {"NONE", "ACTIVE", "PENDING_CONFIRM", "NEGOTIATION", "CLOSED"}
Roles    == {"MANAGER", "ENGINEER", "UNKNOWN"}
Intents  == {"create", "complete", "reject", "other"}
Stages   == {"TRIAGE", "SELF_SERVICE", "WAITING_MANAGER", "ENGINEER_TRACKING",
             "WAITING_PARTS", "WAITING_CONFIRM", "CLOSED"}
Kinds    == {"NEW_ISSUE", "UNSOLVED", "RESOLVED", "HANDOFF", "ENGINEER_UPDATE",
             "ENGINEER_COMPLETED", "MANAGER_REJECTED", "PASSIVE", "CLOSED"}
Kept     == {"SELF_SERVICE", "WAITING_MANAGER", "ENGINEER_TRACKING", "WAITING_PARTS"}
NoEvent  == [role |-> "UNKNOWN", intent |-> "other"]
\* the role decides nothing once the intent is one of the first three
Events   == [role : {"UNKNOWN"}, intent : Intents] \cup [role : Roles, intent : {"other"}]
Tracked  == {"ENGINEER_TRACKING", "WAITING_PARTS"}
InRun    == {"file", "tell", "sync", "save"}

VARIABLES
  status,   \* status of the ticket's row; OVERDUE is ACTIVE to the agent
  pc,       \* where the task of each message is
  event,    \* the event a task carries: who speaks, with which intent
  linked,   \* messages with a row in message_ticket_links
  queue,    \* tasks at the ticket's lock, its holder first (asyncio.Lock is FIFO)
  saved,    \* agent_stage in the checkpoint
  stage,    \* agent_stage of the run that holds the lock
  snap,     \* status in the snapshot of the last run; NONE when it did not finish
  kind,     \* event_kind of that run
  told,     \* messages answered by the agent: agent:<message> is in the outbox
  mishaps,
  handed,   \* history: an engineer took over and no run saw that end
  lost      \* history: the run that announced it was cut short before it returned

vars == <<status, pc, event, linked, queue, saved, stage, snap, kind, told, mishaps, handed, lost>>

TypeOK ==
  /\ status \in Statuses
  /\ pc \in [Msgs -> InRun \cup {"new", "committed", "queued", "done"}]
  /\ event \in [Msgs -> Events]
  /\ linked \in SUBSET Msgs
  /\ queue \in Seq(Msgs)
  /\ saved \in Stages /\ stage \in Stages
  /\ snap \in Statuses /\ kind \in Kinds
  /\ told \in SUBSET Msgs
  /\ mishaps \in 0..MaxMishaps
  /\ handed \in BOOLEAN /\ lost \in BOOLEAN

\* The ticket is not there yet, or earlier batches have left it to an engineer.
Init ==
  /\ \/ status = "NONE" /\ saved = "TRIAGE" /\ handed = FALSE
     \/ status = "ACTIVE" /\ saved = "ENGINEER_TRACKING" /\ handed = TRUE
  /\ stage = saved
  /\ pc = [m \in Msgs |-> "new"]
  /\ event = [m \in Msgs |-> NoEvent]
  /\ linked = {}
  /\ queue = <<>>
  /\ snap = "NONE" /\ kind = "PASSIVE"
  /\ told = {}
  /\ mishaps = 0
  /\ lost = FALSE

\* A task that ends takes its event with it.
Finish(m) == /\ pc' = [pc EXCEPT ![m] = "done"]
             /\ event' = [event EXCEPT ![m] = NoEvent]
Goto(m, l) == pc' = [pc EXCEPT ![m] = l]

----------------------------------------------------------------------------
(* The business code.  A message that the executor acted on is linked to   *)
(* the ticket and may have moved its status; any other message (refused,   *)
(* asked back, ignored) is not linked and moved nothing.                   *)

\* While the ticket waits for its confirmation every message is filed there.
Moves(i) == {<<"PENDING_CONFIRM", "PENDING_CONFIRM">>} \cup
  CASE i = "create"   -> {<<"NONE", "ACTIVE">>}
    [] i = "complete" -> {<<"ACTIVE", "PENDING_CONFIRM">>, <<"NEGOTIATION", "PENDING_CONFIRM">>}
    [] i = "reject"   -> {<<"PENDING_CONFIRM", "ACTIVE">>}
    [] i = "other"    ->
         {<<"ACTIVE", s>> : s \in {"ACTIVE", "NEGOTIATION", "PENDING_CONFIRM", "CLOSED"}}
         \cup {<<"NEGOTIATION", s>> : s \in {"NEGOTIATION", "ACTIVE", "PENDING_CONFIRM", "CLOSED"}}
         \cup {<<"PENDING_CONFIRM", "CLOSED">>, <<"CLOSED", "ACTIVE">>}

Commit(m) ==
  /\ pc[m] = "new" /\ \A l \in 1..(m - 1) : pc[l] # "new"
  /\ \E e \in Events :
       /\ event' = [event EXCEPT ![m] = e]
       /\ \/ \E s \in Statuses :
               /\ <<status, s>> \in Moves(e.intent)
               /\ status' = s
               /\ linked' = linked \cup {m}
          \/ status # "NONE" /\ UNCHANGED <<status, linked>>
  /\ Goto(m, "committed")
  /\ UNCHANGED <<queue, saved, stage, snap, kind, told, mishaps, handed, lost>>

\* resolve_ticket_agent and invoke_ticket_agent.  A linked message belongs to
\* its ticket; any other one only to a ticket that is still a candidate, and
\* perhaps to none.
Invoke(m) ==
  /\ pc[m] = "committed"
  /\ m \in linked \/ status \notin {"NONE", "CLOSED"}
  /\ queue' = Append(queue, m)
  /\ Goto(m, "queued")
  /\ UNCHANGED <<status, event, linked, saved, stage, snap, kind, told, mishaps, handed, lost>>

NoAgent(m) ==
  /\ pc[m] = "committed" /\ m \notin linked
  /\ Finish(m)
  /\ UNCHANGED <<status, linked, queue, saved, stage, snap, kind, told, mishaps, handed, lost>>

Holds(m) == queue # <<>> /\ Head(queue) = m
----------------------------------------------------------------------------
(* The graph.  Each node is a step.  The saver writes the stage of each    *)
(* node while the run goes on and has written the last one when the run    *)
(* returns; what it had written is read only after a mishap, and is chosen *)
(* there.                                                                  *)

\* mutated: tracking is forgotten like a triage
StageOnLoad_ForgetsTracking(s, prior) ==
  IF s = "CLOSED" THEN "CLOSED"
  ELSE IF s = "PENDING_CONFIRM" THEN "WAITING_CONFIRM"
  ELSE IF s = "NEGOTIATION" THEN "WAITING_PARTS"
  ELSE IF prior \in Kept \ Tracked THEN prior ELSE "TRIAGE"

StageOnLoad(s, prior) ==
  IF s = "CLOSED" THEN "CLOSED"
  ELSE IF s = "PENDING_CONFIRM" THEN "WAITING_CONFIRM"
  ELSE IF s = "NEGOTIATION" THEN "WAITING_PARTS"
  ELSE IF prior \in Kept THEN prior
  ELSE "TRIAGE"

\* What a manager's text may say of the advice, by its words or else by the
\* model; a text that nobody understands is PASSIVE, as when the model fails.
Feedback == {"UNSOLVED", "RESOLVED", "HANDOFF", "PASSIVE"}

\* The kinds detect_ticket_event may return.
KindsOf(e, s, st) ==
  IF s = "CLOSED" THEN {"CLOSED"}
  ELSE IF e.intent = "create" THEN {"NEW_ISSUE"}
  ELSE IF s = "PENDING_CONFIRM" \/ e.intent = "complete" THEN {"ENGINEER_COMPLETED"}
  ELSE IF e.intent = "reject" THEN {"MANAGER_REJECTED"}
  ELSE IF e.role = "ENGINEER" THEN {"ENGINEER_UPDATE"}
  ELSE IF e.role # "MANAGER" \/ st \in Tracked THEN {"PASSIVE"}
  ELSE Feedback

Troubleshoots(k) == k \in {"NEW_ISSUE", "UNSOLVED"}

\* load_ticket_state, detect_ticket_event and, for advice, the query that
\* opens self service.  Nothing is read after the snapshot, so the waits for
\* the model lie behind this step.
Load(m) ==
  LET st == StageOnLoad(status, saved) IN
  /\ snap' = status
  /\ \E k \in KindsOf(event[m], status, st) :
       /\ kind' = k
       /\ stage' = IF Troubleshoots(k) THEN "SELF_SERVICE" ELSE st
       /\ handed' = (handed /\ status = "ACTIVE" /\ k # "NEW_ISSUE")
       /\ lost' = (lost /\ handed')
       /\ Goto(m, IF Troubleshoots(k) \/ k = "HANDOFF" THEN "file" ELSE "sync")
  /\ UNCHANGED <<status, event, linked, queue, saved, told, mishaps>>

\* invoke_ticket: the graph begins when the task gets the lock.
Enter(m) == pc[m] = "queued" /\ Holds(m) /\ Load(m)

\* mutated: the advice is sent and the message filed afterwards, if at all
File_Later(m) ==
  /\ pc[m] = "file"
  /\ Goto(m, "tell")
  /\ UNCHANGED <<status, event, linked, queue, saved, stage, snap, kind, told, mishaps, handed, lost>>

\* The text comes from the model, or is the fixed one; then persist_event
\* links the message, unless the business code has done so.
File(m) ==
  /\ pc[m] = "file"
  /\ linked' = linked \cup {m}
  /\ Goto(m, "tell")
  /\ UNCHANGED <<status, event, queue, saved, stage, snap, kind, told, mishaps, handed, lost>>

\* persist_and_notify_guidance and handoff_engineer, the last nodes: the group
\* is told, and the node returns its stage.
Tell(m) ==
  /\ pc[m] = "tell"
  /\ told' = told \cup {m}
  /\ stage' = IF kind = "HANDOFF" THEN "ENGINEER_TRACKING" ELSE "WAITING_MANAGER"
  /\ handed' = (handed \/ kind = "HANDOFF")
  /\ Goto(m, "save")
  /\ UNCHANGED <<status, event, linked, queue, saved, snap, kind, mishaps, lost>>

\* mutated: the status of the ticket is not looked at when the stage is synchronised
SyncedStage_EventFirst ==
  IF kind = "ENGINEER_COMPLETED" THEN "WAITING_CONFIRM"
  ELSE IF kind \in {"MANAGER_REJECTED", "ENGINEER_UPDATE"} THEN "ENGINEER_TRACKING"
  ELSE IF kind = "CLOSED" THEN "TRIAGE"
  ELSE stage

\* mutated: the kind of the event is stored as the stage
SyncedStage_Kind == IF kind = "MANAGER_REJECTED" THEN kind ELSE "TRIAGE"

SyncedStage ==
  IF snap = "CLOSED" \/ kind = "CLOSED" THEN "CLOSED"
  ELSE IF snap = "PENDING_CONFIRM" \/ kind = "ENGINEER_COMPLETED" THEN "WAITING_CONFIRM"
  ELSE IF kind = "MANAGER_REJECTED" THEN "ENGINEER_TRACKING"
  ELSE IF snap = "NEGOTIATION" THEN "WAITING_PARTS"
  ELSE IF kind = "ENGINEER_UPDATE" THEN "ENGINEER_TRACKING"
  ELSE stage

SyncLifecycle(m) ==
  /\ pc[m] = "sync"
  /\ stage' = SyncedStage
  /\ handed' = (handed /\ SyncedStage # "WAITING_CONFIRM") /\ lost' = (lost /\ handed')
  /\ Goto(m, "save")
  /\ UNCHANGED <<status, event, linked, queue, saved, snap, kind, told, mishaps>>

\* The graph returns when the last checkpoint is written, and the lock is
\* released.
Return(m) ==
  /\ pc[m] = "save"
  /\ saved' = stage
  /\ queue' = Tail(queue)
  /\ handed' = (handed \/ stage \in Tracked) /\ lost' = (lost /\ stage \notin Tracked)
  /\ Finish(m)
  /\ UNCHANGED <<status, linked, stage, snap, kind, told, mishaps>>
----------------------------------------------------------------------------
(* Mishaps.  A run that raises is logged and over: the row of its message  *)
(* is COMPLETED and nobody repeats it.  After a crash the same holds for   *)
(* every message that had committed.                                       *)

Inside == \E m \in Msgs : pc[m] \in InRun

\* The saver had written the stages of the nodes up to some point of the run.
MaySaved == {saved, stage} \cup
  (IF Inside THEN {StageOnLoad(snap, saved)} ELSE {}) \cup
  (IF Inside /\ Troubleshoots(kind) THEN {"SELF_SERVICE"} ELSE {})

\* The hand-over was announced, and no run has returned since.
Announced(m) == pc[m] = "save" /\ kind = "HANDOFF"

\* mutated: a run that raises keeps the lock
RunFails_KeepsLock(m) ==
  /\ mishaps < MaxMishaps
  /\ Holds(m)
  /\ saved' \in MaySaved /\ stage' = saved'
  /\ snap' = "NONE"
  /\ Finish(m)
  /\ mishaps' = mishaps + 1
  /\ lost' = (lost \/ Announced(m))
  /\ UNCHANGED <<status, linked, queue, kind, told, handed>>

RunFails(m) ==
  /\ mishaps < MaxMishaps
  /\ Holds(m)
  /\ queue' = Tail(queue)
  /\ saved' \in MaySaved /\ stage' = saved'
  /\ snap' = "NONE"
  /\ Finish(m)
  /\ mishaps' = mishaps + 1
  /\ lost' = (lost \/ Announced(m))
  /\ UNCHANGED <<status, linked, kind, told, handed>>

Crash ==
  /\ mishaps < MaxMishaps
  /\ pc' = [m \in Msgs |-> IF pc[m] = "new" THEN "new" ELSE "done"]
  /\ event' = [m \in Msgs |-> NoEvent]
  /\ queue' = <<>>
  /\ saved' \in MaySaved /\ stage' = saved'
  /\ snap' = IF queue = <<>> THEN snap ELSE "NONE"
  /\ mishaps' = mishaps + 1
  /\ lost' = (lost \/ \E m \in Msgs : Announced(m))
  /\ UNCHANGED <<status, linked, kind, told, handed>>

Step(m) ==
  \/ Invoke(m) \/ NoAgent(m) \/ Enter(m)
  \/ File(m) \/ Tell(m) \/ SyncLifecycle(m) \/ Return(m)

Next ==
  \/ \E m \in Msgs : Commit(m) \/ Step(m) \/ RunFails(m)
  \/ Crash

\* Tasks of the event loop go on, and the lock wakes its first waiter.
Spec == Init /\ [][Next]_vars /\ \A m \in Msgs : WF_vars(Step(m))
----------------------------------------------------------------------------
(* Properties.                                                             *)

\* One run at a time, whatever fails: of the tasks at the lock exactly the
\* first may be inside the graph, so no run starts from a stage that another
\* run is about to replace (graphs/runtime.py:81).
RunsAreSerial ==
  \A m \in Msgs : pc[m] \in InRun => Holds(m)

\* The correction that load_ticket_state promises: when no run is under way
\* and the status did not change since the last run read it, the saved stage
\* says CLOSED of closed tickets only and of all of them, and a reported
\* ticket waits for its confirmation unless the run was that of its creation.
StageFits ==
  (queue = <<>> /\ snap = status /\ status # "NONE") =>
    /\ saved = "CLOSED" <=> status = "CLOSED"
    /\ status = "PENDING_CONFIRM" /\ kind # "NEW_ISSUE" => saved = "WAITING_CONFIRM"

\* After a hand-over is announced, or a run on an engineer's message returns,
\* the manager gets no more troubleshooting advice, through any runs, failures
\* and restarts, until a run finds the ticket reported, negotiated or closed,
\* hears of a completion, even one that was refused, or is the creation's.
\* Exempt is a hand-over whose run raises or dies after it told the group and
\* before the graph returned: the checkpoint may not know of it.
HandedOverStaysQuiet ==
  [][told' # told /\ Troubleshoots(kind) => ~handed \/ lost]_vars

\* Whatever the agent says in the group is an answer to a message that is
\* filed under the ticket, even if the process dies between the two.
SpokenIsFiled == told \subseteq linked

\* The task of every message that committed ends: no failing run keeps the
\* lock of its ticket from those that wait for it.
RunsEnd == \A m \in Msgs : pc[m] = "committed" ~> pc[m] = "done"

\* What the design says of the correction: the stage does not drift from the
\* ticket, so the agent waits for a confirmation when the ticket is reported,
\* and only then.  The code falsifies it.
WaitsWhenReported ==
  (queue = <<>> /\ snap = status /\ status # "NONE") =>
    (saved = "WAITING_CONFIRM" <=> status = "PENDING_CONFIRM")
=============================================================================
