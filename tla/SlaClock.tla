-------------------------------- MODULE SlaClock --------------------------------
(***************************************************************************)
(* The two clocks of a ticket and its pauses: how long somebody has been   *)
(* waited for (waiting_since, scan_response_sla of workers/scheduler.py)   *)
(* and when the repair is due (current_deadline_at, scan_sla_reminders).   *)
(* A special case stops both; when it ends, close_active_special_case of   *)
(* db.py moves waiting_since and _close_and_true_up_special_case of        *)
(* tickets/executor.py moves the deadline.                                 *)
(*                                                                         *)
(* Time passes in hours; a message is executed in the hour it is sent.     *)
(* TicketLifecycle models what else the commands do; here a command is     *)
(* its effect on the clocks.  A ticket has a deadline, so negotiation is   *)
(* left out, and the administration server is, too.                        *)
(***************************************************************************)
EXTENDS Integers

CONSTANTS
  Sla,             \* sla_days, in hours
  FirstHours,      \* RESPONSE_SLA_FIRST_HOURS
  EscalateHours,   \* RESPONSE_SLA_ESCALATE_HOURS
  Horizon          \* bound of the model: the last hour

ASSUME ClockConstants ==
  /\ Sla \in Nat /\ Horizon \in Nat
  /\ FirstHours \in Nat \ {0}
  /\ EscalateHours \in Nat /\ FirstHours <= EscalateHours

VARIABLES
  now,          \* the hour
  status,       \* tickets.status; CLOSED for the terminal ones
  side,         \* tickets.waiting_side
  since,        \* tickets.waiting_since
  deadline,     \* tickets.current_deadline_at
  paused,       \* a special case without resumed_at exists ...
  pausedAt,     \* ... and this is its submitted_at
  timeoutOpen,  \* a WAITING_REASON row exists in timeout_cycles
  keys,         \* dedupe keys of the response reminders that were sent
  reminded,     \* history: reminders of each level in this waiting cycle
  waited,       \* history: hours of this waiting cycle, pauses left out
  stopped,      \* history: hours of pauses since the ticket was created
  resumes,      \* history: pauses of an hour or more that ended in this cycle
  overlapped,   \* history: a cycle began while a pause was in force
  uncredited    \* history: a pause ended outside the running states

clocks == <<now, waited, stopped>>
wait == <<side, since, reminded, waited, resumes>>
vars == <<now, status, side, since, deadline, paused, pausedAt, timeoutOpen,
          keys, reminded, waited, stopped, resumes, overlapped, uncredited>>

Running == {"ACTIVE", "ACTIVE_OVERDUE"}
Sides == {"ENGINEER_SIDE", "MANAGER_SIDE"}
Levels == {1, 2}

TypeOK ==
  /\ now \in 0..Horizon
  /\ status \in Running \cup {"PENDING_CONFIRM", "CLOSED"}
  /\ side \in Sides
  /\ since \in 0..now
  /\ deadline \in Nat
  /\ paused \in BOOLEAN
  /\ pausedAt \in 0..now
  /\ timeoutOpen \in BOOLEAN
  /\ keys \subseteq Levels \X (0..now)
  /\ reminded \in [Levels -> Nat]
  /\ waited \in Nat /\ stopped \in 0..now /\ resumes \in Nat
  /\ overlapped \in BOOLEAN /\ uncredited \in BOOLEAN

\* The manager has created the ticket: the engineer's side has to answer.
Init ==
  /\ now = 0
  /\ status = "ACTIVE"
  /\ side = "ENGINEER_SIDE"
  /\ since = 0
  /\ deadline = Sla
  /\ paused = FALSE
  /\ pausedAt = 0
  /\ timeoutOpen = FALSE
  /\ keys = {}
  /\ reminded = [l \in Levels |-> 0]
  /\ waited = 0
  /\ stopped = 0
  /\ resumes = 0
  /\ overlapped = FALSE
  /\ uncredited = FALSE

Tick ==
  /\ now < Horizon
  /\ now' = now + 1
  /\ waited' = IF paused THEN waited ELSE waited + 1
  /\ stopped' = IF paused THEN stopped + 1 ELSE stopped
  /\ UNCHANGED <<status, side, since, deadline, paused, pausedAt, timeoutOpen,
                 keys, reminded, resumes, overlapped, uncredited>>

-----------------------------------------------------------------------------
(* What a command does to the clocks.                                      *)

Other(role) == IF role = "MANAGER" THEN "ENGINEER_SIDE" ELSE "MANAGER_SIDE"

\* The hours that end with the pause in force, if there is one.
PauseLength == IF paused THEN now - pausedAt ELSE 0

\* Mutant of Shifted: the start of the wait is not moved.
Shifted_Not(start) == start

\* Mutant of Shifted: a wait that began during the pause is moved as well.
Shifted_Always(start) == start + PauseLength

\* close_active_special_case: the pause is taken out of a wait that is not
\* younger than the pause.
Shifted(start) ==
  IF paused /\ start <= pausedAt THEN start + PauseLength ELSE start

\* Mutant of Credited: the deadline is not moved.
Credited_Not(newStatus) == deadline

\* _close_and_true_up_special_case: only a ticket that is ACTIVE when the
\* pause ends gets the hours back.
Credited(newStatus) == IF newStatus = "ACTIVE" THEN deadline + PauseLength ELSE deadline

\* A new cycle begins now; a cycle that goes on is counted on.
BeginWait(newSide, start) ==
  /\ side' = newSide
  /\ since' = start
  /\ reminded' = [l \in Levels |-> 0]
  /\ waited' = 0
  /\ resumes' = 0

\* _finalize of an intent that ends the pause: switch_responsibility, then the
\* end of the pause with its credits.
Finalize(newStatus, newSide, switches) ==
  /\ status' = newStatus
  /\ IF switches
     THEN BeginWait(newSide, Shifted(now))
     ELSE /\ since' = Shifted(since)
          /\ resumes' = IF PauseLength > 0 THEN resumes + 1 ELSE resumes
          /\ UNCHANGED <<side, reminded, waited>>
  /\ deadline' = Credited(newStatus)
  /\ paused' = FALSE
  /\ uncredited' = (uncredited \/ (PauseLength > 0 /\ newStatus \notin Running))
  /\ UNCHANGED <<now, pausedAt, keys, stopped, overlapped>>

\* ticket.add_detail, ticket.diagnosis.submit, ticket.repair_plan.submit.
Contribute(role) ==
  /\ status \in Running
  /\ Finalize(status, Other(role), side # Other(role))
  /\ UNCHANGED timeoutOpen

\* ticket.complete of the engineer.
Report ==
  /\ status \in Running
  /\ Finalize("PENDING_CONFIRM", "MANAGER_SIDE", side # "MANAGER_SIDE")
  /\ UNCHANGED timeoutOpen

\* ticket.complete and ticket.confirm_complete of the manager.
Complete ==
  /\ status \in Running \cup {"PENDING_CONFIRM"}
  /\ Finalize("CLOSED", side, FALSE)
  /\ UNCHANGED timeoutOpen

\* ticket.reject_complete of the manager.
Reject ==
  /\ status = "PENDING_CONFIRM"
  /\ Finalize("ACTIVE", "ENGINEER_SIDE", side # "ENGINEER_SIDE")
  /\ UNCHANGED timeoutOpen

\* ticket.reopen forgets the side, so a new cycle begins whoever reopens.
Reopen(role) ==
  /\ status = "CLOSED"
  /\ Finalize("ACTIVE", Other(role), TRUE)
  /\ UNCHANGED timeoutOpen

\* ticket.cancel and ticket.stop: no side has to answer, the pause goes on.
GiveUp ==
  /\ status \in Running \cup {"PENDING_CONFIRM"}
  /\ status' = "CLOSED"
  /\ UNCHANGED <<clocks, side, since, deadline, paused, pausedAt, timeoutOpen,
                 keys, reminded, resumes, overlapped, uncredited>>

\* ticket.timeout.reason of the engineer switches and leaves the pause alone.
Reason ==
  /\ status \in Running
  /\ timeoutOpen
  /\ timeoutOpen' = FALSE
  /\ IF side = "MANAGER_SIDE"
     THEN UNCHANGED <<wait, overlapped>>
     ELSE BeginWait("MANAGER_SIDE", now) /\ overlapped' = (overlapped \/ paused)
  /\ UNCHANGED <<now, status, deadline, paused, pausedAt, keys, stopped, uncredited>>

\* ticket.special_case.submit: a pause in force ends, with its credits, and
\* another one begins.
SpecialCase ==
  /\ status \in Running
  /\ since' = Shifted(since)
  /\ deadline' = Credited(status)
  /\ paused' = TRUE
  /\ pausedAt' = now
  /\ resumes' = IF PauseLength > 0 THEN resumes + 1 ELSE resumes
  /\ UNCHANGED <<clocks, status, side, timeoutOpen, keys, reminded, overlapped, uncredited>>

-----------------------------------------------------------------------------
(* The scans.                                                              *)

\* NOT EXISTS (a special case without resumed_at), in both scans.
Exempt == paused

\* resp_l1:<ticket>:<waiting_since>, resp_l2:... (and resp_dm:...).
KeyOf(level) == <<level, since>>

Threshold(level) == IF level = 1 THEN FirstHours ELSE EscalateHours

\* scan_response_sla.
ResponseScan ==
  /\ status \in Running \cup {"PENDING_CONFIRM"}
  /\ ~ Exempt
  /\ LET due == {l \in Levels : now - since >= Threshold(l) /\ KeyOf(l) \notin keys}
     IN /\ due # {}
        /\ keys' = keys \cup {KeyOf(l) : l \in due}
        /\ reminded' = [l \in Levels |-> IF l \in due THEN reminded[l] + 1 ELSE reminded[l]]
  /\ UNCHANGED <<clocks, status, side, since, deadline, paused, pausedAt,
                 timeoutOpen, resumes, overlapped, uncredited>>

\* scan_sla_reminders, without an interruption between its two statements;
\* whether it sends a reminder, too, is not modelled here.
SlaScan ==
  /\ status = "ACTIVE"
  /\ ~ Exempt
  /\ deadline < now
  /\ status' = "ACTIVE_OVERDUE"
  /\ timeoutOpen' = TRUE
  /\ UNCHANGED <<clocks, side, since, deadline, paused, pausedAt, keys, reminded,
                 resumes, overlapped, uncredited>>

Command ==
  \/ \E role \in {"MANAGER", "ENGINEER"} : Contribute(role) \/ Reopen(role)
  \/ Report
  \/ Complete
  \/ Reject
  \/ GiveUp
  \/ Reason
  \/ SpecialCase

Next == Tick \/ Command \/ ResponseScan \/ SlaScan

Spec == Init /\ [][Next]_vars

-----------------------------------------------------------------------------
(* Properties.                                                             *)

\* The wait is measured as it was: waiting_since is as far back as the hours
\* the side has been waited for, pauses left out - whatever sequence of
\* pauses, renewals and messages led there.  Not so when a reason given
\* during a pause begins a cycle, see PausesDoNotCount.
WaitIsMeasured ==
  ~ overlapped =>
    waited = (IF paused THEN pausedAt ELSE now) - since

\* Each level reminds once in a waiting cycle and once more, at most, after
\* every pause that ended in it.
RemindersArePaced ==
  \A l \in Levels : reminded[l] <= 1 + resumes

\* Nobody is reminded, and nothing escalated, before the side has been waited
\* for as long as the rule says.
RemindersAreEarned ==
  ~ overlapped => \A l \in Levels : reminded[l] > 0 => waited >= Threshold(l)

\* A ticket is overdue only when its working time, pauses left out, is over;
\* the hours of a pause that ended with a report or a completion are lost.
OverdueIsEarned ==
  ~ uncredited /\ status = "ACTIVE_OVERDUE" => now - stopped > Sla

\* All three: nobody is reminded too often, too early, or held overdue for
\* hours in which the work was paused.
NobodyIsPressed == RemindersArePaced /\ RemindersAreEarned /\ OverdueIsEarned

\* The stronger forms of these properties, which the documents state.
RemindedOncePerCycle == \A l \in Levels : reminded[l] <= 1
PausesDoNotCount == waited = (IF paused /\ since <= pausedAt THEN pausedAt ELSE now) - since
EveryPauseIsCredited == status = "ACTIVE_OVERDUE" => now - stopped > Sla
=============================================================================
