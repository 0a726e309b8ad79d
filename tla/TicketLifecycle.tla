---------------------------- MODULE TicketLifecycle ----------------------------
(***************************************************************************)
(* One ticket: its row in `tickets`, its responsibility cycles, timeout    *)
(* cycles and special-case pauses, and everybody who writes them - the     *)
(* command executor (tickets/executor.py), the SLA scan                    *)
(* (workers/scheduler.py) and the administration server (admin/server.py), *)
(* a process of its own on the same database.                              *)
(*                                                                         *)
(* One action is one transaction of the executor: update_ticket_cas, what  *)
(* the handler does besides, and _finalize, which switches the waiting     *)
(* side and ends a pause for the intents it is told to.  Deadlines are     *)
(* abstracted to whether the ticket has one; clocks, texts, notifications  *)
(* and the version tables of diagnoses and repair plans are left out.      *)
(***************************************************************************)
EXTENDS Naturals

CONSTANTS
  MaxVersion,        \* bound of the model: business writes to the ticket
  MaxInterruptions   \* bound: SLA scans that die between two statements

Live == {"ACTIVE", "ACTIVE_OVERDUE", "PENDING_CONFIRM", "PENDING_NEGOTIATION"}
Terminal == {"COMPLETED", "CANCELLED", "STOPPED"}
Running == {"ACTIVE", "ACTIVE_OVERDUE"}
Statuses == {"absent"} \cup Live \cup Terminal

\* ALLOWED_STATUS of the administration server.
AdminStatuses ==
  {"ACTIVE", "PENDING_CONFIRM", "PENDING_NEGOTIATION"} \cup Terminal

Roles == {"MANAGER", "ENGINEER", "LEADER", "OTHER"}
Sides == {"NONE", "ENGINEER_SIDE", "MANAGER_SIDE"}

Contributions == {"add_detail", "diagnosis", "repair_plan"}
Intents == Contributions \cup
  {"timeout_reason", "complete", "confirm_complete", "reject_complete",
   "cancel", "stop", "reopen", "special_case", "negotiate"}

ASSUME LifecycleConstants ==
  /\ MaxVersion \in Nat
  /\ MaxInterruptions \in Nat

VARIABLES
  status,        \* tickets.status
  version,       \* tickets.version
  timed,         \* sla_days > 0 and current_deadline_at is set
  waitingSide,   \* tickets.waiting_side
  current,       \* tickets.current_responsibility_cycle_id, 0 for NULL
  open,          \* the PENDING rows of responsibility_cycles
  cycleCount,    \* rows ever inserted into responsibility_cycles
  timeoutOpen,   \* a WAITING_REASON row exists in timeout_cycles
  paused,        \* a special case without resumed_at exists
  inScan,        \* the SLA scan stands between its two statements
  interruptions, \* how often a scan died there
  explained,     \* history: a reason was taken since the ticket became overdue
  reporter,      \* history: role of the last report of completion
  unvalidated,   \* history: a command of a role the protocol excludes was taken
  meddled        \* history: the administration server has written the ticket

ledger == <<waitingSide, current, open, cycleCount>>
scan == <<inScan, interruptions>>
vars == <<status, version, timed, waitingSide, current, open, cycleCount,
          timeoutOpen, paused, inScan, interruptions, explained, reporter,
          unvalidated, meddled>>

TypeOK ==
  /\ status \in Statuses
  /\ version \in 0..MaxVersion
  /\ timed \in BOOLEAN
  /\ waitingSide \in Sides
  /\ cycleCount \in 0..MaxVersion
  /\ current \in 0..cycleCount
  /\ open \subseteq [id : 1..cycleCount, side : Sides \ {"NONE"}]
  /\ timeoutOpen \in BOOLEAN
  /\ paused \in BOOLEAN
  /\ inScan \in BOOLEAN
  /\ interruptions \in 0..MaxInterruptions
  /\ explained \in BOOLEAN
  /\ reporter \in Roles \cup {"none"}
  /\ unvalidated \in BOOLEAN
  /\ meddled \in BOOLEAN

Init ==
  /\ status = "absent"
  /\ version = 0
  /\ timed = FALSE
  /\ waitingSide = "NONE"
  /\ current = 0
  /\ open = {}
  /\ cycleCount = 0
  /\ timeoutOpen = FALSE
  /\ paused = FALSE
  /\ inScan = FALSE
  /\ interruptions = 0
  /\ explained = FALSE
  /\ reporter = "none"
  /\ unvalidated = FALSE
  /\ meddled = FALSE

-----------------------------------------------------------------------------
(* Who may do what, and in which state (the protocol file, the validator   *)
(* and the routing candidates).                                            *)

AllowedRoles(intent) ==
  CASE intent \in {"add_detail", "repair_plan"} -> {"MANAGER", "ENGINEER", "OTHER"}
    [] intent \in {"diagnosis", "timeout_reason"} -> {"ENGINEER"}
    [] intent \in {"complete", "special_case", "negotiate"} -> {"ENGINEER", "MANAGER"}
    [] intent \in {"confirm_complete", "reject_complete", "cancel"} -> {"MANAGER"}
    [] intent = "stop" -> {"LEADER"}
    [] intent = "reopen" -> {"ENGINEER", "MANAGER", "LEADER"}

\* _validate_role: a LEADER may also do what a manager or an engineer may.
RoleAllowed(role, roles) ==
  \/ role \in roles
  \/ role = "LEADER" /\ roles \cap {"MANAGER", "ENGINEER"} # {}

RoutableStates(intent) ==
  CASE intent \in Contributions \cup {"timeout_reason", "special_case", "negotiate"} -> Running
    [] intent = "complete" -> Running \cup {"PENDING_NEGOTIATION"}
    [] intent \in {"confirm_complete", "reject_complete"} -> {"PENDING_CONFIRM"}
    [] intent \in {"cancel", "stop"} -> Live
    [] intent = "reopen" -> Terminal

\* A command of this intent by this role gets to the executor: validated,
\* or as the answer to "which ticket?", where _assign_pending_target checks
\* state and version of the chosen ticket but not the role.  The scan holds
\* the event loop.
Arrives(intent, role) ==
  /\ ~ inScan
  /\ status \in RoutableStates(intent)
  /\ unvalidated' = (unvalidated \/ ~ RoleAllowed(role, AllowedRoles(intent)))

-----------------------------------------------------------------------------
(* Database helpers.                                                       *)

\* Mutant of CloseCycles: the old cycle stays PENDING.
CloseCycles_Keep(cycles) == cycles

\* close_responsibility_cycles / _close_pending_cycles: none stays PENDING.
CloseCycles(cycles) == {}

\* The side that has to answer after a message of this role.
NextSide(role) ==
  CASE role = "MANAGER" -> "ENGINEER_SIDE"
    [] role \in {"ENGINEER", "LEADER"} -> "MANAGER_SIDE"
    [] OTHER -> "NONE"

\* switch_responsibility on a row that reads (side, cycle, pending).
SwitchFrom(side, cycle, pending, role) ==
  IF NextSide(role) \in {"NONE", side}
  THEN /\ waitingSide' = side
       /\ current' = cycle
       /\ open' = pending
       /\ UNCHANGED cycleCount
  ELSE /\ waitingSide' = NextSide(role)
       /\ cycleCount' = cycleCount + 1
       /\ current' = cycleCount + 1
       /\ open' = CloseCycles(pending)
                    \cup {[id |-> cycleCount + 1, side |-> NextSide(role)]}

SwitchResponsibility(role) == SwitchFrom(waitingSide, current, open, role)

CloseResponsibility ==
  /\ open' = CloseCycles(open)
  /\ UNCHANGED <<waitingSide, current, cycleCount>>

\* Mutant of BumpVersion: a write that no confirmation notices.
BumpVersion_Not == UNCHANGED version

\* update_ticket_cas inside the transaction that read the version.
BumpVersion == version < MaxVersion /\ version' = version + 1

-----------------------------------------------------------------------------
(* The executor.                                                           *)

\* ticket.create; the label decides between ACTIVE and PENDING_NEGOTIATION.
Create(role) ==
  /\ ~ inScan
  /\ status = "absent"
  /\ RoleAllowed(role, {"MANAGER", "OTHER"})
  /\ BumpVersion
  /\ \/ status' = "ACTIVE" /\ timed' = TRUE
     \/ status' = "PENDING_NEGOTIATION" /\ timed' = FALSE
  /\ SwitchResponsibility(role)
  /\ UNCHANGED <<timeoutOpen, paused, scan, explained, reporter, unvalidated>>

\* ticket.add_detail, ticket.diagnosis.submit, ticket.repair_plan.submit.
Contribute(intent, role) ==
  /\ intent \in Contributions
  /\ Arrives(intent, role)
  /\ BumpVersion
  /\ SwitchResponsibility(role)
  /\ paused' = FALSE
  /\ UNCHANGED <<status, timed, timeoutOpen, scan, explained, reporter>>

\* ticket.timeout_reason.submit, rejected when no timeout cycle waits.
TimeoutReason(role) ==
  /\ Arrives("timeout_reason", role)
  /\ timeoutOpen
  /\ timeoutOpen' = FALSE
  /\ explained' = TRUE
  /\ BumpVersion
  /\ SwitchResponsibility(role)
  /\ UNCHANGED <<status, timed, paused, scan, reporter>>

CompleteByManager ==
  /\ Arrives("complete", "MANAGER")
  /\ BumpVersion
  /\ status' = "COMPLETED"
  /\ CloseResponsibility
  /\ paused' = FALSE
  /\ UNCHANGED <<timed, timeoutOpen, scan, explained, reporter>>

\* Mutant of Report: _finalize is not told to switch the waiting side.
Report_NoSwitch(role) ==
  /\ role # "MANAGER"
  /\ Arrives("complete", role)
  /\ BumpVersion
  /\ status' = "PENDING_CONFIRM"
  /\ reporter' = role
  /\ paused' = FALSE
  /\ UNCHANGED <<timed, timeoutOpen, scan, explained, ledger>>

\* ticket.complete of anybody else: the manager is asked to confirm.
Report(role) ==
  /\ role # "MANAGER"
  /\ Arrives("complete", role)
  /\ BumpVersion
  /\ status' = "PENDING_CONFIRM"
  /\ SwitchResponsibility(role)
  /\ reporter' = role
  /\ paused' = FALSE
  /\ UNCHANGED <<timed, timeoutOpen, scan, explained>>

ConfirmComplete(role) ==
  /\ Arrives("confirm_complete", role)
  /\ BumpVersion
  /\ status' = "COMPLETED"
  /\ CloseResponsibility
  /\ paused' = FALSE
  /\ UNCHANGED <<timed, timeoutOpen, scan, explained, reporter>>

RejectComplete(role) ==
  /\ Arrives("reject_complete", role)
  /\ BumpVersion
  /\ status' = "ACTIVE"
  /\ SwitchResponsibility(role)
  /\ paused' = FALSE
  /\ UNCHANGED <<timed, timeoutOpen, scan, explained, reporter>>

\* Mutant of GiveUp: the cycles of a closed ticket stay PENDING.
GiveUp_CyclesStay(intent, role) ==
  /\ intent \in {"cancel", "stop"}
  /\ Arrives(intent, role)
  /\ BumpVersion
  /\ status' = IF intent = "cancel" THEN "CANCELLED" ELSE "STOPPED"
  /\ UNCHANGED <<timed, timeoutOpen, paused, scan, explained, reporter, ledger>>

\* ticket.cancel and ticket.stop; neither ends a pause.
GiveUp(intent, role) ==
  /\ intent \in {"cancel", "stop"}
  /\ Arrives(intent, role)
  /\ BumpVersion
  /\ status' = IF intent = "cancel" THEN "CANCELLED" ELSE "STOPPED"
  /\ CloseResponsibility
  /\ UNCHANGED <<timed, timeoutOpen, paused, scan, explained, reporter>>

\* Mutant of Reopen: the old side is kept.
Reopen_SideStays(role) ==
  /\ Arrives("reopen", role)
  /\ BumpVersion
  /\ status' = "ACTIVE"
  /\ SwitchFrom(waitingSide, 0, CloseCycles(open), role)
  /\ paused' = FALSE
  /\ UNCHANGED <<timed, timeoutOpen, scan, explained, reporter>>

\* ticket.reopen forgets the old side before _finalize switches.
Reopen(role) ==
  /\ Arrives("reopen", role)
  /\ BumpVersion
  /\ status' = "ACTIVE"
  /\ SwitchFrom("NONE", 0, CloseCycles(open), role)
  /\ paused' = FALSE
  /\ UNCHANGED <<timed, timeoutOpen, scan, explained, reporter>>

\* ticket.special_case.submit replaces the pause in force.
SpecialCase(role) ==
  /\ Arrives("special_case", role)
  /\ BumpVersion
  /\ paused' = TRUE
  /\ UNCHANGED <<status, timed, ledger, timeoutOpen, scan, explained, reporter>>

Negotiate(role) ==
  /\ Arrives("negotiate", role)
  /\ BumpVersion
  /\ status' = "PENDING_NEGOTIATION"
  /\ timed' = FALSE
  /\ UNCHANGED <<ledger, timeoutOpen, paused, scan, explained, reporter>>

\* ticket.query and ticket.select write no row of the ticket.
ReadOnly ==
  /\ status # "absent"
  /\ UNCHANGED vars

Execute(role) ==
  \/ Create(role)
  \/ \E intent \in Contributions : Contribute(intent, role)
  \/ TimeoutReason(role)
  \/ Report(role)
  \/ ConfirmComplete(role)
  \/ RejectComplete(role)
  \/ \E intent \in {"cancel", "stop"} : GiveUp(intent, role)
  \/ Reopen(role)
  \/ SpecialCase(role)
  \/ Negotiate(role)

-----------------------------------------------------------------------------
(* The SLA scan: two statements, each committed on its own.                *)

\* mark_ticket_overdue: the deadline has passed and no pause exempts it (nor
\* a received order, which only keeps this action from being taken).
MarkOverdue ==
  /\ ~ inScan
  /\ status = "ACTIVE"
  /\ timed
  /\ ~ paused
  /\ status' = "ACTIVE_OVERDUE"
  /\ inScan' = TRUE
  /\ explained' = FALSE
  /\ UNCHANGED <<version, timed, ledger, timeoutOpen, paused, interruptions, reporter>>

\* Mutant of OpenTimeoutCycle: only while the engineer's side has to answer.
OpenTimeoutCycle_EngineersTurn ==
  /\ inScan
  /\ inScan' = FALSE
  /\ timeoutOpen' = (timeoutOpen \/ waitingSide = "ENGINEER_SIDE")
  /\ UNCHANGED <<status, version, timed, ledger, paused, interruptions, explained, reporter>>

\* open_timeout_cycle: returns the waiting cycle or inserts one.
OpenTimeoutCycle ==
  /\ inScan
  /\ inScan' = FALSE
  /\ timeoutOpen' = TRUE
  /\ UNCHANGED <<status, version, timed, ledger, paused, interruptions, explained, reporter>>

\* The process dies, or the second statement finds the database locked.
ScanInterrupted ==
  /\ inScan
  /\ interruptions < MaxInterruptions
  /\ inScan' = FALSE
  /\ interruptions' = interruptions + 1
  /\ UNCHANGED <<status, version, timed, ledger, timeoutOpen, paused, explained, reporter>>

-----------------------------------------------------------------------------
(* The administration server: api_ticket_set_status and quick-create.      *)

AdminCreate ==
  /\ status = "absent"
  /\ BumpVersion
  /\ \/ status' = "ACTIVE" /\ timed' = TRUE
     \/ status' = "PENDING_NEGOTIATION" /\ timed' = FALSE
  /\ UNCHANGED <<ledger, timeoutOpen, paused, scan, explained, reporter>>

AdminSetStatus(new) ==
  /\ status \notin {"absent", new}
  /\ BumpVersion
  /\ status' = new
  /\ IF new = "ACTIVE" /\ status \in Terminal
     THEN /\ waitingSide' = "NONE"
          /\ current' = 0
          /\ open' = CloseCycles(open)
          /\ UNCHANGED cycleCount
     ELSE IF new \in Terminal THEN CloseResponsibility
     ELSE UNCHANGED ledger
  /\ UNCHANGED <<timed, timeoutOpen, paused, scan, explained, reporter>>

Commands == CompleteByManager \/ \E role \in Roles : Execute(role)

Scan == MarkOverdue \/ OpenTimeoutCycle \/ ScanInterrupted

Admin == AdminCreate \/ \E new \in AdminStatuses : AdminSetStatus(new)

Next ==
  \/ Commands /\ UNCHANGED meddled
  \/ Scan /\ UNCHANGED <<unvalidated, meddled>>
  \/ Admin /\ meddled' = TRUE /\ UNCHANGED unvalidated
  \/ ReadOnly

Spec == Init /\ [][Next]_vars

-----------------------------------------------------------------------------
(* Safety.                                                                 *)

\* The ledger never contradicts the row: a PENDING responsibility cycle is
\* the one the ticket points to, is on the side the ticket waits for, and
\* exists only while the ticket is live (so there is at most one).
LedgerAgrees ==
  \A c \in open : /\ c.id = current
                  /\ c.side = waitingSide
                  /\ status \in Live

\* A live ticket that waits for a side has a PENDING cycle behind it, so
\* that the wait has a start and a due time, whatever sequence of reports,
\* rejections, closures and reopenings led there.
WaitIsBacked ==
  ~ meddled /\ status \in Live /\ waitingSide # "NONE" => open # {}

ManagerIsAsked == \E c \in open : c.side = "MANAGER_SIDE"

\* A ticket reported complete by an engineer or a leader waits for the
\* manager (docs: the responsibility goes to the manager's side), whatever
\* else came in as the answer to "which ticket?".
StaffReportWaitsForManager ==
  ~ meddled /\ status = "PENDING_CONFIRM" /\ reporter # "OTHER" => ManagerIsAsked

\* The clock runs during the review: a pause left in force would exempt the
\* ticket from every reminder to confirm, and a completed ticket would go on
\* pausing.
ReviewIsNotPaused ==
  ~ meddled /\ status \in {"PENDING_CONFIRM", "COMPLETED"} => ~ paused

\* Both: a review asks the manager, and its reminders are not suspended.
ReviewIsForManager == StaffReportWaitsForManager /\ ReviewIsNotPaused

\* An overdue ticket can be accounted for: a timeout cycle waits for the
\* engineer's reason, or the reason has come since the ticket went overdue
\* (otherwise #timeout-reason is rejected for ever).
Accountable ==
  status = "ACTIVE_OVERDUE" /\ ~ inScan => timeoutOpen \/ explained

\* That is so, the administration server included, as long as no scan dies
\* between its two statements.
OverdueAccountable == interruptions = 0 => Accountable

\* Confirmations compare versions, so every write they must notice - of the
\* status, of the side, of the cycles or of the pause - moves the version;
\* only the overdue mark is exempt.
WritesMoveVersion ==
  [][ \/ version' = version + 1
      \/ status = "ACTIVE" /\ status' = "ACTIVE_OVERDUE" /\ UNCHANGED <<ledger, paused>>
      \/ UNCHANGED <<status, ledger, paused>> ]_vars

\* Rejecting a completion gives the ticket back to the engineer (executor.py
\* and the lifecycle document).
RejectReturnsToEngineer ==
  [][ ~ meddled' /\ ~ unvalidated' /\ status = "PENDING_CONFIRM" /\ status' = "ACTIVE"
        => waitingSide' = "ENGINEER_SIDE" ]_vars

-----------------------------------------------------------------------------
(* Refinement.                                                             *)

Phase ==
  IF status = "absent" THEN "none"
  ELSE IF status \in Terminal THEN "closed"
  ELSE IF status = "PENDING_CONFIRM" THEN "review"
  ELSE "open"

Holder ==
  IF open = {} THEN "nobody"
  ELSE IF \E c \in open : c.side = "MANAGER_SIDE" THEN "manager"
  ELSE "engineer"

Handshake == INSTANCE RepairHandshake WITH phase <- Phase, ball <- Holder

\* Read through its PENDING cycles, the ticket is a handshake, as long as
\* every command is validated and nobody uses the administration server.
InOrder == ~ meddled /\ ~ unvalidated

ImplementsHandshake ==
  /\ Handshake!Init
  /\ [][ InOrder' => Handshake!Next \/ UNCHANGED <<Phase, Holder>> ]_vars
=============================================================================
