------------------------- MODULE TicketLifecycleProofs -------------------------
(***************************************************************************)
(* Proofs about TicketLifecycle, for every bound on the number of business *)
(* writes and of interrupted scans.                                        *)
(***************************************************************************)
EXTENDS TicketLifecycle, TLAPS

Agree(side, cycle, pending) ==
  \A c \in pending : c.id = cycle /\ c.side = side

Cycles(n) == [id : 1..n, side : Sides \ {"NONE"}]

\* The strengthening of TypeOK and LedgerAgrees.  A cycle is inserted only
\* together with a business write, which bounds their number.
Inv ==
  /\ TypeOK
  /\ cycleCount <= version
  /\ LedgerAgrees

-----------------------------------------------------------------------------
(* switch_responsibility.                                                  *)

\* Switching keeps the ledger well-typed.
LEMMA SwitchTyped ==
  ASSUME NEW side \in Sides, NEW pending, NEW cycle, NEW role \in Roles,
         cycleCount \in Nat,
         cycle \in 0..cycleCount,
         pending \subseteq Cycles(cycleCount),
         SwitchFrom(side, cycle, pending, role)
  PROVE  /\ waitingSide' \in Sides
         /\ cycleCount' \in {cycleCount, cycleCount + 1}
         /\ current' \in 0..cycleCount'
         /\ open' \subseteq Cycles(cycleCount')
<1>1. CASE NextSide(role) \in {"NONE", side}
  BY <1>1 DEF SwitchFrom
<1>2. CASE NextSide(role) \notin {"NONE", side}
  <2>1. NextSide(role) \in Sides \ {"NONE"}
    BY <1>2 DEF NextSide, Roles, Sides
  <2> QED
    BY <1>2, <2>1 DEF SwitchFrom, CloseCycles, Cycles, Sides
<1> QED
  BY <1>1, <1>2

\* Switching keeps the pending cycle and the row in agreement.
LEMMA SwitchAgrees ==
  ASSUME NEW side, NEW pending, NEW cycle, NEW role \in Roles,
         Agree(side, cycle, pending),
         SwitchFrom(side, cycle, pending, role)
  PROVE  Agree(waitingSide', current', open')
BY DEF SwitchFrom, CloseCycles, Agree

\* Switching leaves no wait without a cycle.
LEMMA SwitchBacks ==
  ASSUME NEW side, NEW pending, NEW cycle, NEW role \in Roles,
         side # "NONE" => pending # {},
         SwitchFrom(side, cycle, pending, role)
  PROVE  waitingSide' # "NONE" => open' # {}
BY DEF SwitchFrom, CloseCycles

\* After a switch for a role that has a counterpart, the counterpart waits.
LEMMA SwitchGives ==
  ASSUME NEW side, NEW pending, NEW cycle, NEW role \in Roles,
         side # "NONE" => pending # {},
         Agree(side, cycle, pending),
         NextSide(role) # "NONE",
         SwitchFrom(side, cycle, pending, role)
  PROVE  \E c \in open' : c.side = NextSide(role)
<1>1. CASE NextSide(role) = side
  <2>1. open' = pending /\ pending # {}
    BY <1>1 DEF SwitchFrom
  <2> QED
    BY <1>1, <2>1 DEF Agree
<1>2. CASE NextSide(role) # side
  <2> DEFINE c == [id |-> cycleCount + 1, side |-> NextSide(role)]
  <2>1. c \in open' /\ c.side = NextSide(role)
    BY <1>2 DEF SwitchFrom
  <2> QED
    BY <2>1
<1> QED
  BY <1>1, <1>2

-----------------------------------------------------------------------------
(* Type correctness and the agreement of row and ledger.                   *)

LEMMA InitInv == Init => Inv
<1> SUFFICES ASSUME Init PROVE Inv
  OBVIOUS
<1>1. MaxVersion \in Nat /\ MaxInterruptions \in Nat
  BY LifecycleConstants
<1>2. TypeOK
  <2>1. /\ timed \in BOOLEAN /\ timeoutOpen \in BOOLEAN /\ paused \in BOOLEAN
        /\ inScan \in BOOLEAN /\ explained \in BOOLEAN
        /\ unvalidated \in BOOLEAN /\ meddled \in BOOLEAN
    BY DEF Init
  <2>2. /\ status \in Statuses
        /\ waitingSide \in Sides
        /\ reporter \in Roles \cup {"none"}
        /\ open \subseteq [id : 1..cycleCount, side : Sides \ {"NONE"}]
    BY DEF Init, Statuses, Sides
  <2>3. /\ version \in 0..MaxVersion
        /\ cycleCount \in 0..MaxVersion
        /\ current \in 0..cycleCount
        /\ interruptions \in 0..MaxInterruptions
    BY <1>1 DEF Init
  <2> QED
    BY <2>1, <2>2, <2>3 DEF TypeOK
<1> QED
  BY <1>2 DEF Init, Inv, LedgerAgrees

\* What a step has to establish when it switches the responsibility.
LEMMA SwitchKeepsInv ==
  ASSUME Inv, NEW role \in Roles, BumpVersion,
         NEW side \in Sides, NEW pending, NEW cycle \in 0..cycleCount,
         pending \subseteq Cycles(cycleCount),
         Agree(side, cycle, pending),
         SwitchFrom(side, cycle, pending, role),
         status' \in Live,
         timed' \in BOOLEAN, timeoutOpen' \in BOOLEAN, paused' \in BOOLEAN,
         explained' \in BOOLEAN, reporter' \in Roles \cup {"none"},
         unvalidated' \in BOOLEAN, meddled' \in BOOLEAN,
         UNCHANGED scan
  PROVE  Inv'
<1>1. /\ version \in Nat /\ cycleCount \in Nat
      /\ cycleCount <= version
      /\ version < MaxVersion /\ version' = version + 1 /\ MaxVersion \in Nat
  BY LifecycleConstants DEF Inv, TypeOK, BumpVersion
<1>2. /\ waitingSide' \in Sides
      /\ cycleCount' \in {cycleCount, cycleCount + 1}
      /\ current' \in 0..cycleCount'
      /\ open' \subseteq Cycles(cycleCount')
  BY <1>1, SwitchTyped
<1>3. Agree(waitingSide', current', open')
  BY SwitchAgrees
<1>4. cycleCount' \in 0..MaxVersion /\ cycleCount' <= version' /\ version' \in 0..MaxVersion
  BY <1>1, <1>2
<1>5. TypeOK'
  BY <1>2, <1>4 DEF Inv, TypeOK, Cycles, Statuses, scan
<1>6. LedgerAgrees'
  BY <1>3 DEF LedgerAgrees, Agree
<1> QED
  BY <1>4, <1>5, <1>6 DEF Inv

\* The same for a step that leaves the cycles alone or closes them.
LEMMA CloseKeepsInv ==
  ASSUME Inv, BumpVersion,
         UNCHANGED ledger \/ CloseResponsibility,
         status' \in Statuses,
         status' \in Live \/ open' = {},
         timed' \in BOOLEAN, timeoutOpen' \in BOOLEAN, paused' \in BOOLEAN,
         explained' \in BOOLEAN, reporter' \in Roles \cup {"none"},
         unvalidated' \in BOOLEAN, meddled' \in BOOLEAN,
         UNCHANGED scan
  PROVE  Inv'
<1>1. /\ version \in Nat /\ cycleCount \in Nat
      /\ cycleCount <= version
      /\ version < MaxVersion /\ version' = version + 1 /\ MaxVersion \in Nat
  BY LifecycleConstants DEF Inv, TypeOK, BumpVersion
<1>2. UNCHANGED <<waitingSide, current, cycleCount>> /\ open' \in {open, {}}
  BY DEF ledger, CloseResponsibility, CloseCycles
<1>3. TypeOK'
  BY <1>1, <1>2 DEF Inv, TypeOK, scan
<1>4. LedgerAgrees'
  BY <1>2 DEF Inv, LedgerAgrees
<1> QED
  BY <1>1, <1>2, <1>3, <1>4 DEF Inv

\* What Inv says of the row a handler switches from.
LEMMA RowAgrees ==
  ASSUME Inv
  PROVE  /\ waitingSide \in Sides
         /\ current \in 0..cycleCount
         /\ open \subseteq Cycles(cycleCount)
         /\ Agree(waitingSide, current, open)
         /\ CloseCycles(open) = {}
         /\ version \in Nat /\ cycleCount \in Nat
         /\ 0 \in 0..cycleCount
BY DEF Inv, TypeOK, LedgerAgrees, Agree, Cycles, CloseCycles

\* Whoever sends a command, it is either validated or remembered as not.
LEMMA ExecuteMarks ==
  ASSUME Inv, NEW role \in Roles, Execute(role)
  PROVE  unvalidated' \in BOOLEAN
<1>1. unvalidated \in BOOLEAN
  BY DEF Inv, TypeOK
<1>2. ASSUME NEW intent, Arrives(intent, role)
      PROVE  unvalidated' \in BOOLEAN
  BY <1>1, <1>2 DEF Arrives
<1> QED
  BY <1>1, <1>2
  DEF Execute, Create, Contribute, TimeoutReason, Report, ConfirmComplete,
      RejectComplete, GiveUp, Reopen, SpecialCase, Negotiate

LEMMA ExecuteInv ==
  ASSUME Inv, NEW role \in Roles, Execute(role), UNCHANGED meddled
  PROVE  Inv'
<1>0. /\ timed \in BOOLEAN /\ timeoutOpen \in BOOLEAN /\ paused \in BOOLEAN
      /\ explained \in BOOLEAN /\ reporter \in Roles \cup {"none"}
      /\ status \in Statuses
      /\ unvalidated' \in BOOLEAN /\ meddled' \in BOOLEAN
  BY ExecuteMarks DEF Inv, TypeOK
<1>a. {"ACTIVE", "PENDING_NEGOTIATION", "PENDING_CONFIRM"} \cup Running \subseteq Live
  BY DEF Live, Running
<1>1. CASE Create(role)
  BY <1>0, <1>1, <1>a, RowAgrees, SwitchKeepsInv DEF Create, SwitchResponsibility
<1>2. ASSUME NEW intent \in Contributions, Contribute(intent, role)
      PROVE  Inv'
  <2>1. status' \in Live
    BY <1>2 DEF Contribute, Arrives, RoutableStates, Contributions, Running, Live
  <2> QED
    BY <1>0, <1>2, <2>1, RowAgrees, SwitchKeepsInv DEF Contribute, SwitchResponsibility
<1>3. CASE TimeoutReason(role)
  <2>1. status' \in Live
    BY <1>3 DEF TimeoutReason, Arrives, RoutableStates, Contributions, Running, Live
  <2> QED
    BY <1>0, <1>3, <2>1, RowAgrees, SwitchKeepsInv DEF TimeoutReason, SwitchResponsibility
<1>4. CASE Report(role)
  BY <1>0, <1>4, <1>a, RowAgrees, SwitchKeepsInv DEF Report, SwitchResponsibility
<1>5. CASE ConfirmComplete(role)
  BY <1>0, <1>5, CloseKeepsInv
  DEF ConfirmComplete, CloseResponsibility, CloseCycles, Statuses, Terminal
<1>6. CASE RejectComplete(role)
  BY <1>0, <1>6, <1>a, RowAgrees, SwitchKeepsInv DEF RejectComplete, SwitchResponsibility
<1>7. ASSUME NEW intent \in {"cancel", "stop"}, GiveUp(intent, role)
      PROVE  Inv'
  BY <1>0, <1>7, CloseKeepsInv
  DEF GiveUp, CloseResponsibility, CloseCycles, Statuses, Terminal
<1>8. CASE Reopen(role)
  <2>1. SwitchFrom("NONE", 0, {}, role)
    BY <1>8, RowAgrees DEF Reopen
  <2>2. Agree("NONE", 0, {}) /\ "NONE" \in Sides /\ {} \subseteq Cycles(cycleCount)
    BY DEF Agree, Sides
  <2> QED
    BY <1>0, <1>8, <1>a, <2>1, <2>2, RowAgrees, SwitchKeepsInv DEF Reopen
<1>9. CASE SpecialCase(role)
  <2>1. status' \in Live
    BY <1>9 DEF SpecialCase, Arrives, RoutableStates, Contributions, Running, Live
  <2> QED
    BY <1>0, <1>9, <2>1, CloseKeepsInv DEF SpecialCase, Statuses
<1>10. CASE Negotiate(role)
  BY <1>0, <1>10, <1>a, CloseKeepsInv DEF Negotiate, Statuses
<1> QED
  BY <1>1, <1>2, <1>3, <1>4, <1>5, <1>6, <1>7, <1>8, <1>9, <1>10 DEF Execute

LEMMA ScanInv ==
  ASSUME Inv, Scan, UNCHANGED <<unvalidated, meddled>>
  PROVE  Inv'
<1>1. status' \in Statuses /\ (status \in Live => status' \in Live)
  BY DEF Inv, TypeOK, Scan, MarkOverdue, OpenTimeoutCycle, ScanInterrupted, Live, Statuses
<1>2. inScan' \in BOOLEAN
  BY DEF Scan, MarkOverdue, OpenTimeoutCycle, ScanInterrupted
<1>2a. interruptions' \in 0..MaxInterruptions
  <2>1. interruptions \in 0..MaxInterruptions /\ MaxInterruptions \in Nat
    BY LifecycleConstants DEF Inv, TypeOK
  <2>2. \/ interruptions' = interruptions
        \/ interruptions < MaxInterruptions /\ interruptions' = interruptions + 1
    BY DEF Scan, MarkOverdue, OpenTimeoutCycle, ScanInterrupted
  <2> QED
    BY <2>1, <2>2
<1>3. UNCHANGED <<version, timed, waitingSide, current, open, cycleCount, paused, reporter>>
  BY DEF Scan, MarkOverdue, OpenTimeoutCycle, ScanInterrupted, ledger
<1>4. timeoutOpen' \in BOOLEAN /\ explained' \in BOOLEAN
  BY DEF Inv, TypeOK, Scan, MarkOverdue, OpenTimeoutCycle, ScanInterrupted
<1>5. TypeOK'
  BY <1>1, <1>2, <1>2a, <1>3, <1>4 DEF Inv, TypeOK
<1>6. LedgerAgrees'
  BY <1>1, <1>3 DEF Inv, LedgerAgrees
<1> QED
  BY <1>3, <1>5, <1>6 DEF Inv

LEMMA AdminInv ==
  ASSUME Inv, Admin, meddled' = TRUE, UNCHANGED unvalidated
  PROVE  Inv'
<1>0. /\ timed \in BOOLEAN /\ timeoutOpen \in BOOLEAN /\ paused \in BOOLEAN
      /\ explained \in BOOLEAN /\ reporter \in Roles \cup {"none"}
      /\ status \in Statuses
      /\ unvalidated' \in BOOLEAN /\ meddled' \in BOOLEAN
  BY DEF Inv, TypeOK
<1>1. CASE AdminCreate
  BY <1>0, <1>1, CloseKeepsInv DEF AdminCreate, Live, Statuses
<1>2. ASSUME NEW new \in AdminStatuses, AdminSetStatus(new)
      PROVE  Inv'
  <2>0. new \in AdminStatuses /\ status' = new /\ new \in Statuses /\ BumpVersion
    BY <1>2 DEF AdminSetStatus, AdminStatuses, Statuses, Live, Terminal
  <2>1. CASE new = "ACTIVE" /\ status \in Terminal
    <3>1. waitingSide' = "NONE" /\ current' = 0 /\ open' = {} /\ UNCHANGED cycleCount
      BY <1>2, <2>1 DEF AdminSetStatus, CloseCycles
    <3>2. version' \in 0..MaxVersion /\ version' = version + 1 /\ version \in Nat
      BY <2>0, LifecycleConstants DEF BumpVersion, Inv, TypeOK
    <3>3. TypeOK'
      BY <1>0, <1>2, <2>0, <3>1, <3>2 DEF AdminSetStatus, Inv, TypeOK, scan, Sides
    <3> QED
      BY <3>1, <3>2, <3>3 DEF Inv, TypeOK, LedgerAgrees
  <2>2. CASE ~ (new = "ACTIVE" /\ status \in Terminal) /\ new \in Terminal
    BY <1>0, <1>2, <2>0, <2>2, CloseKeepsInv
    DEF AdminSetStatus, CloseResponsibility, CloseCycles
  <2>3. CASE ~ (new = "ACTIVE" /\ status \in Terminal) /\ new \notin Terminal
    <3>1. new \in Live
      BY <2>0, <2>3 DEF AdminStatuses, Live
    <3> QED
      BY <1>0, <1>2, <2>0, <2>3, <3>1, CloseKeepsInv DEF AdminSetStatus
  <2> QED
    BY <2>1, <2>2, <2>3
<1> QED
  BY <1>1, <1>2 DEF Admin

LEMMA NextInv == Inv /\ [Next]_vars => Inv'
<1> SUFFICES ASSUME Inv, [Next]_vars PROVE Inv'
  OBVIOUS
<1>1. CASE Commands /\ UNCHANGED meddled
  <2>1. ASSUME NEW role \in Roles, Execute(role) PROVE Inv'
    BY <1>1, <2>1, ExecuteInv
  <2>2. CASE CompleteByManager
    <3>1. unvalidated' \in BOOLEAN /\ meddled' \in BOOLEAN
      BY <1>1, <2>2 DEF CompleteByManager, Arrives, Inv, TypeOK
    <3> QED
      BY <2>2, <3>1, CloseKeepsInv
      DEF CompleteByManager, CloseResponsibility, CloseCycles, Statuses, Terminal, Inv, TypeOK
  <2> QED
    BY <1>1, <2>1, <2>2 DEF Commands
<1>2. CASE Scan /\ UNCHANGED <<unvalidated, meddled>>
  BY <1>2, ScanInv
<1>3. CASE Admin /\ meddled' = TRUE /\ UNCHANGED unvalidated
  BY <1>3, AdminInv
<1>4. CASE ReadOnly \/ UNCHANGED vars
  BY <1>4 DEF ReadOnly, vars, Inv, TypeOK, LedgerAgrees
<1> QED
  BY <1>1, <1>2, <1>3, <1>4 DEF Next

\* Inv is an invariant, whoever writes the ticket.
THEOREM InvariantHolds == Spec => []Inv
BY InitInv, NextInv, PTL DEF Spec

\* The types of the row, the cycles and the history.
THEOREM TypeCorrect == Spec => []TypeOK
<1>1. Inv => TypeOK
  BY DEF Inv
<1> QED
  BY <1>1, InvariantHolds, PTL

\* A pending responsibility cycle never contradicts the ticket's row, the
\* administration server's interventions included.
THEOREM LedgerAgreesWithRow == Spec => []LedgerAgrees
<1>1. Inv => LedgerAgrees
  BY DEF Inv
<1> QED
  BY <1>1, InvariantHolds, PTL

-----------------------------------------------------------------------------
(* Every write that a confirmation must notice moves the version.          *)

\* A business write of any process moves the ticket's version, so that a
\* confirmation that compares versions notices it.
THEOREM WritesAreVisible == Spec => WritesMoveVersion
<1> DEFINE W == \/ version' = version + 1
                \/ status = "ACTIVE" /\ status' = "ACTIVE_OVERDUE" /\ UNCHANGED <<ledger, paused>>
                \/ UNCHANGED <<status, ledger, paused>>
<1>1. [Next]_vars => [W]_vars
  <2> SUFFICES ASSUME Next PROVE W
    OBVIOUS
  <2>1. ASSUME NEW role \in Roles, Execute(role) PROVE W
    BY <2>1
    DEF Execute, Create, Contribute, TimeoutReason, Report, ConfirmComplete,
        RejectComplete, GiveUp, Reopen, SpecialCase, Negotiate, BumpVersion
  <2>2. CASE CompleteByManager
    BY <2>2 DEF CompleteByManager, BumpVersion
  <2>3. CASE ReadOnly
    BY <2>3 DEF ReadOnly, vars, ledger
  <2>4. CASE Scan
    BY <2>4 DEF Scan, MarkOverdue, OpenTimeoutCycle, ScanInterrupted
  <2>5. CASE Admin
    BY <2>5 DEF Admin, AdminCreate, AdminSetStatus, BumpVersion
  <2> QED
    BY <2>1, <2>2, <2>3, <2>4, <2>5 DEF Next, Commands
<1> QED
  BY <1>1, PTL DEF Spec, WritesMoveVersion

-----------------------------------------------------------------------------
(* The bot alone: nobody uses the administration server.                   *)

\* Who waits and who reported, on the row of a ticket only the bot writes.
\* Before the ticket exists nobody waits; a ticket under review was put there
\* by a report.
BotInv ==
  /\ WaitIsBacked
  /\ StaffReportWaitsForManager
  /\ ReviewIsNotPaused
  /\ ~ meddled /\ status = "absent" => waitingSide = "NONE" /\ open = {}
  /\ ~ meddled /\ status = "PENDING_CONFIRM" => reporter # "none"

\* Once the administration server has written the ticket, nothing is claimed.
LEMMA MeddledBotInv ==
  ASSUME meddled'
  PROVE  BotInv'
BY DEF BotInv, WaitIsBacked, StaffReportWaitsForManager, ReviewIsNotPaused

LEMMA BotInitInv == Init => BotInv
BY DEF Init, BotInv, WaitIsBacked, StaffReportWaitsForManager, ReviewIsNotPaused, Live

\* A step to a running ticket needs no more than a backed wait.
LEMMA RunningBotInv ==
  ASSUME status' \in Running \cup {"PENDING_NEGOTIATION"},
         waitingSide' # "NONE" => open' # {}
  PROVE  BotInv'
BY DEF Running, BotInv, WaitIsBacked, StaffReportWaitsForManager, ReviewIsNotPaused

LEMMA ExecuteBotInv ==
  ASSUME Inv, BotInv, ~ meddled, NEW role \in Roles, Execute(role)
  PROVE  BotInv'
<1>a. status \in Live /\ waitingSide # "NONE" => open # {}
  BY DEF BotInv, WaitIsBacked
<1>b. Running \subseteq Live /\ "PENDING_CONFIRM" \in Live /\ "PENDING_NEGOTIATION" \in Live
  BY DEF Running, Live
<1>1. CASE Create(role)
  <2>1. waitingSide # "NONE" => open # {}
    BY <1>1 DEF Create, BotInv
  <2> QED
    BY <1>1, <2>1, SwitchBacks, RunningBotInv DEF Create, SwitchResponsibility, Running
<1>2. ASSUME NEW intent \in Contributions, Contribute(intent, role)
      PROVE  BotInv'
  <2>1. status \in Running /\ status' = status
    BY <1>2 DEF Contribute, Arrives, RoutableStates, Contributions
  <2> QED
    BY <1>2, <1>a, <1>b, <2>1, SwitchBacks, RunningBotInv DEF Contribute, SwitchResponsibility
<1>3. CASE TimeoutReason(role)
  <2>1. status \in Running /\ status' = status
    BY <1>3 DEF TimeoutReason, Arrives, RoutableStates, Contributions
  <2> QED
    BY <1>3, <1>a, <1>b, <2>1, SwitchBacks, RunningBotInv DEF TimeoutReason, SwitchResponsibility
<1>4. CASE Report(role)
  <2>1. waitingSide # "NONE" => open # {}
    BY <1>4, <1>a, <1>b DEF Report, Arrives, RoutableStates, Contributions
  <2>2. Agree(waitingSide, current, open)
    BY RowAgrees
  <2>3. /\ status' = "PENDING_CONFIRM" /\ reporter' = role /\ ~ paused'
        /\ SwitchFrom(waitingSide, current, open, role)
    BY <1>4 DEF Report, SwitchResponsibility
  <2>4. waitingSide' # "NONE" => open' # {}
    BY <2>1, <2>3, SwitchBacks
  <2>5. role # "OTHER" => \E c \in open' : c.side = "MANAGER_SIDE"
    <3> SUFFICES ASSUME role # "OTHER" PROVE \E c \in open' : c.side = "MANAGER_SIDE"
      OBVIOUS
    <3>1. NextSide(role) = "MANAGER_SIDE"
      BY <1>4 DEF Report, NextSide, Roles
    <3> QED
      BY <2>1, <2>2, <2>3, <3>1, SwitchGives
  <2> QED
    BY <2>3, <2>4, <2>5 DEF BotInv, WaitIsBacked, StaffReportWaitsForManager, ReviewIsNotPaused,
       ManagerIsAsked, Roles
<1>5. CASE ConfirmComplete(role)
  BY <1>5 DEF ConfirmComplete, BotInv, WaitIsBacked, StaffReportWaitsForManager, ReviewIsNotPaused, Live
<1>6. CASE RejectComplete(role)
  <2>1. status = "PENDING_CONFIRM"
    BY <1>6 DEF RejectComplete, Arrives, RoutableStates, Contributions
  <2> QED
    BY <1>6, <1>a, <1>b, <2>1, SwitchBacks, RunningBotInv DEF RejectComplete, SwitchResponsibility, Running
<1>7. ASSUME NEW intent \in {"cancel", "stop"}, GiveUp(intent, role)
      PROVE  BotInv'
  BY <1>7 DEF GiveUp, BotInv, WaitIsBacked, StaffReportWaitsForManager, ReviewIsNotPaused, Live
<1>8. CASE Reopen(role)
  <2>1. SwitchFrom("NONE", 0, {}, role) /\ status' = "ACTIVE"
    BY <1>8, RowAgrees DEF Reopen
  <2>2. waitingSide' # "NONE" => open' # {}
    BY <2>1, SwitchBacks
  <2> QED
    BY <2>1, <2>2, RunningBotInv DEF Running
<1>9. CASE SpecialCase(role)
  <2>1. status \in Running /\ status' = status /\ UNCHANGED <<waitingSide, open>>
    BY <1>9 DEF SpecialCase, Arrives, RoutableStates, Contributions, ledger
  <2> QED
    BY <1>a, <1>b, <2>1, RunningBotInv
<1>10. CASE Negotiate(role)
  <2>1. status \in Running /\ status' = "PENDING_NEGOTIATION" /\ UNCHANGED <<waitingSide, open>>
    BY <1>10 DEF Negotiate, Arrives, RoutableStates, Contributions, ledger
  <2> QED
    BY <1>a, <1>b, <2>1, RunningBotInv
<1> QED
  BY <1>1, <1>2, <1>3, <1>4, <1>5, <1>6, <1>7, <1>8, <1>9, <1>10 DEF Execute

LEMMA NextBotInv == Inv /\ BotInv /\ [Next]_vars => BotInv'
<1> SUFFICES ASSUME Inv, BotInv, [Next]_vars, ~ meddled' PROVE BotInv'
  BY MeddledBotInv
<1>0. ~ meddled
  BY DEF Next, ReadOnly, vars
<1> USE DEF BotInv, WaitIsBacked, StaffReportWaitsForManager, ReviewIsNotPaused
<1>1. ASSUME NEW role \in Roles, Execute(role) PROVE BotInv'
  BY <1>0, <1>1, ExecuteBotInv
<1>2. CASE CompleteByManager
  BY <1>2 DEF CompleteByManager, Live
<1>3. CASE ReadOnly \/ UNCHANGED vars
  BY <1>0, <1>3 DEF ReadOnly, vars, ManagerIsAsked
<1>4. CASE MarkOverdue
  BY <1>0, <1>4 DEF MarkOverdue, ledger, Live
<1>5. CASE OpenTimeoutCycle \/ ScanInterrupted
  BY <1>0, <1>5 DEF OpenTimeoutCycle, ScanInterrupted, ledger, ManagerIsAsked
<1> QED
  BY <1>1, <1>2, <1>3, <1>4, <1>5 DEF Next, Commands, Scan

\* Until the administration server writes the ticket: a wait has a pending
\* cycle, an engineer's or leader's report waits for the manager, and a ticket
\* under review or completed is not paused.
THEOREM BotKeepsTheHandshake ==
  Spec => [](WaitIsBacked /\ StaffReportWaitsForManager /\ ReviewIsNotPaused)
<1>1. BotInv => WaitIsBacked /\ StaffReportWaitsForManager /\ ReviewIsNotPaused
  BY DEF BotInv
<1> QED
  BY <1>1, NextBotInv, BotInitInv, InvariantHolds, PTL DEF Spec

\* The review in one formula: it asks the manager and it is not paused, until
\* the administration server writes the ticket.
THEOREM ReviewAsksManager == Spec => []ReviewIsForManager
<1>1. StaffReportWaitsForManager /\ ReviewIsNotPaused => ReviewIsForManager
  BY DEF ReviewIsForManager
<1> QED
  BY <1>1, BotKeepsTheHandshake, PTL

-----------------------------------------------------------------------------
(* Overdue tickets, as long as no scan is interrupted.                     *)

\* As long as no SLA scan has stopped between its two statements, an overdue
\* ticket waits for a reason or has been given one - the administration
\* server included.
THEOREM OverdueIsAccountable == Spec => []OverdueAccountable
<1>1. Init => OverdueAccountable
  BY DEF Init, OverdueAccountable, Accountable
<1>2. Inv /\ OverdueAccountable /\ [Next]_vars => OverdueAccountable'
  <2> SUFFICES ASSUME Inv, OverdueAccountable, [Next]_vars, interruptions' = 0,
                      status' = "ACTIVE_OVERDUE", ~ inScan'
               PROVE  timeoutOpen' \/ explained'
    BY DEF OverdueAccountable, Accountable
  <2>0. interruptions = 0 /\ ~ ScanInterrupted
    <3>1. interruptions \in Nat
      BY LifecycleConstants DEF Inv, TypeOK
    <3>2. interruptions' \in {interruptions, interruptions + 1}
      BY DEF Next, Commands, Execute, Create, Contribute, TimeoutReason, Report, ConfirmComplete,
             RejectComplete, GiveUp, Reopen, SpecialCase, Negotiate, CompleteByManager, scan,
             Scan, MarkOverdue, OpenTimeoutCycle, ScanInterrupted, Admin, AdminCreate,
             AdminSetStatus, ReadOnly, vars
    <3> QED
      BY <3>1, <3>2 DEF ScanInterrupted
  <2>a. status = "ACTIVE_OVERDUE" /\ ~ inScan => timeoutOpen \/ explained
    BY <2>0 DEF OverdueAccountable, Accountable
  <2>1. ASSUME NEW role \in Roles, Execute(role)
        PROVE  timeoutOpen' \/ explained'
    BY <2>1, <2>a
    DEF Execute, Create, Contribute, TimeoutReason, Report, ConfirmComplete, RejectComplete,
        GiveUp, Reopen, SpecialCase, Negotiate, scan
  <2>2. CASE CompleteByManager
    BY <2>2 DEF CompleteByManager
  <2>3. CASE ReadOnly \/ UNCHANGED vars
    BY <2>3, <2>a DEF ReadOnly, vars
  <2>4. CASE MarkOverdue
    BY <2>4 DEF MarkOverdue
  <2>5. CASE OpenTimeoutCycle
    BY <2>5 DEF OpenTimeoutCycle
  <2>6. ~ AdminCreate
    BY DEF AdminCreate
  <2>7. ~ \E new \in AdminStatuses : AdminSetStatus(new)
    BY DEF AdminSetStatus, AdminStatuses, Terminal
  <2> QED
    BY <2>0, <2>1, <2>2, <2>3, <2>4, <2>5, <2>6, <2>7 DEF Next, Commands, Scan, Admin
<1> QED
  BY <1>1, <1>2, InvariantHolds, PTL DEF Spec

-----------------------------------------------------------------------------
(* The refinement.                                                         *)

\* A pending cycle makes somebody the holder ...
LEMMA HolderKnown ==
  ASSUME open' # {}
  PROVE  Holder' \in Handshake!Parties
BY DEF Holder, Handshake!Parties

\* ... and after a switch for a role with a counterpart there is one.
LEMMA SwitchHolder ==
  ASSUME NEW side, NEW pending, NEW cycle, NEW role \in {"MANAGER", "ENGINEER", "LEADER"},
         side # "NONE" => pending # {},
         Agree(side, cycle, pending),
         SwitchFrom(side, cycle, pending, role)
  PROVE  /\ Holder' \in Handshake!Parties
         /\ role # "MANAGER" => Holder' = "manager"
<1>1. NextSide(role) # "NONE" /\ (role # "MANAGER" => NextSide(role) = "MANAGER_SIDE")
  BY DEF NextSide
<1>2. role \in Roles
  BY DEF Roles
<1>3. \E c \in open' : c.side = NextSide(role)
  BY <1>1, <1>2, SwitchGives
<1> QED
  BY <1>1, <1>3, HolderKnown DEF Holder

LEMMA ExecuteRefines ==
  ASSUME ~ meddled, ~ unvalidated', Inv, BotInv, NEW role \in Roles, Execute(role)
  PROVE  Handshake!Next \/ UNCHANGED <<Phase, Holder>>
<1>a. waitingSide # "NONE" /\ status \in Live => open # {}
  BY DEF BotInv, WaitIsBacked
<1>b. Agree(waitingSide, current, open)
  BY RowAgrees
<1>c. \A intent : Arrives(intent, role) => RoleAllowed(role, AllowedRoles(intent))
  BY DEF Arrives
<1>1. CASE Create(role)
  <2>1. Phase = "none" /\ Phase' = "open"
    BY <1>1 DEF Create, Phase, Terminal
  <2>2. Holder' \in Handshake!Parties \cup {"nobody"}
    BY DEF Holder, Handshake!Parties
  <2> QED
    BY <2>1, <2>2 DEF Handshake!Next, Handshake!File
<1>2. ASSUME status \in Running, status' = status,
             SwitchFrom(waitingSide, current, open, role)
      PROVE  Handshake!Next \/ UNCHANGED <<Phase, Holder>>
  <2>1. Phase = "open" /\ Phase' = "open"
    BY <1>2 DEF Phase, Running, Terminal
  <2>2. CASE NextSide(role) \in {"NONE", waitingSide}
    <3>1. Holder' = Holder
      BY <1>2, <2>2 DEF SwitchFrom, Holder
    <3> QED
      BY <2>1, <3>1
  <2>3. CASE NextSide(role) \notin {"NONE", waitingSide}
    <3>1. open' # {}
      BY <1>2, <2>3 DEF SwitchFrom
    <3> QED
      BY <2>1, <3>1, HolderKnown DEF Handshake!Next, Handshake!Pass
  <2> QED
    BY <2>2, <2>3
<1>3. ASSUME NEW intent \in Contributions, Contribute(intent, role)
      PROVE  Handshake!Next \/ UNCHANGED <<Phase, Holder>>
  BY <1>2, <1>3 DEF Contribute, Arrives, RoutableStates, Contributions, SwitchResponsibility
<1>4. CASE TimeoutReason(role)
  BY <1>2, <1>4 DEF TimeoutReason, Arrives, RoutableStates, Contributions, SwitchResponsibility
<1>5. CASE Report(role)
  <2>1. /\ status \in Running \cup {"PENDING_NEGOTIATION"}
        /\ status' = "PENDING_CONFIRM"
        /\ SwitchFrom(waitingSide, current, open, role)
    BY <1>5 DEF Report, Arrives, RoutableStates, Contributions, SwitchResponsibility
  <2>2. role \in {"ENGINEER", "LEADER"}
    BY <1>5, <1>c DEF Report, RoleAllowed, AllowedRoles, Contributions, Roles
  <2>3. Phase = "open" /\ Phase' = "review"
    BY <2>1 DEF Phase, Running, Terminal
  <2>4. waitingSide # "NONE" => open # {}
    BY <1>a, <2>1 DEF Running, Live
  <2>5. Holder' = "manager"
    BY <1>b, <2>1, <2>2, <2>4, SwitchHolder
  <2> QED
    BY <2>3, <2>5 DEF Handshake!Next, Handshake!Report
<1>6. ASSUME status \in Live, status' \in Terminal, open' = {}
      PROVE  Handshake!Next
  <2>1. Phase \in {"open", "review"} /\ Phase' = "closed" /\ Holder' = "nobody"
    BY <1>6 DEF Phase, Holder, Live, Terminal
  <2> QED
    BY <2>1 DEF Handshake!Next, Handshake!Close
<1>7. CASE ConfirmComplete(role)
  <2>1. status \in Live
    BY <1>7 DEF ConfirmComplete, Arrives, RoutableStates, Contributions, Live
  <2> QED
    BY <1>6, <1>7, <2>1 DEF ConfirmComplete, CloseResponsibility, CloseCycles, Terminal
<1>8. CASE RejectComplete(role)
  <2>1. /\ status = "PENDING_CONFIRM" /\ status' = "ACTIVE"
        /\ SwitchFrom(waitingSide, current, open, role)
    BY <1>8 DEF RejectComplete, Arrives, RoutableStates, Contributions, SwitchResponsibility
  <2>2. role \in {"MANAGER", "ENGINEER", "LEADER"}
    BY <1>8, <1>c DEF RejectComplete, RoleAllowed, AllowedRoles, Contributions
  <2>3. Phase = "review" /\ Phase' = "open"
    BY <2>1 DEF Phase, Terminal
  <2>4. Holder' \in Handshake!Parties
    BY <1>a, <1>b, <2>1, <2>2, SwitchHolder DEF Live
  <2> QED
    BY <2>3, <2>4 DEF Handshake!Next, Handshake!Return
<1>9. ASSUME NEW intent \in {"cancel", "stop"}, GiveUp(intent, role)
      PROVE  Handshake!Next
  <2>1. status \in Live
    BY <1>9 DEF GiveUp, Arrives, RoutableStates, Contributions
  <2> QED
    BY <1>6, <1>9, <2>1 DEF GiveUp, CloseResponsibility, CloseCycles, Terminal
<1>10. CASE Reopen(role)
  <2>1. /\ status \in Terminal /\ status' = "ACTIVE"
        /\ SwitchFrom("NONE", 0, {}, role)
    BY <1>10, RowAgrees DEF Reopen, Arrives, RoutableStates, Contributions
  <2>2. role \in {"MANAGER", "ENGINEER", "LEADER"}
    BY <1>10, <1>c DEF Reopen, RoleAllowed, AllowedRoles, Contributions
  <2>3. Phase = "closed" /\ Phase' = "open"
    BY <2>1 DEF Phase, Terminal
  <2>4. Agree("NONE", 0, {})
    BY DEF Agree
  <2>5. Holder' \in Handshake!Parties
    BY <2>1, <2>2, <2>4, SwitchHolder
  <2> QED
    BY <2>3, <2>5 DEF Handshake!Next, Handshake!Reopen
<1>11. CASE SpecialCase(role) \/ Negotiate(role)
  <2>1. /\ status \in Running
        /\ status' \in Running \cup {"PENDING_NEGOTIATION"}
        /\ UNCHANGED open
    BY <1>11 DEF SpecialCase, Negotiate, Arrives, RoutableStates, Contributions, ledger
  <2> QED
    BY <2>1 DEF Phase, Holder, Running, Terminal
<1> QED
  BY <1>1, <1>3, <1>4, <1>5, <1>7, <1>8, <1>9, <1>10, <1>11 DEF Execute

LEMMA NextRefines ==
  ASSUME Inv, BotInv, [Next]_vars, InOrder'
  PROVE  Handshake!Next \/ UNCHANGED <<Phase, Holder>>
<1>0. ~ meddled /\ ~ meddled' /\ ~ unvalidated'
  BY DEF InOrder, Next, ReadOnly, vars
<1>1. ASSUME NEW role \in Roles, Execute(role)
      PROVE  Handshake!Next \/ UNCHANGED <<Phase, Holder>>
  BY <1>0, <1>1, ExecuteRefines
<1>2. CASE CompleteByManager
  <2>1. status \in Live /\ status' = "COMPLETED" /\ open' = {}
    BY <1>2
    DEF CompleteByManager, Arrives, RoutableStates, Contributions, Live, Running,
        CloseResponsibility, CloseCycles
  <2>2. Phase \in {"open", "review"} /\ Phase' = "closed" /\ Holder' = "nobody"
    BY <2>1 DEF Phase, Holder, Live, Terminal
  <2> QED
    BY <2>2 DEF Handshake!Next, Handshake!Close
<1>3. CASE ReadOnly \/ UNCHANGED vars
  BY <1>3 DEF ReadOnly, vars, Phase, Holder
<1>4. CASE MarkOverdue
  BY <1>4 DEF MarkOverdue, ledger, Phase, Holder, Terminal
<1>5. CASE OpenTimeoutCycle \/ ScanInterrupted
  BY <1>5 DEF OpenTimeoutCycle, ScanInterrupted, ledger, Phase, Holder
<1> QED
  BY <1>0, <1>1, <1>2, <1>3, <1>4, <1>5 DEF Next, Commands, Scan

\* As long as every command is validated and the administration server is
\* unused, the ticket implements the handshake between the two sides.
THEOREM TicketImplementsHandshake == Spec => ImplementsHandshake
<1> DEFINE A == InOrder' => Handshake!Next \/ UNCHANGED <<Phase, Holder>>
<1>1. Init => Handshake!Init
  BY DEF Init, Handshake!Init, Phase, Holder
<1>2. Inv /\ BotInv /\ [Next]_vars => [A]_vars
  BY NextRefines
<1> QED
  BY <1>1, <1>2, NextBotInv, BotInitInv, InvariantHolds, PTL DEF Spec, ImplementsHandshake
=============================================================================
