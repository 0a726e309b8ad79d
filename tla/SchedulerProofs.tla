--------------------------- MODULE SchedulerProofs ---------------------------
(***************************************************************************)
(* Proofs about the two components that workers/scheduler.py drives.       *)
(*                                                                         *)
(* SlaClock, for every deadline, every pair of thresholds and any number   *)
(* of hours.  That the wait is measured is inductive together with the     *)
(* types (a wait of a natural number of hours began before the pause); the *)
(* reminders rest on the keys that were spent, and the overdue mark on the *)
(* hours that the deadline has been given back.                            *)
(*                                                                         *)
(* OrderMonitor, for any orders and any number of crashes and of loads     *)
(* and saves that fail.  A row may be written over an old copy of the      *)
(* table, so the invariant says what the copy still holds; and the file    *)
(* may be torn, so it speaks of what the table said before.                *)
(***************************************************************************)
EXTENDS SlaClock, OrderMonitor, TLAPS

-----------------------------------------------------------------------------
(* The clocks of a ticket.                                                 *)

\* A level that has used up its reminders of this cycle has spent its key.
Spent == \A l \in Levels : reminded[l] > resumes => KeyOf(l) \in keys

\* Either the working time is over, or the deadline has every hour of every
\* pause back, but for those of the pause in force.
Balance ==
  \/ uncredited
  \/ now - stopped > Sla
  \/ status # "ACTIVE_OVERDUE" /\ deadline + PauseLength >= Sla + stopped

ClockInv == TypeOK /\ WaitIsMeasured /\ NobodyIsPressed /\ Spent /\ Balance
----------------------------------------------------------------------------
LEMMA ClockInit == Init => ClockInv
<1> SUFFICES ASSUME Init PROVE ClockInv
  OBVIOUS
<1>1. TypeOK
  <2>1. now \in 0..Horizon /\ since \in 0..now /\ pausedAt \in 0..now /\ stopped \in 0..now
        /\ deadline \in Nat /\ waited \in Nat /\ resumes \in Nat
    BY ClockConstants DEF Init
  <2>2. reminded \in [Levels -> Nat]
    BY DEF Init
  <2> QED
    BY <2>1, <2>2 DEF Init, TypeOK, Running, Sides
<1>2. WaitIsMeasured /\ NobodyIsPressed /\ Spent
  BY DEF Init, WaitIsMeasured, NobodyIsPressed, RemindersArePaced, RemindersAreEarned,
         OverdueIsEarned, Spent, Levels
<1>3. Balance
  BY ClockConstants DEF Init, Balance, PauseLength
<1> QED
  BY <1>1, <1>2, <1>3 DEF ClockInv

\* A pause that ends moves no wait into the future.
LEMMA ShiftedType ==
  ASSUME TypeOK, NEW start \in 0..now
  PROVE  Shifted(start) \in 0..now /\ PauseLength \in 0..now
BY DEF TypeOK, Shifted, PauseLength

\* What the end of a pause does to the types, whoever ends it.
LEMMA FinalizeType ==
  ASSUME TypeOK, NEW s \in Running \cup {"PENDING_CONFIRM", "CLOSED"}, NEW sd \in Sides,
         NEW sw \in BOOLEAN, Finalize(s, sd, sw), timeoutOpen' \in BOOLEAN
  PROVE  TypeOK'
<1>1. now' = now /\ now \in Nat /\ since \in 0..now /\ deadline \in Nat
  BY ClockConstants DEF Finalize, TypeOK
<1>2. Shifted(now) \in 0..now /\ Shifted(since) \in 0..now /\ PauseLength \in 0..now
  BY <1>1, ShiftedType
<1>3. since' \in 0..now' /\ waited' \in Nat /\ resumes' \in Nat
      /\ reminded' \in [Levels -> Nat] /\ side' \in Sides
  BY <1>1, <1>2 DEF Finalize, BeginWait, TypeOK
<1>4. deadline' \in Nat
  BY <1>1, <1>2 DEF Finalize, Credited
<1>5. uncredited' \in BOOLEAN
  BY DEF Finalize, TypeOK
<1> QED
  BY <1>1, <1>3, <1>4, <1>5 DEF Finalize, TypeOK

\* Every command that ends a pause, as one step.
Ends(s, sd, sw) ==
  /\ Finalize(s, sd, sw)
  /\ UNCHANGED timeoutOpen
  /\ s = "ACTIVE_OVERDUE" => status = "ACTIVE_OVERDUE"

\* The commands that go through _finalize do nothing else.
LEMMA CommandForms ==
  ASSUME TypeOK, Command
  PROVE  \/ \E s \in Running \cup {"PENDING_CONFIRM", "CLOSED"}, sd \in Sides, sw \in BOOLEAN :
              Ends(s, sd, sw)
         \/ GiveUp \/ Reason \/ SpecialCase
<1>1. ASSUME NEW role \in {"MANAGER", "ENGINEER"}, Contribute(role)
      PROVE  Ends(status, Other(role), side # Other(role)) /\ Other(role) \in Sides
  BY <1>1 DEF Contribute, Ends, Other, Sides
<1>2. ASSUME NEW role \in {"MANAGER", "ENGINEER"}, Reopen(role)
      PROVE  Ends("ACTIVE", Other(role), TRUE) /\ Other(role) \in Sides
  BY <1>2 DEF Reopen, Ends, Other, Sides
<1>3. Report => Ends("PENDING_CONFIRM", "MANAGER_SIDE", side # "MANAGER_SIDE")
  BY DEF Report, Ends
<1>4. Complete => Ends("CLOSED", side, FALSE)
  BY DEF Complete, Ends
<1>5. Reject => Ends("ACTIVE", "ENGINEER_SIDE", side # "ENGINEER_SIDE")
  BY DEF Reject, Ends
<1>6. status \in Running \cup {"PENDING_CONFIRM", "CLOSED"} /\ side \in Sides
      /\ {"ACTIVE", "PENDING_CONFIRM", "CLOSED"} \subseteq Running \cup {"PENDING_CONFIRM", "CLOSED"}
      /\ {"MANAGER_SIDE", "ENGINEER_SIDE"} \subseteq Sides
  BY DEF TypeOK, Running, Sides
<1>7. ASSUME NEW role \in {"MANAGER", "ENGINEER"}, Contribute(role)
      PROVE  \E s \in Running \cup {"PENDING_CONFIRM", "CLOSED"}, sd \in Sides, sw \in BOOLEAN :
               Ends(s, sd, sw)
  <2>1. (side # Other(role)) \in BOOLEAN
    OBVIOUS
  <2> QED
    BY <1>1, <1>6, <1>7, <2>1
<1>8. ASSUME Report \/ Complete \/ Reject \/ \E role \in {"MANAGER", "ENGINEER"} : Reopen(role)
      PROVE  \E s \in Running \cup {"PENDING_CONFIRM", "CLOSED"}, sd \in Sides, sw \in BOOLEAN :
               Ends(s, sd, sw)
  <2>1. (side # "MANAGER_SIDE") \in BOOLEAN /\ (side # "ENGINEER_SIDE") \in BOOLEAN
    OBVIOUS
  <2> QED
    BY <1>2, <1>3, <1>4, <1>5, <1>6, <1>8, <2>1
<1> QED
  BY <1>7, <1>8 DEF Command
----------------------------------------------------------------------------
LEMMA TypeNext == TypeOK /\ [Next]_vars => TypeOK'
<1> SUFFICES ASSUME TypeOK, [Next]_vars PROVE TypeOK'
  OBVIOUS
<1> USE ClockConstants
<1>1. CASE Tick
  <2>1. now \in Nat /\ now' \in 0..Horizon /\ 0..now \subseteq 0..now' /\ now' = now + 1
    BY <1>1 DEF Tick, TypeOK
  <2>2. waited' \in Nat /\ stopped' \in 0..now'
    BY <1>1, <2>1 DEF Tick, TypeOK
  <2> QED
    BY <1>1, <2>1, <2>2 DEF Tick, TypeOK
<1>2. ASSUME NEW s \in Running \cup {"PENDING_CONFIRM", "CLOSED"}, NEW sd \in Sides,
             NEW sw \in BOOLEAN, Ends(s, sd, sw)
      PROVE  TypeOK'
  <2>1. timeoutOpen' \in BOOLEAN
    BY <1>2 DEF Ends, TypeOK
  <2> QED
    BY <1>2, <2>1, FinalizeType DEF Ends
<1>3. CASE GiveUp
  BY <1>3 DEF GiveUp, clocks, TypeOK
<1>4. CASE Reason
  <2>1. CASE side = "MANAGER_SIDE"
    BY <1>4, <2>1 DEF Reason, wait, TypeOK
  <2>2. CASE side # "MANAGER_SIDE"
    <3>1. BeginWait("MANAGER_SIDE", now) /\ overlapped' \in BOOLEAN
      BY <1>4, <2>2 DEF Reason, TypeOK
    <3>2. side' \in Sides /\ since' \in 0..now' /\ waited' \in Nat /\ resumes' \in Nat
      BY <1>4, <3>1 DEF Reason, BeginWait, Sides, TypeOK
    <3>3. reminded' \in [Levels -> Nat] /\ timeoutOpen' \in BOOLEAN /\ now' = now
      BY <1>4, <3>1 DEF Reason, BeginWait
    <3> QED
      BY <1>4, <3>1, <3>2, <3>3 DEF Reason, TypeOK
  <2> QED
    BY <2>1, <2>2
<1>5. CASE SpecialCase
  <2>1. since' \in 0..now /\ PauseLength \in 0..now
    BY <1>5, ShiftedType DEF SpecialCase, TypeOK
  <2>2. deadline' \in Nat /\ resumes' \in Nat
    BY <1>5, <2>1 DEF SpecialCase, Credited, TypeOK
  <2> QED
    BY <1>5, <2>1, <2>2 DEF SpecialCase, clocks, TypeOK
<1>6. CASE ResponseScan
  <2> DEFINE due == {l \in Levels : now - since >= Threshold(l) /\ KeyOf(l) \notin keys}
  <2>1. keys' = keys \cup {KeyOf(l) : l \in due}
        /\ reminded' = [l \in Levels |-> IF l \in due THEN reminded[l] + 1 ELSE reminded[l]]
    BY <1>6 DEF ResponseScan
  <2>2. \A l \in due : KeyOf(l) \in Levels \X (0..now)
    BY DEF KeyOf, TypeOK
  <2>3. keys' \subseteq Levels \X (0..now)
    BY <2>1, <2>2 DEF TypeOK
  <2>4. reminded' \in [Levels -> Nat]
    BY <2>1 DEF TypeOK
  <2> QED
    BY <1>6, <2>3, <2>4 DEF ResponseScan, clocks, TypeOK
<1>7. CASE SlaScan
  BY <1>7 DEF SlaScan, clocks, Running, TypeOK
<1>8. CASE UNCHANGED vars
  BY <1>8 DEF vars, clocks, TypeOK
<1> QED
  BY <1>1, <1>2, <1>3, <1>4, <1>5, <1>6, <1>7, <1>8, CommandForms DEF Next

\* The wait is measured: a pause that ends takes its hours out of exactly the
\* waits that had begun when it did.
LEMMA WaitNext == TypeOK /\ WaitIsMeasured /\ [Next]_vars => WaitIsMeasured'
<1> SUFFICES ASSUME TypeOK, WaitIsMeasured, [Next]_vars PROVE WaitIsMeasured'
  OBVIOUS
<1> USE ClockConstants
<1>0. now \in Nat /\ since \in 0..now /\ pausedAt \in 0..now /\ waited \in Nat
  BY DEF TypeOK
<1>1. CASE Tick
  BY <1>0, <1>1 DEF Tick, WaitIsMeasured, TypeOK
<1>2. ASSUME NEW s \in Running \cup {"PENDING_CONFIRM", "CLOSED"}, NEW sd \in Sides,
             NEW sw \in BOOLEAN, Ends(s, sd, sw)
      PROVE  WaitIsMeasured'
  <2>1. now' = now /\ paused' = FALSE /\ overlapped' = overlapped
    BY <1>2 DEF Ends, Finalize
  <2>2. CASE sw
    <3>1. since' = now /\ waited' = 0
      BY <1>0, <1>2, <2>2 DEF Ends, Finalize, BeginWait, Shifted, PauseLength
    <3> QED
      BY <1>0, <2>1, <3>1 DEF WaitIsMeasured
  <2>3. CASE ~sw
    <3>1. since' = Shifted(since) /\ waited' = waited
      BY <1>2, <2>3 DEF Ends, Finalize
    <3> QED
      BY <1>0, <2>1, <3>1 DEF WaitIsMeasured, Shifted, PauseLength, TypeOK
  <2> QED
    BY <2>2, <2>3
<1>3. CASE GiveUp
  BY <1>3 DEF GiveUp, clocks, WaitIsMeasured
<1>4. CASE Reason
  BY <1>0, <1>4 DEF Reason, BeginWait, wait, WaitIsMeasured, TypeOK
<1>5. CASE SpecialCase
  BY <1>0, <1>5 DEF SpecialCase, clocks, Shifted, PauseLength, WaitIsMeasured, TypeOK
<1>6. CASE ResponseScan \/ SlaScan
  BY <1>6 DEF ResponseScan, SlaScan, clocks, WaitIsMeasured
<1>7. CASE UNCHANGED vars
  BY <1>7 DEF vars, clocks, WaitIsMeasured
<1> QED
  BY <1>1, <1>2, <1>3, <1>4, <1>5, <1>6, <1>7, CommandForms DEF Next
----------------------------------------------------------------------------
\* What a cycle that goes on or begins does to its reminders.
Paced == RemindersArePaced /\ Spent

LEMMA PacedNext == TypeOK /\ Paced /\ [Next]_vars => Paced'
<1> SUFFICES ASSUME TypeOK, Paced, [Next]_vars, NEW l \in Levels
             PROVE  /\ reminded'[l] <= 1 + resumes'
                    /\ reminded'[l] > resumes' => <<l, since'>> \in keys'
  BY DEF Paced, RemindersArePaced, Spent, KeyOf
<1> USE ClockConstants
<1>0. /\ now \in Nat /\ since \in 0..now /\ pausedAt \in 0..now
      /\ reminded[l] \in Nat /\ resumes \in Nat /\ PauseLength \in 0..now
      /\ reminded[l] <= 1 + resumes /\ (reminded[l] > resumes => <<l, since>> \in keys)
  BY DEF TypeOK, Paced, RemindersArePaced, Spent, KeyOf, PauseLength
<1>1. ASSUME UNCHANGED <<reminded, resumes, since, keys>>
      PROVE  /\ reminded'[l] <= 1 + resumes'
             /\ reminded'[l] > resumes' => <<l, since'>> \in keys'
  BY <1>0, <1>1
<1>2. ASSUME NEW sd, NEW start, BeginWait(sd, start)
      PROVE  reminded'[l] = 0 /\ resumes' = 0
  BY <1>2 DEF BeginWait
<1>3. ASSUME keys' = keys, reminded' = reminded, since' = Shifted(since),
             resumes' = IF PauseLength > 0 THEN resumes + 1 ELSE resumes
      PROVE  /\ reminded'[l] <= 1 + resumes'
             /\ reminded'[l] > resumes' => <<l, since'>> \in keys'
  <2>1. CASE PauseLength > 0
    BY <1>0, <1>3, <2>1
  <2>2. CASE ~(PauseLength > 0)
    <3>1. since' = since
      BY <1>0, <1>3, <2>2 DEF Shifted
    <3> QED
      BY <1>0, <1>3, <2>2, <3>1
  <2> QED
    BY <2>1, <2>2
<1>4. ASSUME NEW s \in Running \cup {"PENDING_CONFIRM", "CLOSED"}, NEW sd \in Sides,
             NEW sw \in BOOLEAN, Ends(s, sd, sw)
      PROVE  /\ reminded'[l] <= 1 + resumes'
             /\ reminded'[l] > resumes' => <<l, since'>> \in keys'
  <2>1. CASE sw
    <3>1. BeginWait(sd, Shifted(now))
      BY <1>4, <2>1 DEF Ends, Finalize
    <3> QED
      BY <1>2, <3>1
  <2>2. CASE ~sw
    BY <1>3, <1>4, <2>2 DEF Ends, Finalize
  <2> QED
    BY <2>1, <2>2
<1>5. CASE Reason
  <2>1. CASE side = "MANAGER_SIDE"
    BY <1>1, <1>5, <2>1 DEF Reason, wait
  <2>2. CASE side # "MANAGER_SIDE"
    BY <1>2, <1>5, <2>2 DEF Reason
  <2> QED
    BY <2>1, <2>2
<1>6. CASE SpecialCase
  BY <1>3, <1>6 DEF SpecialCase
<1>7. CASE ResponseScan
  <2> DEFINE due == {k \in Levels : now - since >= Threshold(k) /\ KeyOf(k) \notin keys}
  <2>1. /\ keys' = keys \cup {KeyOf(k) : k \in due}
        /\ reminded'[l] = IF l \in due THEN reminded[l] + 1 ELSE reminded[l]
        /\ since' = since /\ resumes' = resumes
    BY <1>7 DEF ResponseScan
  <2>2. CASE l \in due
    <3>1. KeyOf(l) \in keys' /\ <<l, since>> \notin keys /\ KeyOf(l) = <<l, since>>
      BY <2>1, <2>2 DEF KeyOf
    <3> QED
      BY <1>0, <2>1, <2>2, <3>1
  <2>3. CASE l \notin due
    BY <1>0, <2>1, <2>3
  <2> QED
    BY <2>2, <2>3
<1>8. CASE Tick \/ GiveUp \/ SlaScan \/ UNCHANGED vars
  BY <1>1, <1>8 DEF Tick, GiveUp, SlaScan, vars
<1> QED
  BY <1>4, <1>5, <1>6, <1>7, <1>8, CommandForms DEF Next

\* Only the hours of the running cycle count for its reminders.
LEMMA EarnedNext ==
  TypeOK /\ WaitIsMeasured /\ RemindersAreEarned /\ [Next]_vars => RemindersAreEarned'
<1> SUFFICES ASSUME TypeOK, WaitIsMeasured, RemindersAreEarned, [Next]_vars,
                    NEW l \in Levels, ~overlapped', reminded'[l] > 0
             PROVE  waited' >= Threshold(l)
  BY DEF RemindersAreEarned, Threshold
<1> USE ClockConstants
<1>0. /\ now \in Nat /\ since \in 0..now /\ waited \in Nat /\ reminded[l] \in Nat
      /\ Threshold(l) \in Nat
  BY DEF TypeOK, Threshold
<1>1. ASSUME ~overlapped, reminded[l] > 0 PROVE waited >= Threshold(l)
  BY <1>1 DEF RemindersAreEarned
<1>2. ASSUME NEW sd, NEW start, BeginWait(sd, start) PROVE FALSE
  BY <1>2 DEF BeginWait
<1>3. CASE Tick
  BY <1>0, <1>1, <1>3 DEF Tick
<1>4. ASSUME NEW s \in Running \cup {"PENDING_CONFIRM", "CLOSED"}, NEW sd \in Sides,
             NEW sw \in BOOLEAN, Ends(s, sd, sw)
      PROVE  waited' >= Threshold(l)
  BY <1>1, <1>2, <1>4 DEF Ends, Finalize
<1>5. CASE Reason
  BY <1>1, <1>2, <1>5 DEF Reason, wait
<1>6. CASE ResponseScan
  <2>1. ~paused /\ UNCHANGED <<waited, overlapped>>
    BY <1>6 DEF ResponseScan, Exempt, clocks
  <2>2. waited = now - since
    BY <2>1 DEF WaitIsMeasured
  <2>3. reminded'[l] = reminded[l] \/ now - since >= Threshold(l)
    BY <1>6 DEF ResponseScan
  <2> QED
    BY <1>1, <2>1, <2>2, <2>3
<1>7. CASE GiveUp \/ SpecialCase \/ SlaScan \/ UNCHANGED vars
  BY <1>1, <1>7 DEF GiveUp, SpecialCase, SlaScan, vars, clocks
<1> QED
  BY <1>3, <1>4, <1>5, <1>6, <1>7, CommandForms DEF Next
----------------------------------------------------------------------------
\* Working time never runs backwards, and the deadline keeps up with it.
LEMMA BalanceNext == TypeOK /\ Balance /\ [Next]_vars => Balance'
<1> SUFFICES ASSUME TypeOK, Balance, [Next]_vars, ~uncredited', ~(now' - stopped' > Sla)
             PROVE  status' # "ACTIVE_OVERDUE" /\ deadline' + PauseLength' >= Sla + stopped'
  BY DEF Balance
<1> USE ClockConstants
<1>0. /\ now \in Nat /\ pausedAt \in 0..now /\ stopped \in 0..now /\ deadline \in Nat
      /\ PauseLength \in 0..now
  BY DEF TypeOK, PauseLength
<1>1. now' - stopped' >= now - stopped /\ (uncredited => uncredited')
  <2>1. CASE Tick
    BY <1>0, <2>1 DEF Tick
  <2>2. ASSUME UNCHANGED <<now, stopped>> PROVE now' - stopped' >= now - stopped
    BY <1>0, <2>2
  <2>3. ASSUME NEW s \in Running \cup {"PENDING_CONFIRM", "CLOSED"}, NEW sd \in Sides,
               NEW sw \in BOOLEAN, Ends(s, sd, sw)
        PROVE  UNCHANGED <<now, stopped>> /\ (uncredited => uncredited')
    BY <2>3 DEF Ends, Finalize
  <2>4. CASE GiveUp \/ Reason \/ SpecialCase \/ ResponseScan \/ SlaScan \/ UNCHANGED vars
    BY <2>2, <2>4 DEF GiveUp, Reason, SpecialCase, ResponseScan, SlaScan, vars, clocks
  <2> QED
    BY <2>1, <2>2, <2>3, <2>4, CommandForms DEF Next
<1>2. status # "ACTIVE_OVERDUE" /\ deadline + PauseLength >= Sla + stopped
  <2>1. now' - stopped' \in Int /\ now - stopped \in Int
    <3>1. now' \in Nat /\ stopped' \in 0..now'
      BY TypeNext DEF TypeOK
    <3> QED
      BY <1>0, <3>1
  <2>2. ~uncredited /\ ~(now - stopped > Sla)
    BY <1>1, <2>1
  <2> QED
    BY <2>2 DEF Balance
<1>3. CASE Tick
  BY <1>0, <1>2, <1>3 DEF Tick, PauseLength
<1>4. ASSUME NEW s \in Running \cup {"PENDING_CONFIRM", "CLOSED"}, NEW sd \in Sides,
             NEW sw \in BOOLEAN, Ends(s, sd, sw)
      PROVE  status' # "ACTIVE_OVERDUE" /\ deadline' + PauseLength' >= Sla + stopped'
  <2>1. /\ status' = s /\ s # "ACTIVE_OVERDUE" /\ stopped' = stopped /\ PauseLength' = 0
        /\ deadline' = Credited(s)
        /\ PauseLength > 0 => s \in Running
    BY <1>2, <1>4 DEF Ends, Finalize, PauseLength
  <2>2. CASE s = "ACTIVE"
    BY <1>0, <1>2, <2>1, <2>2 DEF Credited
  <2>3. CASE s # "ACTIVE"
    BY <1>0, <1>2, <2>1, <2>3 DEF Credited, Running
  <2> QED
    BY <2>2, <2>3
<1>5. CASE SpecialCase
  <2>1. status = "ACTIVE" /\ deadline' = deadline + PauseLength
    BY <1>2, <1>5 DEF SpecialCase, Credited, Running
  <2>2. PauseLength' = 0
    BY <1>0, <1>5 DEF SpecialCase, PauseLength, clocks
  <2> QED
    BY <1>0, <1>2, <1>5, <2>1, <2>2 DEF SpecialCase, clocks
<1>6. CASE SlaScan
  <2>1. ~paused /\ deadline < now /\ UNCHANGED <<now, stopped>>
    BY <1>6 DEF SlaScan, Exempt, clocks
  <2> QED
    BY <1>0, <1>2, <2>1 DEF PauseLength
<1>7. CASE GiveUp \/ Reason \/ ResponseScan \/ UNCHANGED vars
  BY <1>2, <1>7 DEF GiveUp, Reason, ResponseScan, vars, clocks, PauseLength
<1> QED
  BY <1>3, <1>4, <1>5, <1>6, <1>7, CommandForms DEF Next

LEMMA OverdueFollows == Balance => OverdueIsEarned
BY DEF Balance, OverdueIsEarned

LEMMA ClockNext == ClockInv /\ [Next]_vars => ClockInv'
<1>1. Balance' => OverdueIsEarned'
  BY DEF Balance, OverdueIsEarned
<1> QED
  BY <1>1, TypeNext, WaitNext, PacedNext, EarnedNext, BalanceNext
     DEF ClockInv, NobodyIsPressed, Paced
----------------------------------------------------------------------------
\* The two clocks keep their types.
THEOREM TypeCorrect == Spec => []TypeOK
<1>1. ClockInv => TypeOK
  BY DEF ClockInv
<1> QED
  BY <1>1, ClockInit, ClockNext, PTL DEF Spec

\* close_active_special_case (db.py:1558) keeps waiting_since a true measure
\* of the hours that somebody was waited for, for any sequence of pauses,
\* unless a reason was given inside a pause.
THEOREM WaitsAreMeasured == Spec => []WaitIsMeasured
<1>1. ClockInv => WaitIsMeasured
  BY DEF ClockInv
<1> QED
  BY <1>1, ClockInit, ClockNext, PTL DEF Spec

\* The scans remind nobody too often or too early, and hold no ticket overdue
\* for hours in which its work was paused.
THEOREM NobodyIsPressedEver == Spec => []NobodyIsPressed
<1>1. ClockInv => NobodyIsPressed
  BY DEF ClockInv
<1> QED
  BY <1>1, ClockInit, ClockNext, PTL DEF Spec

-----------------------------------------------------------------------------
(* Orders and the shared table.                                            *)

\* The order that is about to be marked has its row, or had it.
MarkedHasRow == job.step = "mark" => table[job.order] # "none" \/ job.order \in lost

\* The copy that is about to be saved holds every row of the file: the other
\* program may have dropped rows since it was loaded, but added none.
CopyIsComplete ==
  job.step \in {"save", "write"} => \A o \in Orders : table[o] # "none" => copy[o] # "none"

\* Nobody but the other program drops rows, and not while the bot writes.
TheirsIsOlder == \A o \in Orders : theirs[o] # "none" => table[o] # "none"

\* SyncedMeansWritten, and for a torn file: what it said before, which is what
\* the bot's unfinished save would have kept.
SyncedWereWritten == \A o \in Orders : monitor[o].synced => table[o] # "none" \/ o \in lost

\* What is about to be told is one of the notices.
NotifiesSomething == job.step = "notify" => job.notice \in Notices

Written == MarkedHasRow /\ CopyIsComplete /\ TheirsIsOlder /\ SyncedWereWritten

OrderInv == OrdersTypeOK /\ NotifiesSomething /\ Written

Row == [last : Statuses \cup {"none"}, flags : SUBSET Notices, synced : BOOLEAN]

Jobs == [step : {"register", "load", "save", "write", "mark", "notify", "update"},
         order : Orders, status : Statuses \cup {"none"}, notice : Notices \cup {"none"}]
----------------------------------------------------------------------------
LEMMA OrderInit == OrdersInit => OrderInv
<1> SUFFICES ASSUME OrdersInit PROVE OrderInv
  OBVIOUS
<1>1. OrdersTypeOK
  <2>1. NoRows \in Tables /\ shop \in [Orders -> Statuses]
    BY DEF OrdersInit, NoRows, Tables, Statuses
  <2>2. crashes \in 0..MaxCrashes /\ failures \in 0..MaxFailures
    <3>1. crashes = 0 /\ failures = 0
      BY DEF OrdersInit
    <3> QED
      BY <3>1, OrderConstants
  <2> QED
    BY <2>1, <2>2 DEF OrdersInit, OrdersTypeOK
<1>2. job.step = "idle"
  BY DEF OrdersInit, NoJob
<1> QED
  BY <1>1, <1>2 DEF OrdersInit, NoRows, OrderInv, NotifiesSomething, Written, MarkedHasRow, CopyIsComplete, TheirsIsOlder,
                     SyncedWereWritten

\* A job that is under way is a record about one of the orders.
LEMMA Working ==
  ASSUME OrdersTypeOK, job.step # "idle"
  PROVE  job \in Jobs /\ job.order \in Orders /\ job # NoJob
BY DEF OrdersTypeOK, NoJob, Jobs

LEMMA OrdersTypeNext == OrdersTypeOK /\ NotifiesSomething /\ [OrdersNext]_orderVars => OrdersTypeOK'
<1> SUFFICES ASSUME OrdersTypeOK, NotifiesSomething, [OrdersNext]_orderVars PROVE OrdersTypeOK'
  OBVIOUS
<1> USE OrderConstants DEF theirSide
<1>a. NoRows \in Tables
  BY DEF NoRows, Tables
<1>1. ASSUME NEW o \in Orders, ShopMoves(o) PROVE OrdersTypeOK'
  <2>1. PICK s \in NextStatuses(shop[o]) : shop' = [shop EXCEPT ![o] = s]
    BY <1>1 DEF ShopMoves
  <2>2. s \in Statuses
    BY <2>1 DEF NextStatuses, Statuses
  <2> QED
    BY <1>1, <2>1, <2>2 DEF ShopMoves, OrdersTypeOK
<1>2. ASSUME NEW o \in Orders, Submit(o) \/ Resync(o) PROVE OrdersTypeOK'
  <2>1. job' \in Jobs
    BY <1>2 DEF Submit, Resync, NoJob, Jobs
  <2> QED
    BY <1>2, <2>1 DEF Submit, Resync, OrdersTypeOK, Jobs
<1>3. ASSUME NEW o \in Orders, Scan(o) PROVE OrdersTypeOK'
  <2>1. Branch(table[o], monitor[o].flags) \in Notices \cup {"none"}
    BY DEF Branch, Notices
  <2>2. table[o] \in Statuses \cup {"none"} /\ After["scan"] = "notify"
    BY DEF OrdersTypeOK, Tables, After
  <2>3. job' \in Jobs
    BY <1>3, <2>1, <2>2 DEF Scan, Jobs
  <2> QED
    BY <1>3, <2>3 DEF Scan, OrdersTypeOK, Jobs
<1>4. CASE TheyLoad
  BY <1>4 DEF TheyLoad, OrdersTypeOK
<1>5. CASE TheySave
  <2>1. table' \in Tables /\ lost' \subseteq Orders
    BY <1>5 DEF TheySave, OrdersTypeOK, Tables
  <2> QED
    BY <1>5, <1>a, <2>1 DEF TheySave, OrdersTypeOK
<1>6. ASSUME NEW s \in {"load", "save", "write", "mark", "notify", "update"}, job.step # "idle", Goto(s)
      PROVE  job' \in Jobs
  BY <1>6, Working DEF Goto, Jobs
<1>7. ASSUME NEW s \in {"notify", "update"}, job.step # "idle", Proceed(s)
      PROVE  job' \in Jobs \cup {NoJob}
  BY <1>7, Working DEF Proceed, After, Jobs
<1>8. CASE Register
  <2>1. CASE Registered(job.order)
    BY <1>8, <2>1 DEF Register, OrdersTypeOK
  <2>2. CASE ~Registered(job.order)
    <3>1. monitor' = [monitor EXCEPT ![job.order].last = ""] /\ job' \in Jobs
      BY <1>6, <1>8, <2>2 DEF Register
    <3>2. monitor' \in [Orders -> Row]
      <4>1. job.order \in Orders /\ monitor[job.order] \in Row
        BY <1>8, Working DEF Register, OrdersTypeOK, Row
      <4>2. monitor' = [monitor EXCEPT ![job.order] = [monitor[job.order] EXCEPT !.last = ""]]
        BY <3>1, <4>1
      <4>3. [monitor[job.order] EXCEPT !.last = ""] \in Row
        BY <4>1 DEF Row, Statuses
      <4> QED
        BY <4>2, <4>3 DEF OrdersTypeOK, Row
    <3> QED
      BY <1>8, <3>1, <3>2 DEF Register, OrdersTypeOK, Jobs, Row
  <2> QED
    BY <2>1, <2>2
<1>9. CASE Load
  <2>1. copy' \in Tables /\ job' \in Jobs \cup {NoJob}
    BY <1>6, <1>9 DEF Load, AfterFailure, OrdersTypeOK
  <2> QED
    BY <1>9, <2>1 DEF Load, OrdersTypeOK, Jobs
<1>17. CASE BeginSave
  <2>1. job' \in Jobs
    BY <1>6, <1>17 DEF BeginSave
  <2> QED
    BY <1>17, <2>1 DEF BeginSave, OrdersTypeOK, Jobs
<1>10. CASE EndSave
  <2>1. table' \in Tables
    BY <1>10 DEF EndSave, OrdersTypeOK, Tables, Statuses
  <2>2. job' \in Jobs
    BY <1>6, <1>10 DEF EndSave
  <2> QED
    BY <1>10, <1>a, <2>1, <2>2 DEF EndSave, OrdersTypeOK, Jobs
<1>11. CASE FileFails
  <2>1. job' = NoJob /\ failures' \in 0..MaxFailures
    BY <1>11 DEF FileFails, AfterFailure, OrdersTypeOK
  <2> QED
    BY <1>11, <1>a, <2>1 DEF FileFails, OrdersTypeOK
<1>12. CASE MarkSynced
  <2>1. monitor' \in [Orders -> [last : Statuses \cup {"none"}, flags : SUBSET Notices,
                                 synced : BOOLEAN]]
    BY <1>12 DEF MarkSynced, OrdersTypeOK
  <2> QED
    BY <1>12, <2>1 DEF MarkSynced, OrdersTypeOK
<1>13. CASE Notify
  <2>1. job' \in Jobs \cup {NoJob}
    BY <1>7, <1>13 DEF Notify
  <2>2. said' \subseteq Orders \X Notices
    BY <1>13, Working DEF Notify, NotifiesSomething, OrdersTypeOK
  <2> QED
    BY <1>13, <2>1, <2>2 DEF Notify, OrdersTypeOK, Jobs
<1>14. CASE Update
  <2>1. job' \in Jobs \cup {NoJob} /\ job \in Jobs
    BY <1>7, <1>14, Working DEF Update
  <2>2. job.order \in Orders /\ job.status \in Statuses \cup {"none"}
        /\ monitor[job.order] \in Row
    BY <2>1 DEF Jobs, OrdersTypeOK, Row
  <2>3. [last |-> job.status, flags |-> monitor[job.order].flags \cup ({job.notice} \cap Notices),
         synced |-> monitor[job.order].synced] \in Row
    BY <2>2 DEF Row
  <2>4. monitor' \in [Orders -> Row]
    BY <1>14, <2>2, <2>3 DEF Update, OrdersTypeOK, Row
  <2> QED
    BY <1>14, <2>1, <2>4 DEF Update, OrdersTypeOK, Jobs, Row
<1>15. CASE Crash
  <2>1. crashes' \in 0..MaxCrashes
    BY <1>15 DEF Crash, OrdersTypeOK
  <2> QED
    BY <1>15, <1>a, <2>1 DEF Crash, OrdersTypeOK
<1>16. CASE UNCHANGED orderVars
  BY <1>16 DEF orderVars, OrdersTypeOK
<1> QED
  BY <1>1, <1>2, <1>3, <1>4, <1>5, <1>8, <1>9, <1>10, <1>11, <1>12, <1>13, <1>14, <1>15, <1>16, <1>17
     DEF OrdersNext, JobStep
----------------------------------------------------------------------------
Writing == {"save", "write", "mark"}

\* What the bot does besides writing rows and marking them.
LEMMA Harmless ==
  ASSUME OrderInv, UNCHANGED <<table, theirs, lost>>,
         \A o \in Orders : monitor'[o].synced = monitor[o].synced,
         job'.step \notin Writing \/ (job' = job /\ copy' = copy)
  PROVE  Written'
BY DEF OrderInv, Written, MarkedHasRow, CopyIsComplete, TheirsIsOlder, SyncedWereWritten, Writing

LEMMA WrittenNext == OrderInv /\ [OrdersNext]_orderVars => Written'
<1> SUFFICES ASSUME OrderInv, [OrdersNext]_orderVars PROVE Written'
  OBVIOUS
<1> USE DEF theirSide, Writing
<1>0. OrdersTypeOK /\ Written
  BY DEF OrderInv
<1>1. ASSUME NEW o \in Orders, ShopMoves(o) PROVE Written'
  BY <1>1, Harmless DEF ShopMoves
<1>2. ASSUME NEW o \in Orders, Submit(o) \/ Resync(o) PROVE Written'
  <2>1. job'.step \notin Writing
    BY <1>2 DEF Submit, Resync, NoJob
  <2> QED
    BY <1>2, <2>1, Harmless DEF Submit, Resync
<1>13. ASSUME NEW o \in Orders, Scan(o) PROVE Written'
  <2>1. PICK n : job' = [step |-> IF n = "none" THEN "update" ELSE "notify", order |-> o,
                         status |-> table[o], notice |-> n]
    BY <1>13 DEF Scan, After
  <2>2. job'.step \notin Writing
    BY <2>1
  <2> QED
    BY <1>13, <2>2, Harmless DEF Scan
<1>3. CASE TheyLoad
  BY <1>0, <1>3 DEF TheyLoad, Written, MarkedHasRow, CopyIsComplete, TheirsIsOlder, SyncedWereWritten
<1>4. CASE TheySave
  <2>1. \A o \in Orders : table'[o] = IF theirs[o] = "none" THEN "none" ELSE shop[o]
    BY <1>4 DEF TheySave
  <2>2. \A o \in Orders : table[o] # "none" => table'[o] # "none" \/ o \in lost'
    <3>1. \A o \in Orders : shop[o] # "none"
      BY <1>0 DEF OrdersTypeOK, Statuses
    <3> QED
      BY <1>4, <2>1, <3>1 DEF TheySave
  <2>3. lost \subseteq lost' /\ UNCHANGED <<copy, monitor, job>> /\ theirs' = NoRows
    BY <1>4 DEF TheySave
  <2>4. MarkedHasRow'
    BY <1>0, <2>2, <2>3, Working DEF Written, MarkedHasRow
  <2>5. CopyIsComplete'
    BY <1>0, <2>1, <2>3 DEF Written, CopyIsComplete, TheirsIsOlder
  <2>6. TheirsIsOlder'
    BY <2>3 DEF TheirsIsOlder, NoRows
  <2>7. SyncedWereWritten'
    BY <1>0, <2>2, <2>3 DEF Written, SyncedWereWritten
  <2> QED
    BY <2>4, <2>5, <2>6, <2>7 DEF Written
<1>5. CASE Register
  <2>1. job'.step \notin Writing
    <3>1. job \in Jobs
      BY <1>0, <1>5, Working DEF Register
    <3>2. Goto("load") => job'.step = "load"
      BY <3>1 DEF Goto, Jobs
    <3>3. job' = NoJob \/ Goto("load")
      BY <1>5 DEF Register
    <3> QED
      BY <3>2, <3>3 DEF NoJob
  <2>2. \A o \in Orders : monitor'[o].synced = monitor[o].synced
    <3>1. monitor' = monitor \/ monitor' = [monitor EXCEPT ![job.order].last = ""]
      BY <1>5 DEF Register
    <3>2. monitor \in [Orders -> Row]
      BY <1>0 DEF OrdersTypeOK, Row
    <3>3. CASE monitor' = [monitor EXCEPT ![job.order].last = ""]
      <4>1. \A o \in Orders : monitor[o] \in Row /\ [monitor[o] EXCEPT !.last = ""].synced = monitor[o].synced
        BY <3>2 DEF Row
      <4>2. \A o \in Orders : monitor'[o] = IF o = job.order THEN [monitor[o] EXCEPT !.last = ""] ELSE monitor[o]
        BY <3>2, <3>3
      <4> QED
        BY <4>1, <4>2
    <3> QED
      BY <3>1, <3>3
  <2> QED
    BY <1>5, <2>1, <2>2, Harmless DEF Register
<1>6. CASE Load
  <2>a. CASE torn
    <3>1. job'.step = "idle"
      BY <1>6, <2>a DEF Load, AfterFailure, NoJob
    <3> QED
      BY <1>6, <3>1, Harmless DEF Load
  <2>b. CASE ~ torn
    <3>1. job' = [job EXCEPT !.step = IF table[job.order] = "none" THEN "save" ELSE "mark"]
      BY <1>6, <2>b DEF Load, Goto
    <3>2. job'.step = (IF table[job.order] = "none" THEN "save" ELSE "mark") /\ job'.order = job.order
      BY <1>0, <1>6, <3>1, Working DEF Load, Jobs
    <3>3. table[job.order] = "none" => copy' = table
      BY <1>6, <2>b DEF Load
    <3>4. MarkedHasRow' /\ CopyIsComplete'
      BY <1>6, <3>2, <3>3 DEF Load, MarkedHasRow, CopyIsComplete
    <3> QED
      BY <1>0, <1>6, <3>4 DEF Load, Written, TheirsIsOlder, SyncedWereWritten
  <2> QED
    BY <2>a, <2>b
<1>14. CASE BeginSave
  <2>1. job'.step = "write" /\ job'.order = job.order
    BY <1>0, <1>14, Working DEF BeginSave, Goto, Jobs
  <2>2. job.step = "save" /\ UNCHANGED <<table, copy, theirs, lost, monitor>>
    BY <1>14 DEF BeginSave
  <2> QED
    BY <1>0, <2>1, <2>2 DEF Written, MarkedHasRow, CopyIsComplete, TheirsIsOlder, SyncedWereWritten
<1>7. CASE EndSave
  <2>1. job.order \in Orders /\ job'.step = "mark" /\ job'.order = job.order
    BY <1>0, <1>7, Working DEF EndSave, Goto, Jobs
  <2>2. copy \in Tables /\ table' = [copy EXCEPT ![job.order] = ""]
    BY <1>0, <1>7 DEF EndSave, OrdersTypeOK
  <2>3. table'[job.order] # "none" /\ \A o \in Orders : table[o] # "none" => table'[o] # "none"
    BY <1>0, <1>7, <2>1, <2>2 DEF EndSave, Written, CopyIsComplete, Tables
  <2>4. UNCHANGED <<theirs, lost, monitor>>
    BY <1>7 DEF EndSave
  <2> QED
    BY <1>0, <2>1, <2>3, <2>4 DEF Written, MarkedHasRow, CopyIsComplete, TheirsIsOlder, SyncedWereWritten
<1>8. CASE MarkSynced
  <2>1. job.order \in Orders /\ job'.step = "idle"
    BY <1>0, <1>8, Working DEF MarkSynced, NoJob
  <2>2. \A o \in Orders : monitor'[o].synced => monitor[o].synced \/ o = job.order
    BY <1>0, <1>8 DEF MarkSynced, OrdersTypeOK
  <2>3. table[job.order] # "none" \/ job.order \in lost
    BY <1>0, <1>8 DEF MarkSynced, Written, MarkedHasRow
  <2> QED
    BY <1>0, <1>8, <2>1, <2>2, <2>3
       DEF MarkSynced, Written, MarkedHasRow, CopyIsComplete, TheirsIsOlder, SyncedWereWritten
<1>9. CASE Notify
  <2>1. job'.step \notin Writing
    BY <1>0, <1>9, Working DEF Notify, Proceed, After, NoJob, Jobs
  <2> QED
    BY <1>9, <2>1, Harmless DEF Notify
<1>10. CASE Update
  <2>0. job \in Jobs /\ job.order \in Orders
    BY <1>0, <1>10, Working DEF Update
  <2>1. job'.step \notin Writing
    <3>1. job' = NoJob \/ Proceed("update")
      BY <1>10 DEF Update
    <3>2. After["update"] = "idle" /\ NoJob.step = "idle"
      BY DEF After, NoJob
    <3> QED
      BY <3>1, <3>2 DEF Proceed
  <2>2. \A o \in Orders : monitor'[o].synced = monitor[o].synced
    BY <1>0, <1>10, <2>0 DEF Update, OrdersTypeOK
  <2> QED
    BY <1>10, <2>1, <2>2, Harmless DEF Update
<1>11. CASE FileFails \/ Crash
  <2>1. job'.step = "idle"
    BY <1>11 DEF FileFails, Crash, AfterFailure, NoJob
  <2> QED
    BY <1>11, <2>1, Harmless DEF FileFails, Crash
<1>12. CASE UNCHANGED orderVars
  BY <1>12, Harmless DEF orderVars
<1> QED
  BY <1>1, <1>2, <1>3, <1>4, <1>5, <1>6, <1>7, <1>8, <1>9, <1>10, <1>11, <1>12, <1>13, <1>14
     DEF OrdersNext, JobStep

LEMMA NoticeNext == OrdersTypeOK /\ NotifiesSomething /\ [OrdersNext]_orderVars => NotifiesSomething'
<1> SUFFICES ASSUME OrdersTypeOK, NotifiesSomething, [OrdersNext]_orderVars, job'.step = "notify"
             PROVE  job'.notice \in Notices
  BY DEF NotifiesSomething
<1>1. ASSUME NEW o \in Orders, Scan(o) PROVE job'.notice \in Notices
  <2>1. Branch(table[o], monitor[o].flags) \in Notices \cup {"none"}
    BY DEF Branch, Notices
  <2> QED
    BY <1>1, <2>1 DEF Scan
<1>2. ASSUME NEW o \in Orders, Submit(o) \/ Resync(o) \/ ShopMoves(o) PROVE job'.notice \in Notices
  BY <1>2 DEF Submit, Resync, ShopMoves, NotifiesSomething, NoJob
<1>3. CASE Register \/ Load \/ BeginSave \/ EndSave
  <2>1. job \in Jobs
    BY <1>3, Working DEF Register, Load, BeginSave, EndSave
  <2> QED
    <3>1. CASE job' = NoJob
      BY <3>1 DEF NoJob
    <3>2. ASSUME NEW l \in {"load", "save", "write", "mark"}, Goto(l) PROVE FALSE
      BY <2>1, <3>2 DEF Goto, Jobs
    <3> QED
      BY <1>3, <3>1, <3>2 DEF Register, Load, AfterFailure, BeginSave, EndSave
<1>4. CASE Notify \/ Update
  <2>1. After["notify"] = "update" /\ After["update"] = "idle" /\ NoJob.step = "idle"
    BY DEF After, NoJob
  <2>2. job \in Jobs
    BY <1>4, Working DEF Notify, Update
  <2> QED
    BY <1>4, <2>1, <2>2 DEF Notify, Update, Proceed, Jobs
<1>5. CASE MarkSynced \/ FileFails \/ Crash
  BY <1>5 DEF MarkSynced, FileFails, Crash, AfterFailure, NoJob
<1>6. CASE TheyLoad \/ TheySave \/ UNCHANGED orderVars
  BY <1>6 DEF TheyLoad, TheySave, orderVars, NotifiesSomething
<1> QED
  BY <1>1, <1>2, <1>3, <1>4, <1>5, <1>6 DEF OrdersNext, JobStep

LEMMA OrderNext == OrderInv /\ [OrdersNext]_orderVars => OrderInv'
BY OrdersTypeNext, NoticeNext, WrittenNext DEF OrderInv
----------------------------------------------------------------------------
\* The rows of the orders, the table and its copies keep their types.
THEOREM OrdersTypeCorrect == OrdersSpec => []OrdersTypeOK
<1>1. OrderInv => OrdersTypeOK
  BY DEF OrderInv
<1> QED
  BY <1>1, OrderInit, OrderNext, PTL DEF OrdersSpec

\* mark_order_xlsx_synced runs after append_order_row has returned only, and
\* the bot's save, although nothing locks the file, drops no row: in a file that
\* is not torn, every row that reads synchronised is there, unless a save of the
\* other program dropped it.
THEOREM SyncedRowsAreWritten == OrdersSpec => []SyncedMeansWritten
<1>1. OrderInv => SyncedMeansWritten
  BY DEF OrderInv, Written, SyncedWereWritten, SyncedMeansWritten
<1> QED
  BY <1>1, OrderInit, OrderNext, PTL DEF OrdersSpec
=============================================================================
