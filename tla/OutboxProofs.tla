---------------------------- MODULE OutboxProofs ----------------------------
(***************************************************************************)
(* Proofs about Outbox, for any rows of any kinds, any portion of flush    *)
(* and any number of mishaps.  A row owes the chat at most one text: the   *)
(* one that somebody holds, or that the row itself may still cause; only a *)
(* mishap makes it owe another one.                                        *)
(***************************************************************************)
EXTENDS Outbox, TLAPS

Job == [by : {"call", "flush"}, key : Keys, step : {"record", "send", "sent", "raised"}]

\* A text that is on its way to the sender.
Busy(k) == job.key = k /\ (job.step = "send" \/ (job.step = "record" /\ job.by = "call"))
Hand(k) == k \in queue \/ Busy(k)

\* The running method will mark the row, or has no more to do with it.
Over(k) == job.key = k /\ (job.step = "sent" \/ (job.step = "raised" /\ GivesUp))

\* The row can be created, or claimed.
Waits(k) == status[k] = "absent" \/ (status[k] \in Live /\ ~Hand(k) /\ ~Over(k))

Owed(k) == (IF Hand(k) THEN 1 ELSE 0) + (IF Waits(k) THEN 1 ELSE 0)

Causes(k) == 1 + mishaps["crash"]
               + (IF KindOf[k] = "reply" THEN mishaps["unanswered"] ELSE 0)
               + (IF KindOf[k] = "remind" THEN mishaps["cleared"] ELSE 0)

Budget == \A k \in Keys : delivered[k] + Owed(k) <= Causes(k)

\* Which rows the running method and the queue are about.
Places ==
  /\ \A k \in queue : status[k] \in {"CLAIMED", "absent"}
  /\ job # NoJob => job.key \notin queue
  /\ job.by = "call" => /\ queue = {} /\ status[job.key] \in {"PENDING", "absent"}
                        /\ job.step = "record" => KindOf[job.key] \in {"reply", "agent"}
  /\ job.by = "flush" => /\ job.step \in {"send", "sent"} => status[job.key] \in {"CLAIMED", "absent"}
                         /\ job.step = "record" => status[job.key] \in {"SENT", "absent"}
                         /\ job.step = "raised" => status[job.key] # "PENDING"
  /\ mishaps["cleared"] = 0 =>
       /\ \A k \in queue : status[k] # "absent"
       /\ job # NoJob => status[job.key] # "absent"

\* What was delivered is marked SENT, or about to be, unless a mishap came.
Undisturbed ==
  mishaps["crash"] + mishaps["unanswered"] + mishaps["unrecorded"] + mishaps["cleared"] = 0

Told ==
  /\ \A k \in Keys : status[k] = "SENT" => delivered[k] > 0
  /\ job.step = "sent" => delivered[job.key] > 0
  /\ Undisturbed =>
       /\ \A k \in Keys : delivered[k] > 0 => status[k] = "SENT" \/ (job.step = "sent" /\ job.key = k)
       /\ job.step = "raised" => status[job.key] # "SENT"

\* Before the first crash no reminder is left to flush.
Reminders ==
  mishaps["crash"] = 0 =>
    /\ placeheld = {}
    /\ \A k \in Keys : KindOf[k] = "remind" =>
         /\ k \notin queue
         /\ job.key = k => job.by # "flush"
         /\ status[k] \in Live => job # NoJob /\ job.key = k

OutboxInv == TypeOK /\ Places /\ Budget /\ Told /\ Reminders
----------------------------------------------------------------------------
LEMMA OutboxInit == Init => OutboxInv
<1> SUFFICES ASSUME Init PROVE OutboxInv
  OBVIOUS
<1>1. /\ status = [k \in Keys |-> "absent"] /\ delivered = [k \in Keys |-> 0]
      /\ mishaps = [x \in Mishaps |-> 0] /\ job = NoJob /\ queue = {} /\ old = {}
      /\ transcript = {} /\ placeheld = {}
  BY DEF Init
<1>2. job.step = "idle" /\ job.by = "none"
  BY <1>1 DEF NoJob
<1>3. \A x \in Mishaps : mishaps[x] = 0 /\ Allowed[x] \in Nat
  BY <1>1, OutboxConstants
<1>4. TypeOK
  BY <1>1, <1>3 DEF TypeOK
<1>5. Budget
  BY <1>1, <1>2, <1>3 DEF Budget, Owed, Hand, Busy, Waits, Causes, Mishaps
<1> QED
  BY <1>1, <1>2, <1>4, <1>5 DEF OutboxInv, Places, Told, Undisturbed, Reminders, Live

\* A method that is running is about one of the rows.
LEMMA Running ==
  ASSUME TypeOK, job # NoJob
  PROVE  job \in Job /\ job.key \in Keys
BY DEF TypeOK, Job

LEMMA Happened ==
  ASSUME TypeOK, NEW x \in Mishaps, Happens(x)
  PROVE  /\ mishaps' \in [Mishaps -> Nat] /\ \A y \in Mishaps : mishaps'[y] <= Allowed[y]
         /\ \A y \in Mishaps : mishaps[y] \in Nat
         /\ \A y \in Mishaps : mishaps'[y] = IF y = x THEN mishaps[y] + 1 ELSE mishaps[y]
<1>1. mishaps \in [Mishaps -> Nat] /\ \A y \in Mishaps : mishaps[y] <= Allowed[y] /\ Allowed[y] \in Nat
  BY OutboxConstants DEF TypeOK
<1>2. mishaps[x] < Allowed[x] /\ mishaps' = [mishaps EXCEPT ![x] = mishaps[x] + 1]
  BY DEF Happens
<1> QED
  BY <1>1, <1>2

LEMMA MishapNames == {"crash", "refused", "unanswered", "cleared", "unrecorded"} = Mishaps
BY DEF Mishaps
----------------------------------------------------------------------------
LEMMA TypeNext == TypeOK /\ [Next]_vars => TypeOK'
<1> SUFFICES ASSUME TypeOK, [Next]_vars PROVE TypeOK'
  OBVIOUS
<1>0. \A x \in Mishaps : mishaps[x] \in Nat /\ mishaps[x] <= Allowed[x]
  BY DEF TypeOK
<1>1. ASSUME NEW k \in Keys, Call(k) PROVE TypeOK'
  <2>1. status' \in [Keys -> {"absent"} \cup Live \cup Settled] /\ transcript' \subseteq Keys
        /\ old' \subseteq {l \in Keys : status'[l] = "CLAIMED"}
    BY <1>1 DEF Call, IsNew, TypeOK, Live
  <2>2. job' \in {NoJob} \cup Job
    BY <1>1 DEF Call, FirstStep, TypeOK, Job
  <2> QED
    BY <1>1, <2>1, <2>2 DEF Call, TypeOK, Job
<1>2. ASSUME NEW s \in {"send", "sent", "record", "raised"}, job # NoJob, Goto(s)
      PROVE  job' \in Job
  BY <1>2, Running DEF Goto, Job
<1>3. ASSUME NEW k \in Keys, NEW s \in Settled, Mark(k, s)
      PROVE  /\ status' \in [Keys -> {"absent"} \cup Live \cup Settled]
             /\ old' \subseteq {l \in Keys : status'[l] = "CLAIMED"}
  BY <1>3 DEF Mark, TypeOK
<1>4. CASE Record
  <2>1. job # NoJob
    BY <1>4 DEF Record, NoJob
  <2>2. job' \in {NoJob} \cup Job /\ transcript' \subseteq Keys
    BY <1>2, <1>4, <2>1, Running DEF Record, TypeOK
  <2> QED
    BY <1>4, <2>2 DEF Record, TypeOK, Job
<1>5. CASE RecordRaises
  <2>1. job # NoJob
    BY <1>5 DEF RecordRaises, NoJob
  <2>2. job' \in {NoJob} \cup Job
    BY <1>2, <1>5, <2>1 DEF RecordRaises
  <2>3. mishaps' \in [Mishaps -> Nat] /\ \A y \in Mishaps : mishaps'[y] <= Allowed[y]
    BY <1>5, Happened, MishapNames DEF RecordRaises
  <2> QED
    BY <1>5, <2>2, <2>3 DEF RecordRaises, TypeOK, Job
<1>6. CASE Send
  <2>1. job # NoJob
    BY <1>6 DEF Send, NoJob
  <2>2. job' \in Job
    BY <1>2, <1>6, <2>1 DEF Send
  <2>3. mishaps' \in [Mishaps -> Nat] /\ \A y \in Mishaps : mishaps'[y] <= Allowed[y]
    <3>1. UNCHANGED mishaps \/ Happens("unanswered") \/ Happens("refused")
      BY <1>6 DEF Send
    <3> QED
      BY <3>1, Happened, MishapNames DEF TypeOK
  <2>4. delivered' \in [Keys -> Nat] /\ placeheld' \subseteq Keys
    <3>1. Deliver(job.key) \/ UNCHANGED <<delivered, placeheld>>
      BY <1>6 DEF Send
    <3> QED
      BY <2>1, <3>1, Running DEF Deliver, TypeOK
  <2> QED
    BY <1>6, <2>2, <2>3, <2>4 DEF Send, TypeOK, Job
<1>7. CASE MarkSent
  <2>1. job # NoJob
    BY <1>7 DEF MarkSent, NoJob
  <2>2. job' \in {NoJob} \cup Job
    BY <1>2, <1>7, <2>1 DEF MarkSent
  <2>3. /\ status' \in [Keys -> {"absent"} \cup Live \cup Settled]
        /\ old' \subseteq {l \in Keys : status'[l] = "CLAIMED"}
    BY <1>3, <1>7, <2>1, Running DEF MarkSent, Settled
  <2> QED
    BY <1>7, <2>2, <2>3 DEF MarkSent, TypeOK, Job
<1>8. CASE MarkFailed
  <2>1. job # NoJob
    BY <1>8 DEF MarkFailed, NoJob
  <2>2. /\ status' \in [Keys -> {"absent"} \cup Live \cup Settled]
        /\ old' \subseteq {l \in Keys : status'[l] = "CLAIMED"}
    <3>1. Mark(job.key, "FAILED") \/ UNCHANGED <<status, old>>
      BY <1>8 DEF MarkFailed
    <3> QED
      BY <1>3, <2>1, <3>1, Running DEF Settled, TypeOK
  <2> QED
    BY <1>8, <2>2 DEF MarkFailed, TypeOK
<1>9. CASE Claim
  <2>1. PICK claimed \in SUBSET ({k \in Keys : status[k] = "PENDING"} \cup Revived) :
          /\ queue' = claimed
          /\ status' = [k \in Keys |->
               IF k \in claimed THEN "CLAIMED"
               ELSE IF k \in {l \in Keys : status[l] = "PENDING"} \cup Revived THEN "PENDING"
               ELSE status[k]]
    BY <1>9 DEF Claim
  <2>2. status' \in [Keys -> {"absent"} \cup Live \cup Settled] /\ queue' \subseteq Keys
    BY <2>1 DEF TypeOK, Live, Revived
  <2>3. old' = {}
    BY <1>9 DEF Claim, Revived
  <2> QED
    BY <1>9, <2>2, <2>3 DEF Claim, TypeOK
<1>10. ASSUME NEW k \in Keys, TakeUp(k) PROVE TypeOK'
  BY <1>10 DEF TakeUp, TypeOK
<1>11. ASSUME NEW k \in Keys, GrowOld(k) PROVE TypeOK'
  BY <1>11 DEF GrowOld, TypeOK
<1>12. ASSUME NEW k \in Keys, Clear(k) PROVE TypeOK'
  <2>1. mishaps' \in [Mishaps -> Nat] /\ \A y \in Mishaps : mishaps'[y] <= Allowed[y]
    BY <1>12, Happened, MishapNames DEF Clear
  <2>2. /\ status' \in [Keys -> {"absent"} \cup Live \cup Settled]
        /\ old' \subseteq {l \in Keys : status'[l] = "CLAIMED"}
    BY <1>12 DEF Clear, TypeOK
  <2> QED
    BY <1>12, <2>1, <2>2 DEF Clear, TypeOK
<1>13. CASE Crash
  <2>1. mishaps' \in [Mishaps -> Nat] /\ \A y \in Mishaps : mishaps'[y] <= Allowed[y]
    BY <1>13, Happened, MishapNames DEF Crash
  <2> QED
    BY <1>13, <2>1 DEF Crash, TypeOK
<1>14. CASE UNCHANGED vars
  BY <1>14 DEF vars, TypeOK
<1> QED
  BY <1>1, <1>4, <1>5, <1>6, <1>7, <1>8, <1>9, <1>10, <1>11, <1>12, <1>13, <1>14 DEF Next, JobStep
----------------------------------------------------------------------------
(* How the steps look from outside.                                        *)

LEMMA Gone ==
  ASSUME TypeOK, job # NoJob, NEW s, Goto(s)
  PROVE  job'.by = job.by /\ job'.key = job.key /\ job'.step = s
BY Running DEF Goto, Job

LEMMA Idling ==
  /\ NoJob.by = "none" /\ NoJob.step = "idle"
  /\ TypeOK => (job = NoJob <=> job.step = "idle") /\ (job = NoJob <=> job.by = "none")
BY DEF NoJob, TypeOK

\* Mark changes the row of its key, if it is there, and no other.
LEMMA Marked ==
  ASSUME TypeOK, NEW k \in Keys, NEW s, Mark(k, s)
  PROVE  /\ \A l \in Keys : l # k => status'[l] = status[l]
         /\ status'[k] = IF status[k] = "absent" THEN "absent" ELSE s
BY DEF Mark, TypeOK

LEMMA CallForms ==
  ASSUME TypeOK, NEW k \in Keys, Call(k)
  PROVE  /\ job = NoJob /\ queue = {} /\ UNCHANGED <<queue, delivered, placeheld, mishaps>>
         /\ \/ /\ status[k] = "absent" /\ status'[k] = "PENDING"
               /\ \A l \in Keys : l # k => status'[l] = status[l]
               /\ \/ KindOf[k] = "exec" /\ job' = NoJob
                  \/ /\ job'.by = "call" /\ job'.key = k /\ job' # NoJob
                     /\ job'.step = FirstStep(k)
            \/ UNCHANGED <<status, job>>
<1>1. CASE IsNew(k) /\ KindOf[k] = "exec"
  BY <1>1 DEF Call, Idle, IsNew, TypeOK
<1>2. CASE IsNew(k) /\ KindOf[k] # "exec"
  <2>1. job' = [by |-> "call", key |-> k, step |-> FirstStep(k)]
    BY <1>2 DEF Call
  <2>2. job'.by = "call" /\ job'.key = k /\ job' # NoJob /\ job'.step = FirstStep(k)
    BY <2>1 DEF NoJob
  <2> QED
    BY <1>2, <2>2 DEF Call, Idle, IsNew, TypeOK
<1>3. CASE ~IsNew(k)
  BY <1>3 DEF Call, Idle
<1> QED
  BY <1>1, <1>2, <1>3

LEMMA ClaimForms ==
  ASSUME TypeOK, Claim
  PROVE  /\ job = NoJob /\ queue = {} /\ UNCHANGED <<job, delivered, placeheld, mishaps>>
         /\ \A k \in Keys :
              /\ k \in queue' => status'[k] = "CLAIMED" /\ status[k] \in Live
              /\ k \notin queue' => status'[k] = status[k] \/ {status'[k], status[k]} \subseteq Live
<1>1. PICK claimed \in SUBSET ({k \in Keys : status[k] = "PENDING"} \cup old) :
        /\ queue' = claimed
        /\ status' = [k \in Keys |->
             IF k \in claimed THEN "CLAIMED"
             ELSE IF k \in {l \in Keys : status[l] = "PENDING"} \cup old THEN "PENDING"
             ELSE status[k]]
  BY DEF Claim, Revived
<1>2. \A k \in {l \in Keys : status[l] = "PENDING"} \cup old : k \in Keys /\ status[k] \in Live
  BY DEF TypeOK, Live
<1> QED
  BY <1>1, <1>2 DEF Claim, Idle, Live

LEMMA SendForms ==
  ASSUME TypeOK, Send
  PROVE  /\ job # NoJob /\ job.key \in Keys /\ job'.by = job.by /\ job'.key = job.key
         /\ job.step = "send" /\ UNCHANGED <<status, queue>>
         /\ \/ job'.step = "sent" /\ Deliver(job.key) /\ UNCHANGED mishaps
            \/ job'.step = "raised" /\ Deliver(job.key) /\ Happens("unanswered")
            \/ job'.step = "raised" /\ Happens("refused") /\ UNCHANGED <<delivered, placeheld>>
<1>1. job # NoJob /\ job.key \in Keys
  BY Idling, Running DEF Send
<1> QED
  BY <1>1, Gone DEF Send
----------------------------------------------------------------------------
\* Which row is where.
LEMMA PlacesNext == TypeOK /\ Places /\ [Next]_vars => Places'
<1> SUFFICES ASSUME TypeOK, Places, [Next]_vars PROVE Places'
  OBVIOUS
<1>0. queue \subseteq Keys /\ TypeOK'
  BY TypeNext DEF TypeOK
<1>1. ASSUME NEW k \in Keys, Call(k) PROVE Places'
  BY <1>1, CallForms, Idling DEF Places, FirstStep
<1>2. CASE Record
  <2>1. job # NoJob /\ job.key \in Keys
    BY <1>2, Idling, Running DEF Record
  <2>2. CASE job.by = "call"
    <3>1. job'.by = "call" /\ job'.key = job.key /\ job'.step = "send" /\ job' # NoJob
      BY <1>2, <2>1, <2>2, Gone, Idling DEF Record
    <3> QED
      BY <1>2, <2>1, <2>2, <3>1 DEF Record, Places
  <2>3. CASE job.by # "call"
    BY <1>2, <2>3, Idling DEF Record, Places
  <2> QED
    BY <2>2, <2>3
<1>3. CASE RecordRaises
  <2>1. job # NoJob /\ job.key \in Keys
    BY <1>3, Idling, Running DEF RecordRaises
  <2>2. mishaps'["cleared"] = mishaps["cleared"]
    BY <1>3, Happened, MishapNames DEF RecordRaises
  <2>3. CASE job.by = "flush"
    <3>1. job'.by = "flush" /\ job'.key = job.key /\ job'.step = "raised" /\ job' # NoJob
      BY <1>3, <2>1, <2>3, Gone, Idling DEF RecordRaises
    <3> QED
      BY <1>3, <2>1, <2>2, <2>3, <3>1 DEF RecordRaises, Places
  <2>4. CASE job.by # "flush"
    BY <1>3, <2>2, <2>4, Idling DEF RecordRaises, Places
  <2> QED
    BY <2>3, <2>4
<1>4. CASE Send
  <2>1. mishaps'["cleared"] = mishaps["cleared"]
    BY <1>4, SendForms, Happened, MishapNames
  <2>2. job' # NoJob
    BY <1>4, SendForms, Idling
  <2> QED
    BY <1>4, <2>1, <2>2, SendForms DEF Places
<1>5. CASE MarkSent
  <2>1. job # NoJob /\ job.key \in Keys
    BY <1>5, Idling, Running DEF MarkSent
  <2>2. /\ \A l \in Keys : l # job.key => status'[l] = status[l]
        /\ status'[job.key] = IF status[job.key] = "absent" THEN "absent" ELSE "SENT"
    BY <1>5, <2>1, Marked DEF MarkSent
  <2>3. CASE job.by = "flush"
    <3>1. job'.by = "flush" /\ job'.key = job.key /\ job'.step = "record" /\ job' # NoJob
      BY <1>5, <2>1, <2>3, Gone, Idling DEF MarkSent
    <3> QED
      BY <1>0, <1>5, <2>1, <2>2, <2>3, <3>1 DEF MarkSent, Places
  <2>4. CASE job.by # "flush"
    BY <1>0, <1>5, <2>1, <2>2, <2>4, Idling DEF MarkSent, Places
  <2> QED
    BY <2>3, <2>4
<1>6. CASE MarkFailed
  <2>1. job # NoJob /\ job.key \in Keys /\ job' = NoJob /\ UNCHANGED <<queue, mishaps>>
    BY <1>6, Idling, Running DEF MarkFailed
  <2>2. \A l \in Keys : l # job.key => status'[l] = status[l]
    BY <1>6, <2>1, Marked DEF MarkFailed
  <2> QED
    BY <1>0, <2>1, <2>2, Idling DEF Places
<1>7. CASE Claim
  <2>1. queue' \subseteq Keys
    BY <1>0 DEF TypeOK
  <2> QED
    BY <1>7, <2>1, ClaimForms, Idling DEF Places
<1>8. ASSUME NEW k \in Keys, TakeUp(k) PROVE Places'
  <2>1. job'.by = "flush" /\ job'.key = k /\ job'.step = "send" /\ job' # NoJob
    BY <1>8, Idling DEF TakeUp
  <2> QED
    BY <1>8, <2>1 DEF TakeUp, Places
<1>9. ASSUME NEW k \in Keys, Clear(k) PROVE Places'
  <2>1. mishaps'["cleared"] # 0
    BY <1>9, Happened, MishapNames DEF Clear
  <2>2. \A l \in Keys : status'[l] = IF l = k THEN "absent" ELSE status[l]
    BY <1>9 DEF Clear, TypeOK
  <2>3. job # NoJob => job.key \in Keys
    BY Running
  <2> QED
    BY <1>0, <1>9, <2>1, <2>2, <2>3, Idling DEF Clear, Places
<1>10. CASE Crash
  <2>1. mishaps'["cleared"] = mishaps["cleared"]
    BY <1>10, Happened, MishapNames DEF Crash
  <2> QED
    BY <1>10, <2>1, Idling DEF Crash, Places
<1>11. ASSUME UNCHANGED <<status, job, queue, mishaps>> PROVE Places'
  BY <1>11 DEF Places
<1>12. (\E k \in Keys : GrowOld(k)) \/ UNCHANGED vars => Places'
  BY <1>11 DEF GrowOld, vars
<1> QED
  BY <1>1, <1>2, <1>3, <1>4, <1>5, <1>6, <1>7, <1>8, <1>9, <1>10, <1>12 DEF Next, JobStep
----------------------------------------------------------------------------
\* A row whose text, holder and stage stay the same owes what it owed.
LEMMA Steady ==
  ASSUME NEW k \in Keys, status'[k] = status[k] \/ {status'[k], status[k]} \subseteq Live,
         Hand(k)' <=> Hand(k), Over(k)' <=> Over(k)
  PROVE  Owed(k)' = Owed(k)
<1>1. Waits(k)' <=> Waits(k)
  BY DEF Waits, Live
<1> QED
  BY <1>1 DEF Owed

\* What the running method is not about stays as it is.
LEMMA Aside ==
  ASSUME TypeOK, NEW k \in Keys, job = NoJob \/ job.key # k, job' = NoJob \/ job'.key # k
  PROVE  /\ ~Busy(k) /\ ~Over(k) /\ ~Busy(k)' /\ ~Over(k)'
BY Idling DEF Busy, Over

LEMMA BudgetNext == TypeOK /\ Places /\ Budget /\ [Next]_vars => Budget'
<1> SUFFICES ASSUME TypeOK, Places, Budget, [Next]_vars, NEW k \in Keys
             PROVE  delivered'[k] + Owed(k)' <= Causes(k)'
  BY DEF Budget
<1>0. /\ delivered[k] + Owed(k) <= Causes(k) /\ delivered[k] \in Nat /\ Owed(k) \in 0..2
      /\ \A x \in Mishaps : mishaps[x] \in Nat
      /\ Causes(k) \in Nat
  <2>1. \A x \in Mishaps : mishaps[x] \in Nat
    BY DEF TypeOK
  <2> QED
    BY <2>1, MishapNames DEF Budget, TypeOK, Owed, Causes
<1>a. ASSUME delivered'[k] = delivered[k], mishaps' = mishaps, Owed(k)' = Owed(k)
      PROVE  delivered'[k] + Owed(k)' <= Causes(k)'
  BY <1>0, <1>a DEF Causes
<1>b. \A x \in Mishaps : Happens(x) => Causes(k)' >= Causes(k)
  BY <1>0, Happened, MishapNames DEF Causes
<1>1. ASSUME NEW l \in Keys, Call(l) PROVE delivered'[k] + Owed(k)' <= Causes(k)'
  <2>1. CASE UNCHANGED <<status, job>>
    BY <1>1, <1>a, <2>1, CallForms, Steady DEF Hand, Busy, Over, GivesUp
  <2>2. CASE ~UNCHANGED <<status, job>> /\ l # k
    <3>1. status'[k] = status[k] /\ ~Hand(k) /\ ~Hand(k)' /\ ~Over(k) /\ ~Over(k)'
      BY <1>1, <2>2, CallForms, Aside DEF Hand
    <3> QED
      BY <1>1, <1>a, <3>1, CallForms, Steady
  <2>3. CASE ~UNCHANGED <<status, job>> /\ l = k
    <3>1. /\ status[k] = "absent" /\ status'[k] = "PENDING" /\ ~Over(k)' /\ ~Hand(k)
      BY <1>1, <2>3, CallForms, Idling DEF Hand, Busy, Over, FirstStep
    <3>2. Owed(k) = 1 /\ Owed(k)' = 1
      BY <3>1 DEF Owed, Waits, Live
    <3> QED
      BY <1>1, <1>a, <3>2, CallForms
  <2> QED
    BY <2>1, <2>2, <2>3
<1>2. CASE Record
  <2>1. job # NoJob /\ job.key \in Keys /\ UNCHANGED <<status, queue, delivered, mishaps>>
    BY <1>2, Idling, Running DEF Record
  <2>2. CASE job.by = "call"
    <3>1. job'.by = "call" /\ job'.key = job.key /\ job'.step = "send" /\ job.step = "record"
      BY <1>2, <2>1, <2>2, Gone DEF Record
    <3> QED
      BY <1>a, <2>1, <2>2, <3>1, Steady DEF Hand, Busy, Over
  <2>3. CASE job.by # "call"
    <3>1. job' = NoJob /\ job.step = "record"
      BY <1>2, <2>3 DEF Record
    <3>2. ~Busy(k) /\ ~Over(k) /\ ~Busy(k)' /\ ~Over(k)'
      BY <2>3, <3>1, Idling DEF Busy, Over
    <3> QED
      BY <1>a, <2>1, <3>2, Steady DEF Hand
  <2> QED
    BY <2>2, <2>3
<1>3. CASE RecordRaises
  <2>1. /\ job # NoJob /\ job.key \in Keys /\ UNCHANGED <<status, queue, delivered>>
        /\ Causes(k)' >= Causes(k) /\ job.step = "record"
    BY <1>3, <1>b, MishapNames, Idling, Running DEF RecordRaises
  <2>2. Causes(k)' \in Nat
    BY <1>3, Happened, MishapNames DEF RecordRaises, Causes
  <2>3. Owed(k)' <= Owed(k)
    <3>1. CASE job.by = "flush"
      <4>1. job'.by = "flush" /\ job'.key = job.key /\ job'.step = "raised"
        BY <1>3, <2>1, <3>1, Gone DEF RecordRaises
      <4>2. status[job.key] \in {"SENT", "absent"}
        BY <2>1, <3>1 DEF Places
      <4>3. ~Busy(k) /\ ~Busy(k)' /\ (k # job.key => ~Over(k) /\ ~Over(k)')
        BY <2>1, <3>1, <4>1 DEF Busy, Over
      <4> QED
        BY <2>1, <4>2, <4>3 DEF Owed, Waits, Hand, Live
    <3>2. CASE job.by # "flush"
      <4>1. job' = NoJob /\ job.by = "call"
        BY <1>3, <2>1, <3>2, Running DEF RecordRaises, Job
      <4>2. status[job.key] \in {"PENDING", "absent"} /\ queue = {}
        BY <4>1 DEF Places
      <4>3. ~Busy(k)' /\ ~Over(k)' /\ ~Over(k) /\ (k = job.key <=> Busy(k))
        BY <2>1, <4>1, Idling DEF Busy, Over
      <4> QED
        BY <2>1, <4>2, <4>3 DEF Owed, Waits, Hand, Live
    <3> QED
      BY <3>1, <3>2
  <2>4. Owed(k)' \in 0..2
    BY DEF Owed
  <2> QED
    BY <1>0, <2>1, <2>2, <2>3, <2>4
<1>4. CASE Send
  <2>0. /\ job # NoJob /\ job.key \in Keys /\ job'.by = job.by /\ job'.key = job.key
        /\ job.step = "send" /\ UNCHANGED <<status, queue>> /\ job'.step \in {"sent", "raised"}
    BY <1>4, SendForms
  <2>1. mishaps' \in [Mishaps -> Nat] /\ Causes(k)' >= Causes(k) /\ Causes(k)' \in Nat
    <3>1. UNCHANGED mishaps \/ Happens("unanswered") \/ Happens("refused")
      BY <1>4, SendForms
    <3>2. mishaps' \in [Mishaps -> Nat]
      BY <3>1, Happened, MishapNames DEF TypeOK
    <3>3. Causes(k)' >= Causes(k)
      BY <1>0, <1>b, <3>1, MishapNames DEF Causes
    <3> QED
      BY <3>2, <3>3, MishapNames DEF Causes
  <2>2. CASE k # job.key
    <3>1. delivered'[k] = delivered[k]
      BY <1>4, <2>2, SendForms DEF Deliver, TypeOK
    <3>2. ~Busy(k) /\ ~Over(k) /\ ~Busy(k)' /\ ~Over(k)'
      BY <2>0, <2>2 DEF Busy, Over
    <3>3. Owed(k)' = Owed(k)
      BY <2>0, <3>2, Steady DEF Hand
    <3> QED
      BY <1>0, <2>1, <3>1, <3>3
  <2>3. CASE k = job.key
    <3>1. k \notin queue /\ status[k] \in {"PENDING", "CLAIMED", "absent"}
      <4>1. job.by \in {"call", "flush"}
        BY <2>0, Running DEF Job
      <4> QED
        BY <2>0, <2>3, <4>1 DEF Places
    <3>2. Hand(k) /\ ~Hand(k)'
      BY <2>0, <2>3, <3>1 DEF Hand, Busy
    <3>3. Owed(k) = IF status[k] = "absent" THEN 2 ELSE 1
      BY <3>2 DEF Owed, Waits
    <3>4. CASE delivered'[k] = delivered[k] + 1 /\ Over(k)'
      <4>1. Owed(k)' = IF status[k] = "absent" THEN 1 ELSE 0
        BY <2>0, <3>2, <3>4 DEF Owed, Waits
      <4> QED
        BY <1>0, <2>1, <3>3, <3>4, <4>1
    <3>5. CASE delivered'[k] = delivered[k]
      <4>1. Owed(k)' <= Owed(k) /\ Owed(k)' \in Nat
        BY <2>0, <3>2, <3>3 DEF Owed, Waits
      <4> QED
        BY <1>0, <2>1, <3>5, <4>1
    <3>6. CASE delivered'[k] = delivered[k] + 1 /\ ~Over(k)'
      <4>1. Happens("unanswered") /\ job'.step = "raised"
        BY <1>4, <2>0, <2>3, <3>6, SendForms DEF Over, Deliver, TypeOK
      <4>2. KindOf[k] = "reply" /\ Causes(k)' = Causes(k) + 1
        <5>1. KindOf[k] = "reply"
          BY <2>0, <2>3, <3>6, <4>1 DEF Over, GivesUp
        <5> QED
          BY <1>0, <4>1, <5>1, Happened, MishapNames DEF Causes
      <4>3. Owed(k)' <= Owed(k) /\ Owed(k)' \in Nat
        BY <2>0, <3>2, <3>3 DEF Owed, Waits
      <4> QED
        BY <1>0, <3>6, <4>2, <4>3
    <3>7. delivered'[k] \in {delivered[k], delivered[k] + 1}
      BY <1>0, <1>4, <2>3, SendForms DEF Deliver, TypeOK
    <3> QED
      BY <3>4, <3>5, <3>6, <3>7
  <2> QED
    BY <2>2, <2>3
<1>5. CASE MarkSent
  <2>1. job # NoJob /\ job.key \in Keys /\ job.step = "sent" /\ UNCHANGED <<queue, delivered, mishaps>>
    BY <1>5, Idling, Running DEF MarkSent
  <2>2. /\ \A l \in Keys : l # job.key => status'[l] = status[l]
        /\ status'[job.key] = IF status[job.key] = "absent" THEN "absent" ELSE "SENT"
    BY <1>5, <2>1, Marked DEF MarkSent
  <2>3. job' = NoJob \/ (job'.by = "flush" /\ job'.key = job.key /\ job'.step = "record")
    BY <1>5, <2>1, Gone DEF MarkSent
  <2>4. ~Busy(k) /\ ~Busy(k)' /\ ~Over(k)' /\ (Over(k) <=> k = job.key)
    BY <2>1, <2>3, Idling DEF Busy, Over
  <2>5. Owed(k)' = Owed(k)
    BY <2>1, <2>2, <2>4 DEF Owed, Waits, Hand, Live
  <2> QED
    BY <1>a, <2>1, <2>5
<1>6. CASE MarkFailed
  <2>1. job # NoJob /\ job.key \in Keys /\ job.step = "raised" /\ job' = NoJob
        /\ UNCHANGED <<queue, delivered, mishaps>>
    BY <1>6, Idling, Running DEF MarkFailed
  <2>2. ~Busy(k) /\ ~Busy(k)' /\ ~Over(k)' /\ (Over(k) <=> k = job.key /\ GivesUp)
    BY <2>1, Idling DEF Busy, Over
  <2>3. Owed(k)' = Owed(k)
    <3>1. CASE GivesUp
      <4>1. /\ \A l \in Keys : l # job.key => status'[l] = status[l]
            /\ status'[job.key] = IF status[job.key] = "absent" THEN "absent" ELSE "FAILED"
        BY <1>6, <2>1, <3>1, Marked DEF MarkFailed
      <4> QED
        BY <2>1, <2>2, <3>1, <4>1 DEF Owed, Waits, Hand, Live
    <3>2. CASE ~GivesUp
      BY <1>6, <2>1, <2>2, <3>2 DEF MarkFailed, Owed, Waits, Hand
    <3> QED
      BY <3>1, <3>2
  <2> QED
    BY <1>a, <2>1, <2>3
<1>7. CASE Claim
  <2>1. ~Busy(k) /\ ~Busy(k)' /\ ~Over(k) /\ ~Over(k)' /\ queue = {}
    BY <1>7, ClaimForms, Idling DEF Busy, Over
  <2>2. Owed(k)' = Owed(k)
    BY <1>7, <2>1, ClaimForms DEF Owed, Waits, Hand, Live
  <2> QED
    BY <1>7, <1>a, <2>2, ClaimForms
<1>8. ASSUME NEW l \in Keys, TakeUp(l) PROVE delivered'[k] + Owed(k)' <= Causes(k)'
  <2>1. /\ job = NoJob /\ l \in queue /\ queue' = queue \ {l} /\ UNCHANGED <<status, delivered, mishaps>>
        /\ job'.by = "flush" /\ job'.key = l /\ job'.step = "send"
    BY <1>8 DEF TakeUp
  <2>2. (Hand(k)' <=> Hand(k)) /\ ~Over(k) /\ ~Over(k)'
    BY <2>1, Idling DEF Hand, Busy, Over
  <2> QED
    BY <1>a, <2>1, <2>2, Steady
<1>9. ASSUME NEW l \in Keys, Clear(l) PROVE delivered'[k] + Owed(k)' <= Causes(k)'
  <2>1. /\ KindOf[l] = "remind" /\ status[l] # "absent" /\ Happens("cleared")
        /\ UNCHANGED <<job, queue, delivered>>
        /\ \A j \in Keys : status'[j] = IF j = l THEN "absent" ELSE status[j]
    BY <1>9 DEF Clear, TypeOK
  <2>2. (Hand(k)' <=> Hand(k)) /\ (Over(k)' <=> Over(k))
    BY <2>1 DEF Hand, Busy, Over, GivesUp
  <2>3. CASE k # l
    <3>1. Owed(k)' = Owed(k) /\ Causes(k)' >= Causes(k)
      BY <1>b, <2>1, <2>2, <2>3, Steady, MishapNames
    <3>2. Causes(k)' \in Nat
      BY <2>1, Happened, MishapNames DEF Causes
    <3> QED
      BY <1>0, <2>1, <3>1, <3>2
  <2>4. CASE k = l
    <3>1. Causes(k)' = Causes(k) + 1
      BY <1>0, <2>1, <2>4, Happened, MishapNames DEF Causes
    <3>2. Owed(k)' <= Owed(k) + 1 /\ Owed(k)' \in Nat
      BY <2>1, <2>2, <2>4 DEF Owed, Waits
    <3> QED
      BY <1>0, <2>1, <3>1, <3>2
  <2> QED
    BY <2>3, <2>4
<1>10. CASE Crash
  <2>1. Happens("crash") /\ job' = NoJob /\ queue' = {} /\ UNCHANGED <<status, delivered>>
    BY <1>10 DEF Crash
  <2>2. Causes(k)' = Causes(k) + 1
    BY <1>0, <2>1, Happened, MishapNames DEF Causes
  <2>3. ~Hand(k)'
    BY <2>1, Idling DEF Hand, Busy
  <2>4. Owed(k)' <= Owed(k) + 1 /\ Owed(k)' \in Nat
    BY <2>1, <2>3 DEF Owed, Waits
  <2> QED
    BY <1>0, <2>1, <2>2, <2>4
<1>11. ASSUME UNCHANGED <<status, job, queue, delivered, mishaps>>
       PROVE  delivered'[k] + Owed(k)' <= Causes(k)'
  BY <1>11, <1>a, Steady DEF Hand, Busy, Over, GivesUp
<1>12. (\E l \in Keys : GrowOld(l)) \/ UNCHANGED vars => delivered'[k] + Owed(k)' <= Causes(k)'
  BY <1>11 DEF GrowOld, vars
<1> QED
  BY <1>1, <1>2, <1>3, <1>4, <1>5, <1>6, <1>7, <1>8, <1>9, <1>10, <1>12 DEF Next, JobStep
----------------------------------------------------------------------------
\* A mishap may end the undisturbed time and never brings it back.
LEMMA Disturbed ==
  ASSUME TypeOK, NEW x \in Mishaps, Happens(x)
  PROVE  /\ Undisturbed' => Undisturbed /\ x = "refused"
         /\ mishaps'["crash"] = 0 => mishaps["crash"] = 0 /\ x # "crash"
         /\ mishaps'["cleared"] = 0 => mishaps["cleared"] = 0 /\ x # "cleared"
BY Happened, MishapNames DEF Undisturbed, Mishaps

\* What the rows say is what was delivered.
LEMMA ToldNext == TypeOK /\ Places /\ Told /\ [Next]_vars => Told'
<1> SUFFICES ASSUME TypeOK, Places, Told, [Next]_vars PROVE Told'
  OBVIOUS
<1>0. \A k \in Keys : delivered[k] \in Nat
  BY DEF TypeOK
<1>a. Undisturbed => mishaps["cleared"] = 0
  <2>1. \A x \in Mishaps : mishaps[x] \in Nat
    BY DEF TypeOK
  <2> QED
    BY <2>1, MishapNames DEF Undisturbed
<1>1. ASSUME NEW k \in Keys, Call(k) PROVE Told'
  <2>1. Undisturbed' => Undisturbed
    BY <1>1, CallForms DEF Undisturbed
  <2> QED
    BY <1>1, <2>1, CallForms, Idling DEF Told, FirstStep
<1>2. CASE Record
  <2>1. job # NoJob /\ UNCHANGED <<status, delivered, mishaps>> /\ job.step = "record"
    BY <1>2, Idling DEF Record
  <2>2. job' = NoJob \/ job'.step = "send"
    BY <1>2, <2>1, Gone DEF Record
  <2>3. job'.step \notin {"sent", "raised"} /\ (Undisturbed' => Undisturbed)
    BY <2>1, <2>2, Idling DEF Undisturbed
  <2> QED
    BY <2>1, <2>3 DEF Told
<1>3. CASE RecordRaises
  <2>1. job # NoJob /\ UNCHANGED <<status, delivered>> /\ job.step = "record" /\ ~Undisturbed'
    BY <1>3, Disturbed, MishapNames, Idling DEF RecordRaises
  <2>2. job' = NoJob \/ job'.step = "raised"
    BY <1>3, <2>1, Gone DEF RecordRaises
  <2> QED
    BY <2>1, <2>2, Idling DEF Told
<1>4. CASE Send
  <2>1. /\ job # NoJob /\ job.key \in Keys /\ job'.key = job.key /\ job.step = "send"
        /\ status' = status /\ job'.step \in {"sent", "raised"} /\ job.by \in {"call", "flush"}
    BY <1>4, SendForms, Running DEF Job
  <2>2. \A k \in Keys : delivered'[k] >= delivered[k] /\ delivered'[k] \in Nat
                        /\ (k # job.key => delivered'[k] = delivered[k])
    BY <1>0, <1>4, <2>1, SendForms DEF Deliver, TypeOK
  <2>3. /\ Undisturbed' => Undisturbed
        /\ job'.step = "sent" => delivered'[job.key] > 0
        /\ Undisturbed' /\ job'.step = "raised" => delivered' = delivered
    <3>1. CASE UNCHANGED mishaps /\ job'.step = "sent" /\ Deliver(job.key)
      BY <1>0, <2>1, <3>1 DEF Undisturbed, Deliver, TypeOK
    <3>2. CASE job'.step = "raised" /\ Happens("unanswered")
      BY <3>2, Disturbed, MishapNames
    <3>3. CASE job'.step = "raised" /\ Happens("refused") /\ UNCHANGED delivered
      BY <3>3, Disturbed, MishapNames
    <3> QED
      BY <1>4, <3>1, <3>2, <3>3, SendForms
  <2>4. status[job.key] # "SENT"
    BY <2>1 DEF Places
  <2> QED
    BY <1>0, <2>1, <2>2, <2>3, <2>4 DEF Told
<1>5. CASE MarkSent
  <2>1. job # NoJob /\ job.key \in Keys /\ job.step = "sent" /\ UNCHANGED <<delivered, mishaps>>
    BY <1>5, Idling, Running DEF MarkSent
  <2>2. /\ \A l \in Keys : l # job.key => status'[l] = status[l]
        /\ status'[job.key] = IF status[job.key] = "absent" THEN "absent" ELSE "SENT"
    BY <1>5, <2>1, Marked DEF MarkSent
  <2>3. job' = NoJob \/ job'.step = "record"
    BY <1>5, <2>1, Gone DEF MarkSent
  <2>4. job'.step \notin {"sent", "raised"} /\ (Undisturbed' => Undisturbed)
    BY <2>1, <2>3, Idling DEF Undisturbed
  <2>5. Undisturbed => status'[job.key] = "SENT"
    BY <1>a, <2>1, <2>2 DEF Places
  <2> QED
    BY <2>1, <2>2, <2>4, <2>5 DEF Told
<1>6. CASE MarkFailed
  <2>1. job # NoJob /\ job.key \in Keys /\ job.step = "raised" /\ job' = NoJob
        /\ UNCHANGED <<delivered, mishaps>> /\ (Undisturbed' => Undisturbed)
    BY <1>6, Idling, Running DEF MarkFailed, Undisturbed
  <2>2. \A l \in Keys : l # job.key => status'[l] = status[l]
    BY <1>6, <2>1, Marked DEF MarkFailed
  <2>3. status'[job.key] \in {status[job.key], "FAILED"}
    <3>1. Mark(job.key, "FAILED") \/ status' = status
      BY <1>6 DEF MarkFailed
    <3> QED
      BY <2>1, <3>1, Marked
  <2> QED
    BY <2>1, <2>2, <2>3, Idling DEF Told
<1>7. CASE Claim
  <2>1. /\ job' = job /\ job = NoJob /\ delivered' = delivered /\ mishaps' = mishaps
        /\ \A k \in Keys : status'[k] = "SENT" <=> status[k] = "SENT"
    BY <1>7, ClaimForms DEF Live
  <2> QED
    BY <2>1, Idling DEF Told, Undisturbed
<1>8. ASSUME NEW k \in Keys, TakeUp(k) PROVE Told'
  <2>1. job'.step = "send" /\ job.step = "idle" /\ UNCHANGED <<status, delivered, mishaps>>
    BY <1>8, Idling DEF TakeUp
  <2> QED
    BY <2>1 DEF Told, Undisturbed
<1>9. ASSUME NEW k \in Keys, Clear(k) PROVE Told'
  <2>1. /\ UNCHANGED <<job, delivered>> /\ ~Undisturbed'
        /\ \A l \in Keys : status'[l] = IF l = k THEN "absent" ELSE status[l]
    BY <1>9, Disturbed, MishapNames DEF Clear, TypeOK
  <2> QED
    BY <2>1 DEF Told
<1>10. CASE Crash
  <2>1. job' = NoJob /\ UNCHANGED <<status, delivered>> /\ ~Undisturbed'
    BY <1>10, Disturbed, MishapNames DEF Crash
  <2> QED
    BY <2>1, Idling DEF Told
<1>11. (\E k \in Keys : GrowOld(k)) \/ UNCHANGED vars => Told'
  BY DEF GrowOld, vars, Told, Undisturbed
<1> QED
  BY <1>1, <1>2, <1>3, <1>4, <1>5, <1>6, <1>7, <1>8, <1>9, <1>10, <1>11 DEF Next, JobStep

\* No reminder waits for flush before the first crash.
LEMMA RemindersNext == TypeOK /\ Places /\ Reminders /\ [Next]_vars => Reminders'
<1> SUFFICES ASSUME TypeOK, Places, Reminders, [Next]_vars, mishaps'["crash"] = 0
             PROVE  /\ placeheld' = {}
                    /\ \A k \in Keys : KindOf[k] = "remind" =>
                         /\ k \notin queue'
                         /\ job'.key = k => job'.by # "flush"
                         /\ status'[k] \in Live => job' # NoJob /\ job'.key = k
  BY DEF Reminders
<1> DEFINE Fits == /\ placeheld' = {}
                   /\ \A k \in Keys : KindOf[k] = "remind" =>
                        /\ k \notin queue'
                        /\ job'.key = k => job'.by # "flush"
                        /\ status'[k] \in Live => job' # NoJob /\ job'.key = k
<1>0. /\ mishaps["crash"] = 0 /\ ~Crash /\ placeheld = {}
      /\ \A k \in Keys : KindOf[k] = "remind" =>
           /\ k \notin queue
           /\ job.key = k => job.by # "flush"
           /\ status[k] \in Live => job # NoJob /\ job.key = k
  <2>1. UNCHANGED mishaps \/ \E x \in Mishaps : Happens(x) /\ (Crash => Happens("crash"))
    BY MishapNames DEF Next, JobStep, Call, TakeUp, GrowOld, Clear, Record, Send, MarkSent,
                       MarkFailed, RecordRaises, Claim, Crash, vars
  <2>2. mishaps["crash"] = 0
    BY <2>1, Disturbed
  <2>3. ~Crash
    BY Disturbed, MishapNames DEF Crash
  <2> QED
    BY <2>2, <2>3 DEF Reminders
<1>1. ASSUME NEW k \in Keys, Call(k) PROVE Fits
  BY <1>0, <1>1, CallForms, Idling
<1>2. CASE Record
  <2>1. job # NoJob /\ job.key \in Keys /\ UNCHANGED <<status, queue, placeheld>>
        /\ job.by \in {"call", "flush"} /\ job.step = "record"
    BY <1>2, Idling, Running DEF Record, Job
  <2>2. KindOf[job.key] # "remind"
    BY <1>0, <2>1 DEF Places
  <2>3. job' = NoJob \/ (job'.by = job.by /\ job'.key = job.key /\ job' # NoJob)
    BY <1>2, <2>1, Gone, Idling DEF Record
  <2> QED
    BY <1>0, <2>1, <2>2, <2>3, Idling
<1>3. CASE RecordRaises
  <2>1. job # NoJob /\ job.key \in Keys /\ UNCHANGED <<status, queue, placeheld>>
        /\ job.by \in {"call", "flush"} /\ job.step = "record"
    BY <1>3, Idling, Running DEF RecordRaises, Job
  <2>2. KindOf[job.key] # "remind"
    BY <1>0, <2>1 DEF Places
  <2>3. job' = NoJob \/ (job'.by = job.by /\ job'.key = job.key /\ job' # NoJob)
    BY <1>3, <2>1, Gone, Idling DEF RecordRaises
  <2> QED
    BY <1>0, <2>1, <2>2, <2>3, Idling
<1>4. CASE Send
  <2>1. /\ job # NoJob /\ job.key \in Keys /\ job'.by = job.by /\ job'.key = job.key
        /\ UNCHANGED <<status, queue>> /\ job' # NoJob /\ job.by \in {"call", "flush"}
    BY <1>4, SendForms, Idling, Running DEF Job
  <2>2. HasOwnText(job.key)
    BY <1>0, <2>1 DEF HasOwnText
  <2>3. placeheld' = placeheld
    BY <1>4, <2>2, SendForms DEF Deliver
  <2> QED
    BY <1>0, <2>1, <2>3
<1>5. CASE MarkSent
  <2>1. job # NoJob /\ job.key \in Keys /\ job.step = "sent" /\ UNCHANGED <<queue, placeheld>>
    BY <1>5, Idling, Running DEF MarkSent
  <2>2. /\ \A l \in Keys : l # job.key => status'[l] = status[l]
        /\ status'[job.key] = IF status[job.key] = "absent" THEN "absent" ELSE "SENT"
    BY <1>5, <2>1, Marked DEF MarkSent
  <2>3. job' = NoJob \/ (job'.by = job.by /\ job'.key = job.key)
    BY <1>5, <2>1, Gone DEF MarkSent
  <2> QED
    BY <1>0, <2>1, <2>2, <2>3, Idling DEF Live
<1>6. CASE MarkFailed
  <2>1. job # NoJob /\ job.key \in Keys /\ job' = NoJob /\ UNCHANGED <<queue, placeheld>>
    BY <1>6, Idling, Running DEF MarkFailed
  <2>2. \A l \in Keys : l # job.key => status'[l] = status[l]
    BY <1>6, <2>1, Marked DEF MarkFailed
  <2>3. KindOf[job.key] = "remind" => status'[job.key] \notin Live
    BY <1>6, <2>1, Marked DEF MarkFailed, GivesUp, Live
  <2> QED
    BY <1>0, <2>1, <2>2, <2>3, Idling
<1>7. CASE Claim
  <2>1. /\ UNCHANGED <<job, placeheld>> /\ job = NoJob
        /\ \A k \in Keys : /\ k \in queue' => status[k] \in Live
                           /\ status'[k] \in Live => status[k] \in Live
    BY <1>7, ClaimForms DEF Live
  <2>2. \A k \in Keys : KindOf[k] = "remind" => status[k] \notin Live
    BY <1>0, <2>1
  <2>3. job'.by # "flush"
    BY <2>1, Idling
  <2> QED
    BY <1>0, <2>1, <2>2, <2>3
<1>8. ASSUME NEW k \in Keys, TakeUp(k) PROVE Fits
  <2>1. /\ job = NoJob /\ k \in queue /\ queue' \subseteq queue /\ UNCHANGED <<status, placeheld>>
        /\ job'.key = k
    BY <1>8 DEF TakeUp
  <2> QED
    BY <1>0, <2>1
<1>9. ASSUME NEW k \in Keys, Clear(k) PROVE Fits
  BY <1>0, <1>9 DEF Clear, TypeOK, Live
<1>10. (\E k \in Keys : GrowOld(k)) \/ UNCHANGED vars => Fits
  BY <1>0 DEF GrowOld, vars
<1> QED
  BY <1>0, <1>1, <1>2, <1>3, <1>4, <1>5, <1>6, <1>7, <1>8, <1>9, <1>10 DEF Next, JobStep
----------------------------------------------------------------------------
LEMMA OutboxNext == OutboxInv /\ [Next]_vars => OutboxInv'
BY TypeNext, PlacesNext, BudgetNext, ToldNext, RemindersNext DEF OutboxInv

LEMMA OutboxAlways == Spec => []OutboxInv
BY OutboxInit, OutboxNext, PTL DEF Spec

\* Every row has a known status, the old rows are claimed ones, and the method
\* that runs is at one of its steps.
THEOREM TypeCorrect == Spec => []TypeOK
<1>1. OutboxInv => TypeOK
  BY DEF OutboxInv
<1> QED
  BY <1>1, OutboxAlways, PTL

\* However often methods are called, rows flushed and claims revived: the group
\* reads a text again only after a crash, a sending without an answer or a
\* reopening that cleared the reminder, and only once for each.
THEOREM NothingIsRepeated == Spec => []NoNeedlessRepeat
<1>1. OutboxInv => NoNeedlessRepeat
  <2> SUFFICES ASSUME OutboxInv, NEW k \in Keys PROVE delivered[k] <= Causes(k)
    BY DEF NoNeedlessRepeat, Causes
  <2>1. delivered[k] + Owed(k) <= Causes(k) /\ Owed(k) \in 0..2 /\ delivered[k] \in Nat
    BY DEF OutboxInv, Budget, Owed, TypeOK
  <2>2. Causes(k) \in Nat
    <3>1. \A x \in Mishaps : mishaps[x] \in Nat
      BY DEF OutboxInv, TypeOK
    <3> QED
      BY <3>1, MishapNames DEF Causes
  <2> QED
    BY <2>1, <2>2
<1> QED
  BY <1>1, OutboxAlways, PTL

\* What the table says of a message is what the group has read: SENT was read,
\* without a mishap FAILED and PENDING were not, and before the first crash no
\* placeholder takes the place of a reminder.
THEOREM RowsTellWhatWasSaid == Spec => []RowsTellDelivery
<1>1. OutboxInv => RowsTellDelivery
  <2> SUFFICES ASSUME OutboxInv PROVE RowsTellDelivery
    OBVIOUS
  <2>1. StatusTellsDelivery
    <3> SUFFICES ASSUME NEW k \in Keys
                 PROVE  /\ status[k] = "SENT" => delivered[k] > 0
                        /\ /\ status[k] = "FAILED" \/ (status[k] \in Live /\ job.key # k)
                           /\ Undisturbed
                           => delivered[k] = 0
      BY DEF StatusTellsDelivery, Undisturbed
    <3>1. delivered[k] \in Nat
      BY DEF OutboxInv, TypeOK
    <3>2. CASE status[k] = "FAILED" /\ Undisturbed
      <4>1. job.step = "sent" /\ job.key = k => status[k] # "FAILED"
        BY Running, Idling DEF OutboxInv, Places, Job
      <4> QED
        BY <3>1, <3>2, <4>1 DEF OutboxInv, Told
    <3>3. CASE status[k] \in Live /\ job.key # k /\ Undisturbed
      BY <3>1, <3>3 DEF OutboxInv, Told, Live
    <3> QED
      BY <3>2, <3>3 DEF OutboxInv, Told
  <2>2. OwnWords
    BY DEF OutboxInv, Reminders, OwnWords
  <2> QED
    BY <2>1, <2>2 DEF RowsTellDelivery
<1> QED
  BY <1>1, OutboxAlways, PTL
=============================================================================
