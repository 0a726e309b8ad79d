------------------------ MODULE MessageProcessingProofs ------------------------
(***************************************************************************)
(* Proofs about MessageProcessing, for any number of messages, any batch   *)
(* limit, any number of attempts and of mishaps, and whatever replies.     *)
(*                                                                         *)
(* The argument is one of tokens.  A request may still be executed as long *)
(* as something owes its execution: a row that is not settled, a question  *)
(* that waits, or the job of a reply.  A step hands a token on, loses it   *)
(* or turns it into an effect; only a crash or an error that cuts a job    *)
(* short makes a new one, for the message of the job.  What a job may do   *)
(* depends on its step, so most of the rest says what is true there.       *)
(***************************************************************************)
EXTENDS MessageProcessing, FiniteSetTheorems, SequenceTheorems, TLAPS

Row == {"unsent"} \cup Unsettled \cup Settled

Question == [origin : Messages, shown : Nat, from : Nat,
             status : PendingStatuses, corrected : BOOLEAN]

Effect == [by : Messages, origin : Messages, shown : Nat, at : Nat]

Applied == {e \in executions : e.status = "APPLIED"}

-----------------------------------------------------------------------------
(* Rows, tasks and the job.                                                *)

\* A row that is not dead has attempts left, and a task that waits for its
\* claim has a row that may be claimed.
RowsAreLive ==
  /\ \A m \in Messages : row[m] # "DEAD_LETTER" => attempts[m] < MaxAttempts
  /\ \A m \in Messages : pc[m] = "created" => m \in Due
  /\ \A m \in Messages : pc[m] = "processing" =>
       row[m] = "PROCESSING" \/ (job.step = "reply" /\ job.msg = m)

\* The job that runs is that of a claimed message; a reply concerns a
\* question that is there; its first step finds it waiting, the second does not.
JobFits ==
  \/ job = NoJob
  \/ /\ job.step # "idle"
     /\ job.msg \in Messages /\ job.origin \in Messages
     /\ pc[job.msg] = "processing"
     /\ row[job.msg] = IF job.step = "reply" THEN "COMPLETED" ELSE "PROCESSING"
     /\ job.pending = 0 => job.origin = job.msg
     /\ job.step \in {"confirm", "decline"} =>
          /\ job.pending \in DOMAIN pendings
          /\ pendings[job.pending].status = "WAITING"
          /\ job.origin = pendings[job.pending].origin
     /\ job.step = "execute" /\ job.pending # 0 => pendings[job.pending].status # "WAITING"

\* Only what has been executed reads EXECUTED; a step before has no result.
JobResult ==
  /\ job.step \in {"confirm", "decline", "supersede", "create"} => job.result # "EXECUTED"
  /\ job.result = "EXECUTED" => Effects(job.msg) # {}

Working == RowsAreLive /\ JobFits /\ JobResult

-----------------------------------------------------------------------------
(* The ledger.                                                             *)

\* A confirmation is on record only when its question is settled, so no other
\* reply finds the record; a direct record has the effect of its message.
RecordsFit ==
  /\ IsFiniteSet(executions)
  /\ \A e \in executions :
       /\ e.key[1] = "confirm" =>
            /\ e.key[2] \in DOMAIN pendings
            /\ pendings[e.key[2]].status # "WAITING"
       /\ e.key[1] = "direct" /\ e.status = "APPLIED" => Effects(e.key[2]) # {}
  /\ job.step = "execute" /\ job.pending # 0 => \A e \in executions : e.key # Key

ResultsFit == \A m \in Messages : result[m] = "EXECUTED" => Effects(m) # {}

-----------------------------------------------------------------------------
(* Where a request is.                                                     *)

Number(b) == IF b THEN 1 ELSE 0

\* Message m will be handled, maybe again, unless it is handled already.
RowOwes(m) == row[m] \notin Settled /\ ~(job.msg = m /\ job.step = "complete")

\* A member has been asked about the request of m.
QuestionsOf(m) == {p \in Waiting : pendings[p].origin = m}

\* The member has answered, and the request of m goes on.
JobOwes(m) ==
  job.origin = m /\ job.pending # 0 /\ job.step \in {"execute", "supersede", "create"}

Owed(m) == Cardinality(QuestionsOf(m)) + Number(RowOwes(m)) + Number(JobOwes(m))

\* What is done and what may still be done is one for every request, and one
\* more for every time that a job of its message was cut short.
TokensPaidFor ==
  \A m \in Messages : Cardinality(EffectsFor(m)) + Owed(m) <= 1 + cut[m]

\* An effect belongs to a message whose row says so, or is about to, or whose
\* job was cut short.
EffectsShow ==
  \A i \in DOMAIN applied : LET m == applied[i].by IN
    \/ cut[m] > 0
    \/ row[m] = "COMPLETED" /\ result[m] = "EXECUTED"
    \/ job.msg = m /\ job.step = "complete" /\ job.result = "EXECUTED"

\* A confirmed question is on record, asked again, or on its way to either.
ConfirmedIsUnderWay ==
  \A p \in DOMAIN pendings :
    pendings[p].status = "CONFIRMED" /\ ~pendings[p].corrected =>
      \/ \E e \in executions : e.key = <<"confirm", p>>
      \/ \E q \in DOMAIN pendings : pendings[q].from = p
      \/ /\ job.pending = p
         /\ \/ job.step = "execute" /\ job.redraft
            \/ job.step \in {"supersede", "create"}

-----------------------------------------------------------------------------
(* Who is before whom.                                                     *)

\* Message m is settled, or has failed once and comes back when it may.
Passed(m) == row[m] \in Settled \/ attempts[m] > 0

EndedArePassed ==
  \A m \in Messages : row[m] = "RETRY_PENDING" \/ pc[m] = "ended" => Passed(m)

\* When message k is there, so are all before it that do not come late; those
\* that have no task when k has one, and all when k acts, have passed.
EarlierArePassed ==
  \A k \in Messages : \A m \in (1..(k - 1)) \ LateComers :
    /\ row[k] # "unsent" => row[m] # "unsent"
    /\ pc[k] \in {"created", "processing"} /\ pc[m] = "none" => Passed(m)
    /\ job.msg = k \/ Effects(k) # {} => Passed(m)

InTurn == ProcessingHasTask /\ EndedArePassed /\ EarlierArePassed

-----------------------------------------------------------------------------
Inv ==
  /\ TypeOK /\ Working
  /\ RecordsFit /\ LedgerCountsEffects /\ ResultsFit
  /\ ConfirmedActionIsCurrent
  /\ TokensPaidFor
  /\ InTurn /\ OvertakenOnesWereLate
  /\ EffectsShow
  /\ Undisturbed => ConfirmedIsUnderWay

-----------------------------------------------------------------------------
(* Facts about the data.                                                   *)

Jobs == [step : Steps, msg : 0..M, pending : Nat, origin : 0..M, shown : Nat,
         redraft : BOOLEAN, result : Results]

\* The type invariant, with the names of this module.
LEMMA Types ==
  TypeOK <=>
    /\ row \in [Messages -> Row]
    /\ attempts \in [Messages -> 0..MaxAttempts]
    /\ ready \subseteq {m \in Messages : row[m] = "RETRY_PENDING"}
    /\ result \in [Messages -> Results]
    /\ pendings \in Seq(Question)
    /\ executions \subseteq [key : Keys, status : ExecutionStatuses]
    /\ version \in Nat
    /\ pc \in [Messages -> {"none", "created", "processing", "ended"}]
    /\ job \in Jobs /\ job.pending <= Len(pendings)
    /\ applied \in Seq(Effect)
    /\ mishaps \in Nat /\ cut \in [Messages -> Nat]
<1>1. ASSUME pendings \in Seq(Question)
      PROVE  job \in [step : Steps, msg : 0..M, pending : 0..Len(pendings), origin : 0..M,
                      shown : Nat, redraft : BOOLEAN, result : Results]
             <=> job \in Jobs /\ job.pending <= Len(pendings)
  <2>1. Len(pendings) \in Nat
    BY <1>1, LenProperties
  <2> QED
    BY <2>1 DEF Jobs
<1> QED
  BY <1>1 DEF TypeOK, Row, Question, Effect

\* Positions of the questions and of the effects.
LEMMA Indices ==
  ASSUME TypeOK
  PROVE  /\ Len(pendings) \in Nat /\ DOMAIN pendings = 1..Len(pendings)
         /\ Len(applied) \in Nat /\ DOMAIN applied = 1..Len(applied)
         /\ \A p \in DOMAIN pendings : pendings[p] \in Question
         /\ \A i \in DOMAIN applied : applied[i] \in Effect
<1>1. pendings \in Seq(Question) /\ applied \in Seq(Effect)
  BY Types
<1> QED
  BY <1>1, LenProperties, ElementOfSeq

LEMMA NoJobType == NoJob \in Jobs /\ NoJob.step = "idle" /\ NoJob.pending = 0
                   /\ NoJob.result = "none" /\ NoJob.msg = 0
<1>1. 0 \in 0..M
  BY MessageConstants
<1> QED
  BY <1>1 DEF NoJob, Jobs, Steps, Results

\* The next step of a job, and the result that it will report.
LEMMA JobMoves ==
  ASSUME job \in Jobs, NEW s \in Steps, NEW r \in Results,
         job' = [job EXCEPT !.step = s, !.result = r] \/ (r = job.result /\ Goto(s))
  PROVE  /\ job' \in Jobs
         /\ job'.step = s /\ job'.result = r
         /\ job'.msg = job.msg /\ job'.pending = job.pending /\ job'.origin = job.origin
         /\ job'.shown = job.shown /\ job'.redraft = job.redraft
BY DEF Jobs, Goto

-----------------------------------------------------------------------------
(* What a step may do to the questions.                                    *)

\* Questions that waited are settled, and nothing else changes.
Retagged ==
  /\ pendings' \in Seq(Question) /\ Len(pendings') = Len(pendings)
  /\ \A p \in DOMAIN pendings :
       /\ pendings'[p].origin = pendings[p].origin
       /\ pendings'[p].from = pendings[p].from
       /\ pendings[p].status # "WAITING" => pendings'[p] = pendings[p]
  /\ Waiting' \subseteq Waiting

\* A new question waits.
Added(q) ==
  /\ pendings' \in Seq(Question) /\ Len(pendings') = Len(pendings) + 1
  /\ \A p \in DOMAIN pendings : pendings'[p] = pendings[p]
  /\ pendings'[Len(pendings')] = q

LEMMA SettleOne ==
  ASSUME TypeOK, NEW p \in Waiting, NEW s \in PendingStatuses \ {"WAITING"}, NEW c \in BOOLEAN,
         pendings' = [pendings EXCEPT ![p] = [pendings[p] EXCEPT !.status = s, !.corrected = c]]
  PROVE  /\ Retagged
         /\ pendings'[p].status = s /\ pendings'[p].corrected = c
         /\ \A q \in DOMAIN pendings : q # p => pendings'[q] = pendings[q]
<1> DEFINE n == [pendings[p] EXCEPT !.status = s, !.corrected = c]
<1>1. pendings \in Seq(Question) /\ DOMAIN pendings = 1..Len(pendings) /\ p \in 1..Len(pendings)
  BY Types, Indices DEF Waiting
<1>2. pendings[p] \in Question /\ pendings[p].status = "WAITING"
  BY Indices DEF Waiting
<1>3. n \in Question /\ n.status = s /\ n.corrected = c
      /\ n.origin = pendings[p].origin /\ n.from = pendings[p].from
  BY <1>2 DEF Question
<1>4. /\ pendings' \in Seq(Question) /\ Len(pendings') = Len(pendings)
      /\ \A q \in 1..Len(pendings) : pendings'[q] = IF q = p THEN n ELSE pendings[q]
  BY <1>1, <1>3, ExceptSeq
<1>5. DOMAIN pendings' = DOMAIN pendings
  BY <1>1, <1>4, LenProperties
<1> QED
  BY <1>1, <1>2, <1>3, <1>4, <1>5 DEF Retagged, Waiting

\* resolve_pending settles the question that the job answers.
LEMMA ResolveSettles ==
  ASSUME TypeOK, JobFits, Resolve
  PROVE  /\ Retagged
         /\ pendings'[job.pending].status = IF job.step = "confirm" THEN "CONFIRMED" ELSE "REJECTED"
         /\ pendings'[job.pending].corrected = (job.step = "confirm" /\ ~job.redraft)
         /\ \A q \in DOMAIN pendings : q # job.pending => pendings'[q] = pendings[q]
         /\ job.pending \in Waiting
<1> DEFINE p == job.pending
           s == IF job.step = "confirm" THEN "CONFIRMED" ELSE "REJECTED"
           c == job.step = "confirm" /\ ~job.redraft
<1>1. p \in Waiting
  BY NoJobType DEF Resolve, JobFits, Waiting
<1>2. pendings' = [pendings EXCEPT ![p] = [pendings[p] EXCEPT !.status = s, !.corrected = c]]
  <2>1. pendings' = [[pendings EXCEPT ![p] = [pendings[p] EXCEPT !.status = s]]
                      EXCEPT ![p] = [[pendings[p] EXCEPT !.status = s] EXCEPT !.corrected = c]]
    BY <1>1 DEF Resolve, Waiting
  <2> QED
    BY <2>1
<1>3. s \in PendingStatuses \ {"WAITING"} /\ c \in BOOLEAN
  BY DEF PendingStatuses
<1> HIDE DEF p, s, c
<1>4. Retagged /\ pendings'[p].status = s /\ pendings'[p].corrected = c
      /\ \A q \in DOMAIN pendings : q # p => pendings'[q] = pendings[q]
  BY <1>1, <1>2, <1>3, SettleOne
<1> QED
  BY <1>1, <1>4 DEF p, s, c

LEMMA ExpireSettles ==
  ASSUME TypeOK, NEW p \in DOMAIN pendings, Expire(p)
  PROVE  /\ Retagged
         /\ pendings'[p].status = "EXPIRED"
         /\ \A q \in DOMAIN pendings : q # p => pendings'[q] = pendings[q]
<1>1. p \in Waiting /\ pendings[p] \in Question
  BY Indices DEF Expire
<1>2. pendings' = [pendings EXCEPT ![p] = [pendings[p] EXCEPT !.status = "EXPIRED"]]
  BY <1>1 DEF Expire, Waiting
<1>3. [pendings[p] EXCEPT !.status = "EXPIRED"]
        = [pendings[p] EXCEPT !.status = "EXPIRED", !.corrected = pendings[p].corrected]
  BY <1>1 DEF Question
<1>4. pendings[p].corrected \in BOOLEAN /\ "EXPIRED" \in PendingStatuses \ {"WAITING"}
  BY <1>1 DEF Question, PendingStatuses
<1> QED
  BY <1>1, <1>2, <1>3, <1>4, SettleOne

LEMMA SupersedeSettles ==
  ASSUME TypeOK, Supersede
  PROVE  /\ Retagged /\ Waiting' = {}
         /\ \A p \in DOMAIN pendings :
              pendings'[p].status \in {pendings[p].status, "SUPERSEDED"}
<1> DEFINE new(p) == IF p \in Waiting THEN [pendings[p] EXCEPT !.status = "SUPERSEDED"]
                     ELSE pendings[p]
<1>1. pendings \in Seq(Question) /\ DOMAIN pendings = 1..Len(pendings) /\ Len(pendings) \in Nat
  BY Types, Indices
<1>2. pendings' = [p \in 1..Len(pendings) |-> new(p)]
  BY <1>1 DEF Supersede
<1>3. ASSUME NEW p \in 1..Len(pendings)
      PROVE  /\ new(p) \in Question
             /\ new(p).origin = pendings[p].origin /\ new(p).from = pendings[p].from
             /\ new(p).status # "WAITING" /\ new(p).status \in {pendings[p].status, "SUPERSEDED"}
             /\ pendings[p].status # "WAITING" => new(p) = pendings[p]
  <2>1. pendings[p] \in Question
    BY <1>1, ElementOfSeq
  <2> QED
    BY <1>1, <2>1 DEF Question, PendingStatuses, Waiting
<1> HIDE DEF new
<1>4. pendings' \in [1..Len(pendings) -> Question]
  BY <1>2, <1>3
<1>5. pendings' \in Seq(Question)
  BY <1>1, <1>4, SeqDef
<1>6. Len(pendings') = Len(pendings) /\ DOMAIN pendings' = 1..Len(pendings)
  BY <1>1, <1>4, <1>5, LenProperties
<1>7. Waiting' = {}
  BY <1>2, <1>3, <1>6 DEF Waiting
<1> QED
  BY <1>1, <1>2, <1>3, <1>5, <1>6, <1>7 DEF Retagged

LEMMA CreateAdds ==
  ASSUME TypeOK, JobFits, Create
  PROVE  Added([origin |-> job.origin, shown |-> job.shown, from |-> job.pending,
                status |-> "WAITING", corrected |-> FALSE])
<1> DEFINE q == [origin |-> job.origin, shown |-> job.shown, from |-> job.pending,
                 status |-> "WAITING", corrected |-> FALSE]
<1>1. q \in Question
  <2>1. job.origin \in Messages
    BY NoJobType DEF Create, JobFits
  <2>2. job.shown \in Nat /\ job.pending \in Nat
    BY Types DEF Jobs
  <2> QED
    BY <2>1, <2>2 DEF Question, PendingStatuses
<1>2. pendings \in Seq(Question) /\ DOMAIN pendings = 1..Len(pendings)
  BY Types, Indices
<1>3. pendings' = Append(pendings, q)
  BY DEF Create
<1> HIDE DEF q
<1>4. Added(q)
  BY <1>1, <1>2, <1>3, AppendProperties DEF Added
<1> QED
  BY <1>4 DEF q

-----------------------------------------------------------------------------
(* Types.                                                                  *)

\* The rows, as they are typed after a step.
RowsTyped ==
  /\ row' \in [Messages -> Row]
  /\ attempts' \in [Messages -> 0..MaxAttempts]
  /\ ready' \subseteq {m \in Messages : row'[m] = "RETRY_PENDING"}
  /\ result' \in [Messages -> Results]
  /\ pc' \in [Messages -> {"none", "created", "processing", "ended"}]

LEMMA RowsStayTyped ==
  ASSUME TypeOK, UNCHANGED <<row, attempts, ready, result, pc>>
  PROVE  RowsTyped
BY Types DEF RowsTyped

\* A failure is counted, and its row has attempts left before.
LEMMA RetryType ==
  ASSUME TypeOK, RowsAreLive, NEW m \in Messages, row[m] # "DEAD_LETTER", RetryOrDead(m)
  PROVE  RowsTyped
<1>1. row \in [Messages -> Row] /\ attempts \in [Messages -> 0..MaxAttempts]
      /\ result \in [Messages -> Results]
      /\ ready \subseteq {i \in Messages : row[i] = "RETRY_PENDING"}
      /\ pc \in [Messages -> {"none", "created", "processing", "ended"}]
  BY Types
<1>2. attempts[m] + 1 \in 0..MaxAttempts
  BY <1>1, MessageConstants DEF RowsAreLive
<1>3. row' \in [Messages -> Row] /\ attempts' \in [Messages -> 0..MaxAttempts]
  BY <1>1, <1>2 DEF RetryOrDead, Row, Unsettled, Settled
<1>4. ready' \subseteq {i \in Messages : row'[i] = "RETRY_PENDING"}
  BY <1>1 DEF RetryOrDead
<1>5. pc' \in [Messages -> {"none", "created", "processing", "ended"}]
  BY <1>1 DEF RetryOrDead
<1> QED
  BY <1>1, <1>3, <1>4, <1>5 DEF RetryOrDead, RowsTyped

\* So is a message that is done with; its row was claimed.
LEMMA FinishType ==
  ASSUME TypeOK, NEW m \in Messages, row[m] # "RETRY_PENDING", NEW res \in Results, Finish(m, res)
  PROVE  RowsTyped
BY Types DEF Finish, RowsTyped, Row, Settled

\* What is left of the types when the rows are right.
LEMMA StoreTyped ==
  ASSUME TypeOK, RowsTyped, pendings' \in Seq(Question), Len(pendings) <= Len(pendings'),
         executions' \subseteq [key : Keys, status : ExecutionStatuses], version' \in Nat,
         applied' \in Seq(Effect), mishaps' \in Nat, cut' \in [Messages -> Nat],
         job' \in Jobs, job'.pending <= Len(pendings)
  PROVE  TypeOK'
<1>1. Len(pendings) \in Nat /\ Len(pendings') \in Nat /\ job'.pending \in Nat
  BY Types, LenProperties DEF Jobs
<1>2. job'.pending <= Len(pendings')
  BY <1>1
<1>3. job' \in [step : Steps, msg : 0..M, pending : 0..Len(pendings'), origin : 0..M,
               shown : Nat, redraft : BOOLEAN, result : Results]
  BY <1>1, <1>2 DEF Jobs
<1> QED
  BY <1>3 DEF RowsTyped, TypeOK, Row, Question, Effect

\* The row of a claimed message.
LEMMA ClaimedRow ==
  ASSUME TypeOK, Working, job = NoJob, NEW m \in Messages, pc[m] = "processing"
  PROVE  row[m] = "PROCESSING"
BY NoJobType DEF Working, RowsAreLive

LEMMA CreatedRow ==
  ASSUME TypeOK, Working, NEW m \in Messages, pc[m] = "created"
  PROVE  row[m] \in {"RECEIVED", "RETRY_PENDING"}
BY Types DEF Working, RowsAreLive, Due

\* The job of a reply is a job about a question that waits.
LEMMA ReplyJobType ==
  ASSUME TypeOK, NEW m \in Messages, NEW p \in Waiting, NEW s \in Steps,
         NEW r \in BOOLEAN, NEW res \in Results
  PROVE  /\ ReplyJob(m, p, s, r, res) \in Jobs
         /\ p \in DOMAIN pendings /\ p <= Len(pendings) /\ p # 0
         /\ pendings[p].status = "WAITING" /\ pendings[p].origin \in Messages
<1>1. p \in 1..Len(pendings) /\ Len(pendings) \in Nat /\ pendings[p] \in Question
  BY Indices DEF Waiting
<1>2. pendings[p].origin \in 0..M /\ pendings[p].shown \in Nat /\ m \in 0..M
  BY <1>1, MessageConstants DEF Question, Messages
<1> QED
  BY <1>1, <1>2, Indices DEF ReplyJob, Jobs, Waiting, Question

LEMMA OwnJobType ==
  ASSUME TypeOK, NEW m \in Messages, NEW s \in Steps, NEW res \in Results
  PROVE  OwnJob(m, s, res) \in Jobs
<1>1. m \in 0..M /\ 0 \in Nat /\ version \in Nat
  BY MessageConstants, Types DEF Messages
<1> QED
  BY <1>1 DEF OwnJob, Jobs

\* The inbox, the worker and the messages without a job.
LEMMA InboxTypes ==
  ASSUME TypeOK, Working, NEW m \in Messages,
         Arrive(m) \/ BecomeDue(m) \/ Claim(m) \/ FailEarly(m) \/ Drop(m) \/ Fallback(m)
  PROVE  TypeOK'
<1>1. RowsTyped
  <2>1. CASE Arrive(m) \/ BecomeDue(m) \/ Claim(m)
    BY <2>1, Types DEF Arrive, BecomeDue, Claim, RowsTyped, Row, Unsettled
  <2>2. CASE FailEarly(m) \/ Fallback(m)
    <3>1. row[m] # "DEAD_LETTER"
      BY <2>2, ClaimedRow, CreatedRow DEF FailEarly, Fallback, MyTurn
    <3> QED
      BY <2>2, <3>1, RetryType DEF FailEarly, Fallback, Working
  <2>3. CASE Drop(m)
    <3>1. row[m] # "RETRY_PENDING"
      BY <2>3, ClaimedRow DEF Drop, MyTurn
    <3> QED
      BY <2>3, <3>1, FinishType DEF Drop, Results
  <2> QED
    BY <2>1, <2>2, <2>3
<1>2. UNCHANGED <<pendings, executions, version, applied, mishaps, cut, job>>
  BY DEF Arrive, BecomeDue, Claim, FailEarly, Drop, Fallback
<1> QED
  BY <1>1, <1>2, Types, Indices, StoreTyped

\* The job that a message may start.
Starts(m) ==
  \/ job' = OwnJob(m, "execute", "none")
  \/ job' = OwnJob(m, "supersede", "ASKED")
  \/ \E p \in Waiting : \/ job' = ReplyJob(m, p, "confirm", TRUE, "none")
                        \/ job' = ReplyJob(m, p, "confirm", FALSE, "none")
                        \/ job' = ReplyJob(m, p, "decline", FALSE, "REJECTED")

\* A message whose turn it is starts a job, or is refused without one.
LEMMA BeginForms ==
  ASSUME NEW m \in Messages, Act(m) \/ Ask(m) \/ Confirm(m) \/ Correct(m) \/ Decline(m)
  PROVE  /\ MyTurn(m)
         /\ UNCHANGED <<pendings, executions, version, applied, mishaps, cut>>
         /\ \/ Starts(m) /\ UNCHANGED <<row, attempts, ready, result, pc>>
            \/ Finish(m, "REJECTED") /\ UNCHANGED job
<1>1. CASE Act(m) \/ Ask(m)
  BY <1>1 DEF Act, Ask, Starts, store, rows
<1>2. CASE Correct(m) \/ Decline(m)
  BY <1>2 DEF Correct, Decline, Starts, store, rows
<1>3. CASE Confirm(m)
  BY <1>3 DEF Confirm, Starts, rows
<1> QED
  BY <1>1, <1>2, <1>3

LEMMA StartsType ==
  ASSUME TypeOK, NEW m \in Messages, Starts(m)
  PROVE  /\ job' \in Jobs /\ job'.pending <= Len(pendings)
         /\ job'.msg = m /\ job'.origin \in Messages
         /\ job'.step \in {"execute", "supersede", "confirm", "decline"}
         /\ job'.result \in {"none", "ASKED", "REJECTED"}
         /\ job'.step \in {"execute", "supersede"} => job'.pending = 0 /\ job'.origin = m
         /\ job'.step \in {"confirm", "decline"} =>
              /\ job'.pending \in Waiting /\ job'.pending # 0
              /\ job'.origin = pendings[job'.pending].origin
<1> USE DEF Steps, Results
<1>1. CASE job' = OwnJob(m, "execute", "none") \/ job' = OwnJob(m, "supersede", "ASKED")
  <2>1. OwnJob(m, "execute", "none") \in Jobs /\ OwnJob(m, "supersede", "ASKED") \in Jobs
    BY OwnJobType
  <2>2. 0 <= Len(pendings)
    BY Indices
  <2>3. /\ job'.step \in {"execute", "supersede"} /\ job'.result \in {"none", "ASKED"}
        /\ job'.msg = m /\ job'.pending = 0 /\ job'.origin = m
    BY <1>1 DEF OwnJob
  <2>4. job' \in Jobs
    BY <1>1, <2>1
  <2> QED
    BY <2>2, <2>3, <2>4
<1>2. ASSUME NEW p \in Waiting, NEW s \in {"confirm", "decline"}, NEW r \in BOOLEAN,
             NEW res \in {"none", "REJECTED"}, job' = ReplyJob(m, p, s, r, res)
      PROVE  /\ job' \in Jobs /\ p <= Len(pendings) /\ p # 0
             /\ pendings[p].origin \in Messages /\ job'.pending = p
             /\ job'.msg = m /\ job'.step = s /\ job'.result = res
             /\ job'.origin = pendings[p].origin
  BY <1>2, ReplyJobType DEF ReplyJob
<1>3. CASE \E p \in Waiting : \/ job' = ReplyJob(m, p, "confirm", TRUE, "none")
                              \/ job' = ReplyJob(m, p, "confirm", FALSE, "none")
                              \/ job' = ReplyJob(m, p, "decline", FALSE, "REJECTED")
  BY <1>2, <1>3
<1> QED
  BY <1>1, <1>3 DEF Starts

LEMMA BeginTypes ==
  ASSUME TypeOK, Working, NEW m \in Messages,
         Act(m) \/ Ask(m) \/ Confirm(m) \/ Correct(m) \/ Decline(m)
  PROVE  TypeOK'
<1>1. UNCHANGED <<pendings, executions, version, applied, mishaps, cut>>
  BY BeginForms
<1>2. RowsTyped /\ job' \in Jobs /\ job'.pending <= Len(pendings)
  <2>1. CASE Starts(m) /\ UNCHANGED <<row, attempts, ready, result, pc>>
    BY <2>1, StartsType, RowsStayTyped
  <2>2. CASE Finish(m, "REJECTED") /\ UNCHANGED job
    <3>1. row[m] # "RETRY_PENDING"
      BY BeginForms, ClaimedRow DEF MyTurn
    <3> QED
      BY <2>2, <3>1, FinishType, Types DEF Results
  <2> QED
    BY <2>1, <2>2, BeginForms
<1> QED
  BY <1>1, <1>2, Types, Indices, StoreTyped

\* Where a step of a job leads.
LEMMA ExecutedMoves ==
  ASSUME job \in Jobs, NEW o \in Outcomes, Executed(o)
  PROVE  /\ job' \in Jobs
         /\ job'.step = (IF NeedsRedraft(o) THEN "supersede" ELSE "complete")
         /\ job'.result = ResultOf(o)
         /\ job'.msg = job.msg /\ job'.pending = job.pending /\ job'.origin = job.origin
         /\ job'.shown = job.shown /\ job'.redraft = job.redraft
<1> DEFINE s == IF NeedsRedraft(o) THEN "supersede" ELSE "complete"
           r == ResultOf(o)
<1>1. s \in Steps /\ r \in Results
  BY DEF Steps, Results, ResultOf, Outcomes
<1>2. job' = [job EXCEPT !.step = s, !.result = r]
  BY DEF Executed
<1> HIDE DEF s, r
<1>3. /\ job' \in Jobs /\ job'.step = s /\ job'.result = r
      /\ job'.msg = job.msg /\ job'.pending = job.pending /\ job'.origin = job.origin
      /\ job'.shown = job.shown /\ job'.redraft = job.redraft
  BY <1>1, <1>2, JobMoves
<1> QED
  BY <1>3 DEF s, r

\* The ways a command ends, each with its outcome.
LEMMA ExecuteForms ==
  ASSUME TypeOK, Execute
  PROVE  \/ \E e \in executions : /\ e.key = Key
                                  /\ Executed(IF e.status = "APPLIED" THEN "OK" ELSE e.status)
                                  /\ UNCHANGED <<executions, version, applied, mishaps, cut>>
         \/ (\A e \in executions : e.key # Key) /\ Apply /\ UNCHANGED <<mishaps, cut>>
         \/ (\A e \in executions : e.key # Key) /\ Refuse
         \/ (\A e \in executions : e.key # Key) /\ RollBack
BY DEF Execute

LEMMA RecordStatus ==
  ASSUME TypeOK, NEW e \in executions
  PROVE  /\ e.key \in Keys /\ e.status \in ExecutionStatuses
         /\ (IF e.status = "APPLIED" THEN "OK" ELSE e.status) \in {"OK", "REJECTED"}
BY Types DEF ExecutionStatuses

LEMMA KeyType ==
  ASSUME TypeOK, JobFits, job.step = "execute"
  PROVE  /\ Key \in Keys
         /\ job.pending # 0 => Key = <<"confirm", job.pending>>
         /\ job.pending = 0 => Key = <<"direct", job.msg>>
<1>1. job.pending \in Nat /\ job.msg \in Nat
  BY Types, MessageConstants DEF Jobs
<1> QED
  BY <1>1 DEF Key, Keys

\* The steps of a job.
LEMMA JobTypes == ASSUME TypeOK, Working, JobStep PROVE TypeOK'
<1> USE DEF Working
<1>0. job \in Jobs /\ job.pending <= Len(pendings) /\ Len(pendings) \in Nat
  BY Types, Indices
<1>1. CASE Resolve
  <2>1. pendings' \in Seq(Question) /\ Len(pendings') = Len(pendings)
    BY <1>1, ResolveSettles DEF Retagged
  <2>2. job' \in Jobs /\ job'.pending = job.pending
    BY <1>0, <1>1, JobMoves DEF Resolve, Steps, Jobs
  <2>3. UNCHANGED <<row, attempts, ready, result, pc, executions, version, applied, mishaps, cut>>
    BY <1>1 DEF Resolve, rows
  <2> QED
    BY <1>0, <2>1, <2>2, <2>3, Types, RowsStayTyped, StoreTyped
<1>2. CASE Execute
  <2>1. UNCHANGED <<row, attempts, ready, result, pc, pendings>>
    BY <1>2 DEF Execute, rows
  <2>2. \E o \in Outcomes : Executed(o)
    BY <1>2, ExecuteForms, RecordStatus DEF Apply, Refuse, RollBack, Outcomes
  <2>3. job' \in Jobs /\ job'.pending = job.pending
    BY <1>0, <2>2, ExecutedMoves
  <2>4. /\ executions' \subseteq [key : Keys, status : ExecutionStatuses]
        /\ version' \in Nat /\ applied' \in Seq(Effect)
        /\ mishaps' \in Nat /\ cut' \in [Messages -> Nat]
    <3>1. CASE UNCHANGED <<executions, version, applied, mishaps, cut>>
      BY <3>1, Types
    <3>2. CASE Apply /\ UNCHANGED <<mishaps, cut>>
      <4>1. Key \in Keys /\ job.msg \in Messages /\ job.origin \in Messages /\ job.shown \in Nat
        BY <1>0, <1>2, KeyType, NoJobType DEF Execute, JobFits, Jobs
      <4>2. [by |-> job.msg, origin |-> job.origin, shown |-> job.shown, at |-> version] \in Effect
        BY <4>1, Types DEF Effect
      <4>3. applied' \in Seq(Effect)
        BY <3>2, <4>2, Types, AppendProperties DEF Apply
      <4> QED
        BY <3>2, <4>1, <4>3, Types DEF Apply, ExecutionStatuses
    <3>3. CASE Refuse
      <4>1. Key \in Keys
        BY <1>2, KeyType DEF Execute
      <4> QED
        BY <3>3, <4>1, Types DEF Refuse, ExecutionStatuses
    <3>4. CASE RollBack
      BY <3>4, Types DEF RollBack, Mishap
    <3> QED
      BY <1>2, <3>1, <3>2, <3>3, <3>4, ExecuteForms
  <2> QED
    BY <1>0, <2>1, <2>3, <2>4, Types, RowsStayTyped, StoreTyped
<1>3. CASE Supersede
  <2>1. pendings' \in Seq(Question) /\ Len(pendings') = Len(pendings)
    BY <1>3, SupersedeSettles DEF Retagged
  <2>2. job' \in Jobs /\ job'.pending = job.pending
    BY <1>0, <1>3, JobMoves DEF Supersede, Steps, Jobs
  <2>3. UNCHANGED <<row, attempts, ready, result, pc, executions, version, applied, mishaps, cut>>
    BY <1>3 DEF Supersede, rows
  <2> QED
    BY <1>0, <2>1, <2>2, <2>3, Types, RowsStayTyped, StoreTyped
<1>4. CASE Create
  <2>1. pendings' \in Seq(Question) /\ Len(pendings') = Len(pendings) + 1
    BY <1>4, CreateAdds DEF Added
  <2>2. job' \in Jobs /\ job'.pending = job.pending
    BY <1>0, <1>4, JobMoves DEF Create, Steps, Jobs
  <2>3. UNCHANGED <<row, attempts, ready, result, pc, executions, version, applied, mishaps, cut>>
    BY <1>4 DEF Create, rows
  <2> QED
    BY <1>0, <2>1, <2>2, <2>3, Types, RowsStayTyped, StoreTyped
<1>5. CASE Complete
  <2>1. UNCHANGED <<attempts, ready, pendings, executions, version, pc, applied, mishaps, cut>>
    BY <1>5 DEF Complete
  <2>2. job' \in Jobs /\ job'.pending = job.pending
    BY <1>0, <1>5, JobMoves DEF Complete, Steps, Jobs
  <2>3. row[job.msg] = "PROCESSING" /\ job.result \in Results
    BY <1>0, <1>5, NoJobType DEF Complete, JobFits, Jobs
  <2>4. RowsTyped
    BY <1>5, <2>3, Types DEF Complete, RowsTyped, Row, Settled
  <2> QED
    BY <1>0, <2>1, <2>2, <2>4, Types, StoreTyped
<1>6. CASE Reply
  <2>1. UNCHANGED <<row, attempts, ready, result, pendings, executions, version, applied, mishaps, cut>>
    BY <1>6 DEF Reply, store, rows
  <2>2. RowsTyped
    BY <1>6, <2>1, Types DEF Reply, RowsTyped
  <2>3. job' \in Jobs /\ job'.pending <= Len(pendings)
    BY <1>0, <1>6, NoJobType DEF Reply
  <2> QED
    BY <1>0, <2>1, <2>2, <2>3, Types, StoreTyped
<1> QED
  BY <1>1, <1>2, <1>3, <1>4, <1>5, <1>6 DEF JobStep

LEMMA TypeNext == TypeOK /\ Working /\ [Next]_vars => TypeOK'
<1> SUFFICES ASSUME TypeOK, Working, [Next]_vars PROVE TypeOK'
  OBVIOUS
<1>0. Len(pendings) \in Nat /\ NoJob \in Jobs /\ NoJob.pending <= Len(pendings)
  BY Indices, NoJobType
<1>1. ASSUME NEW m \in Messages, Arrive(m) \/ BecomeDue(m) \/ Handle(m) PROVE TypeOK'
  BY <1>1, InboxTypes, BeginTypes DEF Handle
<1>2. CASE TakeBatch
  <2>1. UNCHANGED <<row, attempts, ready, result, pendings, executions, version, applied, mishaps, cut, job>>
    BY <1>2 DEF TakeBatch, store, rows
  <2>2. RowsTyped
    BY <1>2, <2>1, Types DEF TakeBatch, RowsTyped
  <2> QED
    BY <1>0, <2>1, <2>2, Types, StoreTyped
<1>3. CASE JobStep
  BY <1>3, JobTypes
<1>4. CASE Raise
  <2>1. UNCHANGED <<pendings, executions, version, applied>> /\ job' = NoJob
    BY <1>4 DEF Raise
  <2>2. mishaps' \in Nat /\ cut' \in [Messages -> Nat]
    BY <1>4, Types DEF Raise, Mishap, JobIsCut
  <2>3. job.msg \in Messages /\ row[job.msg] \in {"PROCESSING", "COMPLETED"}
    BY <1>4 DEF Raise, Working, JobFits, RowsAreLive
  <2>4. RowsTyped
    BY <1>4, <2>3, RetryType DEF Raise, Working
  <2> QED
    BY <1>0, <2>1, <2>2, <2>4, Types, StoreTyped
<1>5. ASSUME NEW p \in DOMAIN pendings, Expire(p) PROVE TypeOK'
  <2>1. pendings' \in Seq(Question) /\ Len(pendings') = Len(pendings)
    BY <1>5, ExpireSettles DEF Retagged
  <2>2. UNCHANGED <<row, attempts, ready, result, pc, executions, version, applied, mishaps, cut, job>>
    BY <1>5 DEF Expire, rows
  <2> QED
    BY <1>0, <2>1, <2>2, Types, RowsStayTyped, StoreTyped
<1>6. CASE AdminWrite
  <2>1. UNCHANGED <<row, attempts, ready, result, pc, pendings, executions, applied, job>>
    BY <1>6 DEF AdminWrite, rows
  <2>2. version' \in Nat /\ mishaps' \in Nat /\ UNCHANGED cut
    BY <1>6, Types DEF AdminWrite, Mishap
  <2> QED
    BY <1>0, <2>1, <2>2, Types, RowsStayTyped, StoreTyped
<1>7. CASE Crash
  <2>1. UNCHANGED <<pendings, executions, version, applied>> /\ job' = NoJob
    BY <1>7 DEF Crash
  <2>2. mishaps' \in Nat /\ cut' \in [Messages -> Nat]
    BY <1>7, Types DEF Crash, Mishap, JobIsCut
  <2>3. RowsTyped
    BY <1>7, Types DEF Crash, ResetStale, RowsTyped, Row, Unsettled
  <2> QED
    BY <1>0, <2>1, <2>2, <2>3, Types, StoreTyped
<1>8. CASE UNCHANGED vars
  BY <1>8, Types, RowsStayTyped, StoreTyped, <1>0 DEF vars, rows
<1> QED
  BY <1>1, <1>2, <1>3, <1>4, <1>5, <1>6, <1>7, <1>8 DEF Next

-----------------------------------------------------------------------------
(* The start.                                                              *)

LEMMA InitInv == Init => Inv
<1> SUFFICES ASSUME Init PROVE Inv
  OBVIOUS
<1>1. pendings = <<>> /\ applied = <<>> /\ executions = {} /\ job = NoJob
  BY DEF Init
<1>2. DOMAIN pendings = {} /\ DOMAIN applied = {} /\ Len(pendings) = 0 /\ Len(applied) = 0
  BY <1>1
<1>3. TypeOK
  <2>1. NoJob \in Jobs /\ NoJob.pending <= 0
    BY NoJobType
  <2>2. pendings \in Seq(Question) /\ applied \in Seq(Effect)
    BY <1>1
  <2> QED
    BY <1>1, <1>2, <2>1, <2>2, Types, MessageConstants DEF Init, Row, Results
<1>4. Working
  BY <1>1, <1>2, NoJobType, MessageConstants DEF Init, Working, RowsAreLive, JobFits, JobResult
<1>5. RecordsFit
  BY <1>1, NoJobType, FS_EmptySet DEF RecordsFit
<1>6. LedgerCountsEffects
  <2>1. {e \in executions : e.status = "APPLIED"} = {}
    BY <1>1
  <2> QED
    BY <1>2, <2>1, FS_EmptySet DEF LedgerCountsEffects
<1>7. ResultsFit /\ ConfirmedActionIsCurrent
  BY <1>2 DEF Init, ResultsFit, ConfirmedActionIsCurrent
<1>8. TokensPaidFor
  <2> SUFFICES ASSUME NEW m \in Messages
               PROVE  Cardinality(EffectsFor(m)) + Owed(m) <= 1 + cut[m]
    BY DEF TokensPaidFor
  <2>1. EffectsFor(m) = {} /\ QuestionsOf(m) = {} /\ cut[m] = 0
    BY <1>2 DEF EffectsFor, QuestionsOf, Waiting, Init
  <2>2. Number(RowOwes(m)) \in 0..1 /\ Number(JobOwes(m)) = 0
    BY <1>1, NoJobType DEF Number, JobOwes
  <2> QED
    BY <2>1, <2>2, FS_EmptySet DEF Owed
<1>9. EffectsShow /\ ConfirmedIsUnderWay
  BY <1>1, <1>2, NoJobType DEF EffectsShow, ConfirmedIsUnderWay
<1>10. InTurn /\ OvertakenOnesWereLate
  <2>1. /\ \A m \in Messages : row[m] = "unsent" /\ pc[m] = "none" /\ Effects(m) = {}
        /\ \A k \in Messages : job.msg # k
    BY <1>1, <1>2, NoJobType DEF Init, Effects, Messages
  <2>2. \A k \in Messages : \A m \in (1..(k - 1)) : m \in Messages
    BY MessageConstants DEF Messages
  <2> QED
    BY <1>2, <2>1, <2>2
       DEF InTurn, ProcessingHasTask, EndedArePassed, EarlierArePassed, OvertakenOnesWereLate
<1> QED
  BY <1>3, <1>4, <1>5, <1>6, <1>7, <1>8, <1>9, <1>10 DEF Inv

-----------------------------------------------------------------------------
(* What a step may do to the effects.                                      *)

\* Apply adds one effect, of the message of the job.
LEMMA ApplyAdds ==
  ASSUME TypeOK, JobFits, job.step = "execute", Apply
  PROVE  LET n == Len(applied) + 1 IN
         /\ DOMAIN applied' = DOMAIN applied \cup {n} /\ n \notin DOMAIN applied
         /\ Len(applied') = n
         /\ \A i \in DOMAIN applied : applied'[i] = applied[i]
         /\ applied'[n].by = job.msg /\ applied'[n].origin = job.origin
         /\ applied'[n].shown = applied'[n].at
<1> DEFINE f == [by |-> job.msg, origin |-> job.origin, shown |-> job.shown, at |-> version]
           n == Len(applied) + 1
<1>1. applied \in Seq(Effect) /\ Len(applied) \in Nat /\ DOMAIN applied = 1..Len(applied)
  BY Types, Indices
<1>2. f \in Effect
  BY NoJobType, Types DEF JobFits, Effect, Jobs
<1>3. applied' = Append(applied, f)
  BY DEF Apply
<1>4. f.by = job.msg /\ f.origin = job.origin /\ f.shown = f.at
  BY DEF Apply
<1> HIDE DEF f
<1>5. /\ applied' \in Seq(Effect) /\ Len(applied') = n
      /\ \A i \in 1..Len(applied) : applied'[i] = applied[i]
      /\ applied'[n] = f
  BY <1>1, <1>2, <1>3, AppendProperties
<1>6. DOMAIN applied' = 1..n
  BY <1>5, LenProperties
<1>7. 1..n = 1..Len(applied) \cup {n} /\ n \notin 1..Len(applied)
  BY <1>1
<1> QED
  BY <1>1, <1>4, <1>5, <1>6, <1>7

\* No effect is ever undone.
LEMMA EffectsStay ==
  ASSUME TypeOK, JobFits, NEW m, UNCHANGED applied \/ (job.step = "execute" /\ Apply)
  PROVE  Effects(m) \subseteq Effects(m)'
<1>1. CASE UNCHANGED applied
  BY <1>1 DEF Effects
<1>2. CASE job.step = "execute" /\ Apply
  BY <1>2, ApplyAdds DEF Effects
<1> QED
  BY <1>1, <1>2

\* Only Apply touches the effects.
LEMMA EffectsNext ==
  ASSUME [Next]_vars
  PROVE  UNCHANGED applied \/ (job.step = "execute" /\ Apply)
<1>1. ASSUME NEW m \in Messages, Handle(m) PROVE UNCHANGED applied
  BY <1>1, BeginForms DEF Handle, Claim, FailEarly, Drop, Fallback
<1>2. CASE JobStep
  BY <1>2 DEF JobStep, Resolve, Execute, Refuse, RollBack, Supersede, Create, Complete, Reply, store
<1> QED
  BY <1>1, <1>2 DEF Next, vars, store, Arrive, BecomeDue, TakeBatch, Raise, Expire, AdminWrite, Crash

-----------------------------------------------------------------------------
(* The rows, the tasks and the job stay in step.                           *)

LEMMA RetryLive ==
  ASSUME TypeOK, RowsAreLive, NEW m \in Messages, job = NoJob \/ job.msg = m,
         row[m] # "DEAD_LETTER", RetryOrDead(m)
  PROVE  RowsAreLive'
<1>1. row \in [Messages -> Row] /\ attempts \in [Messages -> 0..MaxAttempts]
      /\ pc \in [Messages -> {"none", "created", "processing", "ended"}]
  BY Types
<1>2. /\ row'[m] # "DEAD_LETTER" => attempts'[m] < MaxAttempts
      /\ pc'[m] = "ended"
  BY <1>1, MessageConstants DEF RetryOrDead
<1>3. \A i \in Messages \ {m} :
        /\ row'[i] = row[i] /\ attempts'[i] = attempts[i] /\ pc'[i] = pc[i]
        /\ i \in Due => i \in Due'
  BY <1>1 DEF RetryOrDead, Due
<1>4. \A i \in Messages \ {m} : pc[i] = "processing" => row[i] = "PROCESSING"
  BY NoJobType DEF RowsAreLive
<1> QED
  BY <1>2, <1>3, <1>4 DEF RowsAreLive

LEMMA FinishLive ==
  ASSUME TypeOK, RowsAreLive, NEW m \in Messages, job = NoJob, row[m] = "PROCESSING",
         NEW res, Finish(m, res)
  PROVE  RowsAreLive'
<1>1. row \in [Messages -> Row] /\ pc \in [Messages -> {"none", "created", "processing", "ended"}]
  BY Types
<1>2. row'[m] = "COMPLETED" /\ pc'[m] = "ended" /\ attempts' = attempts
  BY <1>1 DEF Finish
<1>3. \A i \in Messages \ {m} : row'[i] = row[i] /\ pc'[i] = pc[i] /\ (i \in Due => i \in Due')
  BY <1>1 DEF Finish, Due
<1>4. \A i \in Messages \ {m} : pc[i] = "processing" => row[i] = "PROCESSING"
  BY NoJobType DEF RowsAreLive
<1> QED
  BY <1>2, <1>3, <1>4 DEF RowsAreLive

\* A job that ends leaves nothing behind that has to fit.
LEMMA NoJobFits == ASSUME job' = NoJob PROVE JobFits' /\ JobResult'
BY NoJobType DEF JobFits, JobResult

LEMMA InboxWorking ==
  ASSUME TypeOK, Working, NEW m \in Messages,
         Arrive(m) \/ BecomeDue(m) \/ Claim(m) \/ FailEarly(m) \/ Drop(m) \/ Fallback(m)
  PROVE  Working'
<1>1. job = NoJob /\ job' = NoJob
  BY DEF Arrive, BecomeDue, Claim, FailEarly, Drop, Fallback, MyTurn
<1>2. RowsAreLive'
  <2>0. /\ row \in [Messages -> Row] /\ ready \subseteq {i \in Messages : row[i] = "RETRY_PENDING"}
        /\ pc \in [Messages -> {"none", "created", "processing", "ended"}]
    BY Types
  <2>1. CASE Arrive(m)
    BY <1>1, <2>0, <2>1, NoJobType DEF Arrive, Working, RowsAreLive, Due
  <2>2. CASE BecomeDue(m)
    BY <1>1, <2>0, <2>2, NoJobType DEF BecomeDue, Working, RowsAreLive, Due
  <2>3. CASE Claim(m)
    BY <1>1, <2>0, <2>3, NoJobType DEF Claim, Working, RowsAreLive, Due
  <2>4. CASE FailEarly(m) \/ Fallback(m)
    <3>1. row[m] # "DEAD_LETTER"
      BY <2>4, ClaimedRow, CreatedRow DEF FailEarly, Fallback, MyTurn
    <3> QED
      BY <1>1, <2>4, <3>1, RetryLive DEF FailEarly, Fallback, Working
  <2>5. CASE Drop(m)
    BY <1>1, <2>5, ClaimedRow, FinishLive DEF Drop, MyTurn, Working
  <2> QED
    BY <2>1, <2>2, <2>3, <2>4, <2>5
<1> QED
  BY <1>1, <1>2, NoJobFits DEF Working

LEMMA BeginWorking ==
  ASSUME TypeOK, Working, NEW m \in Messages,
         Act(m) \/ Ask(m) \/ Confirm(m) \/ Correct(m) \/ Decline(m)
  PROVE  Working'
<1>1. job = NoJob /\ pc[m] = "processing" /\ row[m] = "PROCESSING"
  BY BeginForms, ClaimedRow DEF MyTurn
<1>2. CASE Starts(m) /\ UNCHANGED <<row, attempts, ready, result, pc>>
  <2>1. /\ job'.msg = m /\ job'.origin \in Messages
        /\ job'.step \in {"execute", "supersede", "confirm", "decline"}
        /\ job'.result \in {"none", "ASKED", "REJECTED"}
        /\ job'.step \in {"execute", "supersede"} => job'.pending = 0 /\ job'.origin = m
        /\ job'.step \in {"confirm", "decline"} =>
             /\ job'.pending \in Waiting /\ job'.pending # 0
             /\ job'.origin = pendings[job'.pending].origin
    BY <1>2, StartsType
  <2>2. pendings' = pendings
    BY BeginForms
  <2>3. RowsAreLive'
    BY <1>1, <1>2, NoJobType DEF Working, RowsAreLive, Due
  <2>4. JobFits'
    BY <1>1, <1>2, <2>1, <2>2 DEF JobFits, Waiting
  <2>5. JobResult'
    BY <2>1 DEF JobResult
  <2> QED
    BY <2>3, <2>4, <2>5 DEF Working
<1>3. CASE Finish(m, "REJECTED") /\ UNCHANGED job
  BY <1>1, <1>3, FinishLive, NoJobFits DEF Working
<1> QED
  BY <1>2, <1>3, BeginForms

\* What the record of an executed command says has happened.
LEMMA RecordedEffect ==
  ASSUME TypeOK, Working, RecordsFit, job.step = "execute",
         NEW e \in executions, e.key = Key
  PROVE  job.pending = 0 /\ (e.status = "APPLIED" => Effects(job.msg) # {})
<1>1. job.pending = 0
  BY DEF RecordsFit
<1>2. e.key = <<"direct", job.msg>>
  BY <1>1, KeyType DEF Working
<1> QED
  BY <1>1, <1>2 DEF RecordsFit

\* The step from a command to what follows it.
LEMMA ExecuteMoves ==
  ASSUME TypeOK, Working, RecordsFit, Execute
  PROVE  /\ job.step = "execute" /\ job' \in Jobs
         /\ UNCHANGED <<row, attempts, ready, result, pc, pendings>>
         /\ job'.msg = job.msg /\ job'.pending = job.pending /\ job'.origin = job.origin
         /\ job'.redraft = job.redraft
         /\ job'.result \in {"EXECUTED", "REJECTED", "INTERNAL_ERROR"}
         /\ job'.step = IF job.redraft /\ job'.result = "INTERNAL_ERROR"
                        THEN "supersede" ELSE "complete"
         /\ \/ /\ job.pending = 0 /\ UNCHANGED <<executions, applied, mishaps, cut>>
               /\ job'.result \in {"EXECUTED", "REJECTED"}
               /\ job'.result = "EXECUTED" => Effects(job.msg) # {}
            \/ /\ Apply /\ UNCHANGED <<mishaps, cut>> /\ job'.result = "EXECUTED"
               /\ \A e \in executions : e.key # Key
            \/ Refuse /\ job'.result = "REJECTED" /\ \A e \in executions : e.key # Key
            \/ RollBack /\ job'.result = "INTERNAL_ERROR"
<1>0. job \in Jobs /\ job.step = "execute"
      /\ UNCHANGED <<row, attempts, ready, result, pc, pendings>>
  BY Types DEF Execute, rows
<1>1. ASSUME NEW o \in Outcomes, Executed(o)
      PROVE  /\ job' \in Jobs
             /\ job'.msg = job.msg /\ job'.pending = job.pending /\ job'.origin = job.origin
             /\ job'.redraft = job.redraft
             /\ job'.result = ResultOf(o)
             /\ job'.result \in {"EXECUTED", "REJECTED", "INTERNAL_ERROR"}
             /\ job'.step = IF job.redraft /\ job'.result = "INTERNAL_ERROR"
                            THEN "supersede" ELSE "complete"
  BY <1>0, <1>1, ExecutedMoves DEF Outcomes, ResultOf, NeedsRedraft
<1>2. "OK" \in Outcomes /\ "REJECTED" \in Outcomes /\ "INTERNAL_ERROR" \in Outcomes
      /\ ResultOf("OK") = "EXECUTED" /\ ResultOf("REJECTED") = "REJECTED"
      /\ ResultOf("INTERNAL_ERROR") = "INTERNAL_ERROR"
  BY DEF Outcomes, ResultOf
<1>3. ASSUME NEW e \in executions, e.key = Key,
             Executed(IF e.status = "APPLIED" THEN "OK" ELSE e.status)
      PROVE  /\ \E o \in Outcomes : Executed(o)
             /\ job.pending = 0
             /\ job'.result \in {"EXECUTED", "REJECTED"}
             /\ job'.result = "EXECUTED" => Effects(job.msg) # {}
  <2>1. job.pending = 0 /\ (e.status = "APPLIED" => Effects(job.msg) # {})
    BY <1>0, <1>3, RecordedEffect
  <2>2. CASE e.status = "APPLIED"
    BY <1>1, <1>2, <1>3, <2>1, <2>2
  <2>3. CASE e.status = "REJECTED"
    BY <1>1, <1>2, <1>3, <2>1, <2>3
  <2> QED
    BY <2>2, <2>3, RecordStatus DEF ExecutionStatuses
<1>4. ASSUME Apply PROVE Executed("OK") /\ job'.result = "EXECUTED"
  BY <1>1, <1>2, <1>4 DEF Apply
<1>5. ASSUME Refuse PROVE Executed("REJECTED") /\ job'.result = "REJECTED"
  BY <1>1, <1>2, <1>5 DEF Refuse
<1>6. ASSUME RollBack PROVE Executed("INTERNAL_ERROR") /\ job'.result = "INTERNAL_ERROR"
  BY <1>1, <1>2, <1>6 DEF RollBack
<1>7. \E o \in Outcomes : Executed(o)
  BY <1>2, <1>3, <1>4, <1>5, <1>6, ExecuteForms
<1>8. \/ /\ job.pending = 0 /\ UNCHANGED <<executions, applied, mishaps, cut>>
         /\ job'.result \in {"EXECUTED", "REJECTED"}
         /\ job'.result = "EXECUTED" => Effects(job.msg) # {}
      \/ /\ Apply /\ UNCHANGED <<mishaps, cut>> /\ job'.result = "EXECUTED"
         /\ \A e \in executions : e.key # Key
      \/ Refuse /\ job'.result = "REJECTED" /\ \A e \in executions : e.key # Key
      \/ RollBack /\ job'.result = "INTERNAL_ERROR"
  BY <1>3, <1>4, <1>5, <1>6, ExecuteForms
<1> QED
  BY <1>0, <1>1, <1>7, <1>8

LEMMA JobWorking == ASSUME TypeOK, Working, RecordsFit, JobStep PROVE Working'
<1>0. /\ job \in Jobs /\ job # NoJob /\ JobFits /\ RowsAreLive
      /\ job.msg \in Messages /\ job.origin \in Messages /\ pc[job.msg] = "processing"
      /\ row \in [Messages -> Row]
      /\ pc \in [Messages -> {"none", "created", "processing", "ended"}]
  BY Types, NoJobType
     DEF JobStep, Resolve, Execute, Supersede, Create, Complete, Reply, Working, JobFits
<1>1. ASSUME UNCHANGED <<row, attempts, ready, pc>>, job.step # "reply", job'.step # "reply"
      PROVE  RowsAreLive'
  BY <1>0, <1>1 DEF RowsAreLive, Due
<1>2. CASE Resolve
  <2>1. /\ job'.step \in {"execute", "complete"} /\ job'.result = job.result
        /\ job'.msg = job.msg /\ job'.origin = job.origin /\ job'.pending = job.pending
        /\ job.result # "EXECUTED" /\ job.step \in {"confirm", "decline"}
    BY <1>0, <1>2, JobMoves DEF Resolve, Steps, Jobs, Working, JobResult
  <2>2. pendings'[job.pending].status # "WAITING"
    BY <1>0, <1>2, ResolveSettles
  <2>3. UNCHANGED <<row, attempts, ready, result, pc>>
    BY <1>2 DEF Resolve, rows
  <2> QED
    BY <1>0, <1>1, <2>1, <2>2, <2>3 DEF Working, JobFits, JobResult
<1>3. CASE Execute
  <2> PICK m \in Messages : m = job.msg
    BY <1>0
  <2>1. Effects(m) \subseteq Effects(m)'
    BY <1>0, <1>3, EffectsStay, ExecuteMoves DEF Refuse, RollBack
  <2>2. job'.result = "EXECUTED" => Effects(m)' # {}
    <3>1. CASE Apply
      <4>1. Len(applied) + 1 \in Effects(m)'
        BY <1>0, <1>3, <3>1, ApplyAdds DEF Execute, Effects
      <4> QED
        BY <4>1
    <3> QED
      BY <1>3, <2>1, <3>1, ExecuteMoves
  <2>3. job'.msg = m
    BY <1>3, ExecuteMoves
  <2> QED
    BY <1>0, <1>1, <1>3, <2>2, <2>3, ExecuteMoves DEF Working, JobFits, JobResult, Effects
<1>4. CASE Supersede \/ Create
  <2>1. /\ job'.step \in {"create", "complete"} /\ job'.result = job.result
        /\ job'.msg = job.msg /\ job'.origin = job.origin /\ job'.pending = job.pending
        /\ job.result # "EXECUTED" /\ job.step \in {"supersede", "create"}
    BY <1>0, <1>4, JobMoves DEF Supersede, Create, Steps, Jobs, Working, JobResult
  <2>2. UNCHANGED <<row, attempts, ready, result, pc>>
    BY <1>4 DEF Supersede, Create, rows
  <2> QED
    BY <1>0, <1>1, <2>1, <2>2 DEF Working, JobFits, JobResult
<1>5. CASE Complete
  <2>1. /\ job'.step = "reply" /\ job'.result = job.result /\ job.step = "complete"
        /\ job'.msg = job.msg /\ job'.origin = job.origin /\ job'.pending = job.pending
    BY <1>0, <1>5, JobMoves DEF Complete, Steps, Jobs
  <2>2. UNCHANGED <<attempts, ready, pc, applied>> /\ row' = [row EXCEPT ![job.msg] = "COMPLETED"]
    BY <1>5 DEF Complete
  <2>3. RowsAreLive'
    BY <1>0, <2>1, <2>2 DEF RowsAreLive, Due
  <2> QED
    BY <1>0, <2>1, <2>2, <2>3 DEF Working, JobFits, JobResult, Effects
<1>6. CASE Reply
  <2>1. UNCHANGED <<row, attempts, ready>> /\ job' = NoJob
        /\ pc' = [pc EXCEPT ![job.msg] = "ended"]
    BY <1>6 DEF Reply, store, rows
  <2>2. RowsAreLive'
    BY <1>0, <2>1 DEF RowsAreLive, Due
  <2> QED
    BY <2>1, <2>2, NoJobFits DEF Working
<1> QED
  BY <1>2, <1>3, <1>4, <1>5, <1>6 DEF JobStep

LEMMA WorkingNext == TypeOK /\ Working /\ RecordsFit /\ [Next]_vars => Working'
<1> SUFFICES ASSUME TypeOK, Working, RecordsFit, [Next]_vars PROVE Working'
  OBVIOUS
<1>0. /\ row \in [Messages -> Row]
      /\ pc \in [Messages -> {"none", "created", "processing", "ended"}]
      /\ ready \subseteq {m \in Messages : row[m] = "RETRY_PENDING"}
  BY Types
<1>1. ASSUME NEW m \in Messages, Arrive(m) \/ BecomeDue(m) \/ Handle(m) PROVE Working'
  BY <1>1, InboxWorking, BeginWorking DEF Handle
<1>2. CASE TakeBatch
  <2>1. /\ UNCHANGED <<row, attempts, ready, job>> /\ job = NoJob
        /\ \A m \in Messages : pc'[m] = "created" => m \in Due
        /\ \A m \in Messages : pc'[m] # "processing"
    BY <1>2 DEF TakeBatch, store, rows
  <2>2. Due' = Due
    BY <2>1 DEF Due
  <2>3. RowsAreLive'
    BY <2>1, <2>2 DEF Working, RowsAreLive
  <2> QED
    BY <2>1, <2>3, NoJobFits DEF Working
<1>3. CASE JobStep
  BY <1>3, JobWorking
<1>4. CASE Raise
  <2>1. job' = NoJob /\ job.msg \in Messages /\ row[job.msg] # "DEAD_LETTER"
        /\ RetryOrDead(job.msg)
    BY <1>4 DEF Raise, Working, JobFits, RowsAreLive
  <2> QED
    BY <2>1, RetryLive, NoJobFits DEF Working
<1>5. CASE \E p \in DOMAIN pendings : Expire(p)
  <2>1. UNCHANGED <<row, attempts, ready, result, pc, job>> /\ job = NoJob
    BY <1>5 DEF Expire, rows
  <2>2. RowsAreLive'
    BY <2>1 DEF Working, RowsAreLive, Due
  <2> QED
    BY <2>1, <2>2, NoJobFits DEF Working
<1>6. CASE AdminWrite
  BY <1>6 DEF AdminWrite, rows, Working, RowsAreLive, Due, JobFits, JobResult, Effects
<1>7. CASE Crash
  <2>1. /\ job' = NoJob /\ attempts' = attempts /\ \A m \in Messages : pc'[m] = "none"
        /\ row' = [m \in Messages |-> IF row[m] = "PROCESSING" THEN "RECEIVED" ELSE row[m]]
    BY <1>7 DEF Crash, ResetStale
  <2>2. RowsAreLive'
    BY <2>1 DEF Working, RowsAreLive
  <2> QED
    BY <2>1, <2>2, NoJobFits DEF Working
<1>8. CASE UNCHANGED vars
  BY <1>8 DEF vars, rows, Working, RowsAreLive, Due, JobFits, JobResult, Effects
<1> QED
  BY <1>1, <1>2, <1>3, <1>4, <1>5, <1>6, <1>7, <1>8 DEF Next

-----------------------------------------------------------------------------
(* The ledger and the effects.                                             *)

\* A settled question stays as it is, whatever happens.
LEMMA QuestionsNext ==
  ASSUME TypeOK, JobFits, [Next]_vars
  PROVE  /\ DOMAIN pendings \subseteq DOMAIN pendings'
         /\ \A p \in DOMAIN pendings :
              /\ pendings'[p].origin = pendings[p].origin
              /\ pendings'[p].from = pendings[p].from
              /\ pendings[p].status # "WAITING" => pendings'[p] = pendings[p]
<1>0. Len(pendings) \in Nat /\ DOMAIN pendings = 1..Len(pendings)
  BY Indices
<1>1. CASE UNCHANGED pendings
  BY <1>1
<1>2. CASE Retagged
  BY <1>0, <1>2, LenProperties DEF Retagged
<1>3. CASE Create
  <2>1. /\ pendings' \in Seq(Question) /\ Len(pendings') = Len(pendings) + 1
        /\ \A p \in DOMAIN pendings : pendings'[p] = pendings[p]
    BY <1>3, CreateAdds DEF Added
  <2> QED
    BY <1>0, <2>1, LenProperties
<1>4. ASSUME NEW m \in Messages, Handle(m) PROVE UNCHANGED pendings
  BY <1>4, BeginForms DEF Handle, Claim, FailEarly, Drop, Fallback
<1>5. CASE JobStep
  BY <1>1, <1>2, <1>3, <1>5, ResolveSettles, SupersedeSettles
     DEF JobStep, Execute, Complete, Reply, store
<1>6. CASE \E p \in DOMAIN pendings : Expire(p)
  BY <1>2, <1>6, ExpireSettles
<1> QED
  BY <1>1, <1>4, <1>5, <1>6
     DEF Next, vars, store, Arrive, BecomeDue, TakeBatch, Raise, AdminWrite, Crash

\* Only a command that is not on record is put on record.
LEMMA RecordsNext ==
  ASSUME TypeOK, Working, RecordsFit, [Next]_vars
  PROVE  \/ UNCHANGED <<executions, applied>>
         \/ /\ Execute /\ \A e \in executions : e.key # Key
            /\ \/ Apply
               \/ Refuse
<1>1. ASSUME NEW m \in Messages, Handle(m) PROVE UNCHANGED <<executions, applied>>
  BY <1>1, BeginForms DEF Handle, Claim, FailEarly, Drop, Fallback
<1>2. CASE JobStep
  BY <1>2, ExecuteMoves
     DEF JobStep, Resolve, RollBack, Supersede, Create, Complete, Reply, store
<1> QED
  BY <1>1, <1>2
     DEF Next, vars, store, Arrive, BecomeDue, TakeBatch, Raise, Expire, AdminWrite, Crash

\* What a step puts on record.
LEMMA NewRecord ==
  ASSUME TypeOK, Working, Execute, Apply \/ Refuse, \A e \in executions : e.key # Key
  PROVE  \E s \in ExecutionStatuses :
           /\ executions' = executions \cup {[key |-> Key, status |-> s]}
           /\ [key |-> Key, status |-> s] \notin executions
           /\ s = "APPLIED" <=> Apply
<1>1. ASSUME NEW s \in ExecutionStatuses PROVE [key |-> Key, status |-> s] \notin executions
  OBVIOUS
<1> QED
  BY <1>1 DEF Apply, Refuse, ExecutionStatuses

LEMMA RecordsFitNext == TypeOK /\ Working /\ RecordsFit /\ [Next]_vars => RecordsFit'
<1> SUFFICES ASSUME TypeOK, Working, RecordsFit, [Next]_vars PROVE RecordsFit'
  OBVIOUS
<1> DEFINE Fits(e) ==
             /\ e.key[1] = "confirm" =>
                  /\ e.key[2] \in DOMAIN pendings
                  /\ pendings[e.key[2]].status # "WAITING"
             /\ e.key[1] = "direct" /\ e.status = "APPLIED" => Effects(e.key[2]) # {}
<1>0. JobFits /\ job \in Jobs
  BY Types DEF Working
<1>1. ASSUME NEW e \in executions PROVE Fits(e)'
  <2>1. Fits(e)
    BY DEF RecordsFit
  <2>2. e.key[1] = "confirm" =>
          e.key[2] \in DOMAIN pendings' /\ pendings'[e.key[2]].status # "WAITING"
    BY <1>0, <2>1, QuestionsNext
  <2>3. PICK m : m = e.key[2]
    OBVIOUS
  <2>4. Effects(m) \subseteq Effects(m)'
    BY <1>0, EffectsNext, EffectsStay
  <2> QED
    BY <2>1, <2>2, <2>3, <2>4
<1>2. IsFiniteSet(executions') /\ \A e \in executions' : Fits(e)'
  <2>1. CASE UNCHANGED <<executions, applied>>
    BY <1>1, <2>1 DEF RecordsFit
  <2>2. CASE Execute /\ (Apply \/ Refuse) /\ \A e \in executions : e.key # Key
    <3>1. PICK s \in ExecutionStatuses :
            executions' = executions \cup {[key |-> Key, status |-> s]} /\ (s = "APPLIED" <=> Apply)
      BY <2>2, NewRecord
    <3>2. IsFiniteSet(executions')
      BY <3>1, FS_AddElement DEF RecordsFit
    <3>3. job.step = "execute" /\ UNCHANGED pendings
          /\ (job.pending = 0 => Key = <<"direct", job.msg>>)
          /\ (job.pending # 0 => Key = <<"confirm", job.pending>>)
      BY <1>0, <2>2, KeyType DEF Execute
    <3> PICK new : new = [key |-> Key, status |-> s]
      OBVIOUS
    <3>4. CASE job.pending # 0
      <4>1. new.key[1] = "confirm" /\ new.key[2] = job.pending
        BY <3>3, <3>4
      <4>2. job.pending \in DOMAIN pendings
        BY <1>0, <3>4, Types, Indices DEF Jobs
      <4>3. pendings[job.pending].status # "WAITING"
        BY <1>0, <3>3, <3>4, NoJobType DEF JobFits
      <4>4. Fits(new)'
        BY <3>3, <4>1, <4>2, <4>3
      <4> QED
        BY <1>1, <3>1, <3>2, <4>4
    <3>5. CASE job.pending = 0
      <4>1. new.key[1] = "direct" /\ new.key[2] = job.msg /\ new.status = s
        BY <3>3, <3>5
      <4>2. Apply => \E i \in DOMAIN applied' : applied'[i].by = job.msg
        BY <1>0, <3>3, ApplyAdds
      <4>3. Fits(new)'
        BY <3>1, <4>1, <4>2 DEF Effects
      <4> QED
        BY <1>1, <3>1, <3>2, <4>3
    <3> QED
      BY <3>4, <3>5
  <2> QED
    BY <2>1, <2>2, RecordsNext
<1>3. (job.step = "execute" /\ job.pending # 0 => \A e \in executions : e.key # Key)'
  <2>1. CASE job' = job /\ UNCHANGED executions
    BY <2>1 DEF RecordsFit, Key
  <2>2. CASE job' = NoJob
    BY <2>2, NoJobType
  <2>3. CASE Resolve
    <3>1. /\ job'.pending = job.pending /\ UNCHANGED executions
          /\ job.pending \in DOMAIN pendings /\ pendings[job.pending].status = "WAITING"
      BY <1>0, <2>3, NoJobType DEF Resolve, Goto, Jobs, JobFits
    <3>2. SUFFICES ASSUME job.pending # 0, NEW e \in executions, e.key = <<"confirm", job.pending>>
                   PROVE  FALSE
      BY <3>1 DEF Key
    <3>3. e.key[1] = "confirm" /\ e.key[2] = job.pending
      BY <3>2
    <3> QED
      BY <3>1, <3>3 DEF RecordsFit
  <2>4. CASE Execute
    BY <2>4, ExecuteMoves
  <2>5. CASE Supersede \/ Create \/ Complete
    BY <1>0, <2>5 DEF Supersede, Create, Complete, Goto, Jobs
  <2>6. ASSUME NEW m \in Messages, Handle(m)
        PROVE  (job' = job /\ UNCHANGED executions) \/ (job'.step = "execute" => job'.pending = 0)
    <3>1. CASE Claim(m) \/ FailEarly(m) \/ Drop(m) \/ Fallback(m)
      BY <3>1 DEF Claim, FailEarly, Drop, Fallback
    <3>2. CASE Act(m) \/ Ask(m) \/ Confirm(m) \/ Correct(m) \/ Decline(m)
      BY <3>2, BeginForms, StartsType
    <3> QED
      BY <2>6, <3>1, <3>2 DEF Handle
  <2> QED
    BY <2>1, <2>2, <2>3, <2>4, <2>5, <2>6
       DEF Next, JobStep, Reply, vars, store, Arrive, BecomeDue, TakeBatch, Raise, Expire,
           AdminWrite, Crash
<1> QED
  BY <1>2, <1>3 DEF RecordsFit

LEMMA LedgerNext ==
  TypeOK /\ Working /\ RecordsFit /\ LedgerCountsEffects /\ [Next]_vars => LedgerCountsEffects'
<1> SUFFICES ASSUME TypeOK, Working, RecordsFit, LedgerCountsEffects, [Next]_vars
             PROVE  LedgerCountsEffects'
  OBVIOUS
<1>0. JobFits /\ Len(applied) \in Nat /\ IsFiniteSet(executions)
  BY Indices DEF Working, RecordsFit
<1>1. Len(applied) = Cardinality(Applied)
  BY DEF LedgerCountsEffects, Applied
<1>2. Len(applied') = Cardinality(Applied')
  <2>1. CASE UNCHANGED <<executions, applied>>
    BY <1>1, <2>1 DEF Applied
  <2>2. CASE Execute /\ (Apply \/ Refuse) /\ \A e \in executions : e.key # Key
    <3>1. PICK s \in ExecutionStatuses :
            /\ executions' = executions \cup {[key |-> Key, status |-> s]}
            /\ [key |-> Key, status |-> s] \notin executions
            /\ s = "APPLIED" <=> Apply
      BY <2>2, NewRecord
    <3>2. CASE Apply
      <4>1. Applied' = Applied \cup {[key |-> Key, status |-> s]}
            /\ [key |-> Key, status |-> s] \notin Applied
        BY <3>1, <3>2 DEF Applied
      <4>2. IsFiniteSet(Applied)
        BY <1>0, FS_Subset DEF Applied
      <4>3. Cardinality(Applied') = Cardinality(Applied) + 1
        BY <4>1, <4>2, FS_AddElement
      <4>4. Len(applied') = Len(applied) + 1
        BY <1>0, <2>2, <3>2, ApplyAdds DEF Execute
      <4> QED
        BY <1>1, <4>3, <4>4
    <3>3. CASE ~Apply
      <4>1. Applied' = Applied
        BY <3>1, <3>3 DEF Applied
      <4>2. applied' = applied
        BY <2>2, <3>3 DEF Refuse
      <4> QED
        BY <1>1, <4>1, <4>2
    <3> QED
      BY <3>2, <3>3
  <2> QED
    BY <2>1, <2>2, RecordsNext
<1> QED
  BY <1>2 DEF LedgerCountsEffects, Applied

LEMMA CurrentNext ==
  TypeOK /\ Working /\ ConfirmedActionIsCurrent /\ [Next]_vars => ConfirmedActionIsCurrent'
BY EffectsNext, ApplyAdds DEF ConfirmedActionIsCurrent, Working

\* A row gets its result when its message is done with.
LEMMA ResultsNext == TypeOK /\ Working /\ ResultsFit /\ [Next]_vars => ResultsFit'
<1> SUFFICES ASSUME TypeOK, Working, ResultsFit, [Next]_vars,
                    NEW m \in Messages, result'[m] = "EXECUTED"
             PROVE  Effects(m)' # {}
  BY DEF ResultsFit
<1>1. Effects(m) \subseteq Effects(m)' /\ result \in [Messages -> Results]
  BY EffectsNext, EffectsStay, Types DEF Working
<1>2. CASE result'[m] = result[m]
  BY <1>1, <1>2 DEF ResultsFit
<1>3. CASE Complete /\ result'[m] # result[m]
  BY <1>1, <1>3 DEF Complete, Working, JobResult
<1>4. ASSUME NEW i \in Messages, Handle(i) PROVE result'[m] = result[m] \/ result'[m] # "EXECUTED"
  BY <1>1, <1>4, BeginForms DEF Handle, Claim, FailEarly, RetryOrDead, Drop, Fallback, Finish
<1> QED
  BY <1>2, <1>3, <1>4, ExecuteMoves
     DEF Next, JobStep, Resolve, Execute, Supersede, Create, Reply, vars, store, rows, Arrive,
         BecomeDue, TakeBatch, Raise, RetryOrDead, Expire, AdminWrite, Crash

-----------------------------------------------------------------------------
(* What a step does unless it cuts a job short.                            *)

\* A crash or a late error is counted for the message of the job, and nothing
\* else is counted.
LEMMA CutNext ==
  ASSUME TypeOK, [Next]_vars, NEW m \in Messages
  PROVE  /\ cut[m] \in Nat /\ cut'[m] \in Nat
         /\ Raise \/ Crash => cut'[m] = IF m = job.msg THEN cut[m] + 1 ELSE cut[m]
         /\ ~Raise /\ ~Crash => UNCHANGED cut
<1>1. cut[m] \in Nat
  BY Types
<1>2. Raise \/ Crash => cut'[m] = IF m = job.msg THEN cut[m] + 1 ELSE cut[m]
  BY DEF Raise, Crash, JobIsCut
<1>3. ASSUME ~Raise, ~Crash PROVE UNCHANGED cut
  <2>1. ASSUME NEW i \in Messages, Handle(i) PROVE UNCHANGED cut
    BY <2>1, BeginForms DEF Handle, Claim, FailEarly, Drop, Fallback
  <2>2. CASE JobStep
    BY <2>2
       DEF JobStep, Resolve, Execute, Refuse, RollBack, Supersede, Create, Complete, Reply, store
  <2> QED
    BY <1>3, <2>1, <2>2
       DEF Next, vars, store, Arrive, BecomeDue, TakeBatch, Expire, AdminWrite
<1> QED
  BY <1>1, <1>2, <1>3

\* The job goes on or a message starts one.
LEMMA JobNext ==
  ASSUME TypeOK, Working, [Next]_vars, ~Raise, ~Crash
  PROVE  \/ job' = job
         \/ /\ job = NoJob /\ UNCHANGED <<pendings, executions, applied>>
            /\ \E m \in Messages : row[m] = "PROCESSING" /\ Starts(m)
         \/ JobStep
<1>1. ASSUME NEW m \in Messages, Handle(m)
      PROVE  \/ job' = job
             \/ /\ job = NoJob /\ UNCHANGED <<pendings, executions, applied>>
                /\ row[m] = "PROCESSING" /\ Starts(m)
  <2>1. CASE Claim(m) \/ FailEarly(m) \/ Drop(m) \/ Fallback(m)
    BY <2>1 DEF Claim, FailEarly, Drop, Fallback
  <2>2. CASE Act(m) \/ Ask(m) \/ Confirm(m) \/ Correct(m) \/ Decline(m)
    BY <2>2, BeginForms, ClaimedRow DEF MyTurn
  <2> QED
    BY <1>1, <2>1, <2>2 DEF Handle
<1> QED
  BY <1>1
     DEF Next, vars, Arrive, BecomeDue, TakeBatch, Expire, AdminWrite

LEMMA QuestionSteps ==
  ASSUME [Next]_vars
  PROVE  \/ UNCHANGED pendings
         \/ Resolve \/ Supersede \/ Create
         \/ \E p \in DOMAIN pendings : Expire(p)
<1>1. ASSUME NEW m \in Messages, Handle(m) PROVE UNCHANGED pendings
  BY <1>1, BeginForms DEF Handle, Claim, FailEarly, Drop, Fallback
<1> QED
  BY <1>1 DEF Next, JobStep, Execute, Complete, Reply, vars, store, Arrive, BecomeDue, TakeBatch,
              Raise, AdminWrite, Crash

\* No question waits anew, but the one that a job has just asked.
LEMMA WaitingNext ==
  ASSUME TypeOK, JobFits, [Next]_vars, NEW p \in Waiting'
  PROVE  \/ p \in Waiting /\ pendings'[p].origin = pendings[p].origin
         \/ Create /\ p \notin DOMAIN pendings /\ pendings'[p].origin = job.origin
<1>0. Waiting \subseteq DOMAIN pendings
  BY DEF Waiting
<1>1. CASE UNCHANGED pendings
  BY <1>1 DEF Waiting
<1>2. CASE Retagged
  BY <1>0, <1>2 DEF Retagged
<1>3. CASE Create
  <2>1. /\ pendings' \in Seq(Question) /\ Len(pendings') = Len(pendings) + 1
        /\ \A q \in DOMAIN pendings : pendings'[q] = pendings[q]
        /\ pendings'[Len(pendings')].origin = job.origin
    BY <1>3, CreateAdds DEF Added
  <2>2. DOMAIN pendings' = DOMAIN pendings \cup {Len(pendings')} /\ Len(pendings') \notin DOMAIN pendings
    BY <2>1, Indices, LenProperties
  <2> QED
    BY <1>3, <2>1, <2>2 DEF Waiting
<1> QED
  BY <1>1, <1>2, <1>3, QuestionSteps, ResolveSettles, SupersedeSettles, ExpireSettles

\* A crash or a late error touches no settled message but that of the job.
LEMMA OthersStaySettled ==
  ASSUME TypeOK, Raise \/ Crash, NEW m \in Messages, m # job.msg, row[m] \in Settled
  PROVE  row'[m] = row[m] /\ result'[m] = result[m]
BY Types DEF Raise, RetryOrDead, Crash, ResetStale, Settled

\* A message that is settled stays so, with its result.
LEMMA SettledStays ==
  ASSUME TypeOK, Working, [Next]_vars, ~Raise, ~Crash,
         NEW m \in Messages, row[m] \in Settled
  PROVE  row'[m] = row[m] /\ result'[m] = result[m]
<1> USE DEF Settled
<1>0. row \in [Messages -> Row] /\ result \in [Messages -> Results]
  BY Types
<1>1. ASSUME NEW i \in Messages, Handle(i) PROVE row'[m] = row[m] /\ result'[m] = result[m]
  <2>1. CASE Claim(i)
    BY <1>0, <2>1, CreatedRow DEF Claim
  <2>2. CASE FailEarly(i)
    BY <1>0, <2>2, CreatedRow, ClaimedRow DEF FailEarly, RetryOrDead
  <2>3. CASE Drop(i) \/ Fallback(i)
    BY <1>0, <2>3, ClaimedRow DEF Drop, Fallback, MyTurn, RetryOrDead, Finish
  <2>4. CASE Act(i) \/ Ask(i) \/ Confirm(i) \/ Correct(i) \/ Decline(i)
    BY <1>0, <2>4, BeginForms, ClaimedRow DEF MyTurn, Finish
  <2> QED
    BY <1>1, <2>1, <2>2, <2>3, <2>4 DEF Handle
<1>2. CASE Complete
  BY <1>0, <1>2, NoJobType DEF Complete, Working, JobFits
<1>3. CASE JobStep /\ ~Complete
  BY <1>3, ExecuteMoves DEF JobStep, Resolve, Execute, Supersede, Create, Reply, store, rows
<1>4. ASSUME NEW i \in Messages, Arrive(i) \/ BecomeDue(i) PROVE row'[m] = row[m] /\ result'[m] = result[m]
  BY <1>0, <1>4 DEF Arrive, BecomeDue
<1> QED
  BY <1>1, <1>2, <1>3, <1>4
     DEF Next, vars, store, rows, TakeBatch, Expire, AdminWrite

-----------------------------------------------------------------------------
(* The tokens.                                                             *)

\* What was done with is done with: no token for the row of a message comes
\* back unless its processing is cut short.
LEMMA RowOwesNext ==
  ASSUME TypeOK, Working, RecordsFit, [Next]_vars, ~Raise, ~Crash, NEW m \in Messages, RowOwes(m)'
  PROVE  RowOwes(m)
<1>0. job.msg = m /\ job.step = "complete" => row[m] = "PROCESSING"
  BY NoJobType DEF Working, JobFits
<1>1. CASE row[m] \in Settled
  BY <1>1, SettledStays DEF RowOwes
<1>2. CASE job.msg = m /\ job.step = "complete"
  <2>1. CASE job' = job
    BY <1>2, <2>1 DEF RowOwes
  <2>2. CASE Complete
    BY <1>2, <2>2, Types DEF Complete, RowOwes, Settled
  <2> QED
    BY <1>2, <2>1, <2>2, JobNext, NoJobType
       DEF JobStep, Resolve, Execute, Supersede, Create, Reply
<1> QED
  BY <1>1, <1>2 DEF RowOwes

LEMMA TokensAreFinite ==
  ASSUME TypeOK, NEW m
  PROVE  /\ IsFiniteSet(EffectsFor(m)) /\ Cardinality(EffectsFor(m)) \in Nat
         /\ IsFiniteSet(QuestionsOf(m)) /\ Cardinality(QuestionsOf(m)) \in Nat
<1>1. IsFiniteSet(1..Len(applied)) /\ IsFiniteSet(1..Len(pendings))
  BY Indices, FS_Interval
<1>2. EffectsFor(m) \subseteq 1..Len(applied) /\ QuestionsOf(m) \subseteq 1..Len(pendings)
  BY Indices DEF EffectsFor, QuestionsOf, Waiting
<1> QED
  BY <1>1, <1>2, FS_Subset, FS_CardinalityType

\* An effect for m is counted for m only.
LEMMA EffectsForNext ==
  ASSUME TypeOK, JobFits, NEW m, UNCHANGED applied \/ (job.step = "execute" /\ Apply)
  PROVE  \/ Cardinality(EffectsFor(m)') = Cardinality(EffectsFor(m))
         \/ /\ job.step = "execute" /\ Apply /\ job.origin = m
            /\ Cardinality(EffectsFor(m)') = Cardinality(EffectsFor(m)) + 1
<1>1. CASE UNCHANGED applied
  BY <1>1 DEF EffectsFor
<1>2. CASE job.step = "execute" /\ Apply /\ job.origin # m
  <2>1. EffectsFor(m)' = EffectsFor(m)
    BY <1>2, ApplyAdds DEF EffectsFor
  <2> QED
    BY <2>1
<1>3. CASE job.step = "execute" /\ Apply /\ job.origin = m
  <2> DEFINE n == Len(applied) + 1
  <2>1. EffectsFor(m)' = EffectsFor(m) \cup {n} /\ n \notin EffectsFor(m)
    BY <1>3, ApplyAdds DEF EffectsFor
  <2> HIDE DEF n
  <2> QED
    BY <1>3, <2>1, TokensAreFinite, FS_AddElement
<1> QED
  BY <1>1, <1>2, <1>3

\* A question more is the job's, and an answer takes one away.
LEMMA QuestionsOfNext ==
  ASSUME TypeOK, JobFits, [Next]_vars, NEW m
  PROVE  /\ Cardinality(QuestionsOf(m)') \in Nat
         /\ \/ Cardinality(QuestionsOf(m)') <= Cardinality(QuestionsOf(m))
            \/ /\ Create /\ job.origin = m
               /\ Cardinality(QuestionsOf(m)') <= Cardinality(QuestionsOf(m)) + 1
         /\ Resolve /\ job.origin = m =>
              Cardinality(QuestionsOf(m)') + 1 <= Cardinality(QuestionsOf(m))
<1>0. IsFiniteSet(QuestionsOf(m)) /\ Cardinality(QuestionsOf(m)) \in Nat
  BY TokensAreFinite
<1>1. ASSUME ~Create \/ job.origin # m
      PROVE  QuestionsOf(m)' \subseteq QuestionsOf(m)
  BY <1>1, WaitingNext DEF QuestionsOf
<1>2. CASE Create /\ job.origin = m
  <2> PICK n : n = Len(pendings')
    OBVIOUS
  <2>1. DOMAIN pendings' = DOMAIN pendings \cup {n}
    <3>1. pendings' \in Seq(Question) /\ Len(pendings') = Len(pendings) + 1
      BY <1>2, CreateAdds DEF Added
    <3> QED
      BY <3>1, Indices, LenProperties
  <2>2. QuestionsOf(m)' \subseteq QuestionsOf(m) \cup {n}
    BY <2>1, WaitingNext DEF QuestionsOf, Waiting
  <2>3. /\ IsFiniteSet(QuestionsOf(m) \cup {n})
        /\ Cardinality(QuestionsOf(m) \cup {n}) \in Nat
        /\ Cardinality(QuestionsOf(m) \cup {n}) <= Cardinality(QuestionsOf(m)) + 1
    <3> PICK S : S = QuestionsOf(m)
      OBVIOUS
    <3>1. IsFiniteSet(S) /\ Cardinality(S) \in Nat
      BY <1>0
    <3>2. IsFiniteSet(S \cup {n}) /\ Cardinality(S \cup {n}) \in {Cardinality(S), Cardinality(S) + 1}
      BY <3>1, FS_AddElement
    <3> QED
      BY <3>1, <3>2
  <2>4. /\ Cardinality(QuestionsOf(m)') \in Nat
        /\ Cardinality(QuestionsOf(m)') <= Cardinality(QuestionsOf(m) \cup {n})
    BY <2>2, <2>3, FS_Subset, FS_CardinalityType
  <2> QED
    BY <1>0, <1>2, <2>3, <2>4 DEF Create, Resolve
<1>3. CASE Resolve /\ job.origin = m
  <2> PICK p : p = job.pending
    OBVIOUS
  <2>1. p \in QuestionsOf(m) /\ p \notin QuestionsOf(m)'
    BY <1>3, ResolveSettles, NoJobType DEF QuestionsOf, Waiting, Resolve, JobFits
  <2>2. QuestionsOf(m)' \subseteq QuestionsOf(m) \ {p}
    BY <1>1, <1>3, <2>1 DEF Resolve, Create
  <2>3. /\ IsFiniteSet(QuestionsOf(m) \ {p})
        /\ Cardinality(QuestionsOf(m) \ {p}) = Cardinality(QuestionsOf(m)) - 1
    BY <1>0, <2>1, FS_RemoveElement
  <2>4. /\ Cardinality(QuestionsOf(m)') \in Nat
        /\ Cardinality(QuestionsOf(m)') <= Cardinality(QuestionsOf(m) \ {p})
    BY <2>2, <2>3, FS_Subset, FS_CardinalityType
  <2> QED
    BY <1>0, <2>3, <2>4
<1>4. CASE (~Create \/ job.origin # m) /\ ~(Resolve /\ job.origin = m)
  BY <1>0, <1>1, <1>4, FS_Subset, FS_CardinalityType
<1> QED
  BY <1>2, <1>3, <1>4

\* Every step but one that cuts a job short hands a token on or loses it.
LEMMA TokensNext == TypeOK /\ Working /\ RecordsFit /\ TokensPaidFor /\ [Next]_vars => TokensPaidFor'
<1> SUFFICES ASSUME TypeOK, Working, RecordsFit, TokensPaidFor, [Next]_vars, NEW m \in Messages
             PROVE  Cardinality(EffectsFor(m)')
                      + (Cardinality(QuestionsOf(m)') + Number(RowOwes(m)') + Number(JobOwes(m)'))
                    <= 1 + cut'[m]
  BY DEF TokensPaidFor, Owed
<1> DEFINE E == Cardinality(EffectsFor(m))   E1 == Cardinality(EffectsFor(m)')
           Q == Cardinality(QuestionsOf(m))  Q1 == Cardinality(QuestionsOf(m)')
           R == Number(RowOwes(m))           R1 == Number(RowOwes(m)')
           J == Number(JobOwes(m))           J1 == Number(JobOwes(m)')
           C == cut[m]                       C1 == cut'[m]
<1>0. JobFits /\ job \in Jobs
  BY Types DEF Working
<1>1. /\ E \in Nat /\ Q \in Nat /\ R \in 0..1 /\ J \in 0..1
      /\ E1 \in Nat /\ Q1 \in Nat /\ R1 \in 0..1 /\ J1 \in 0..1
      /\ C \in Nat /\ C1 \in Nat
  <2>1. E \in Nat /\ E1 \in Nat
    BY <1>0, TokensAreFinite, EffectsNext, EffectsForNext
  <2>2. Q \in Nat /\ Q1 \in Nat
    BY <1>0, TokensAreFinite, QuestionsOfNext
  <2> QED
    BY <2>1, <2>2, CutNext DEF Number
<1>2. E + (Q + R + J) <= 1 + C
  BY DEF TokensPaidFor, Owed
<1>3. ASSUME E1 + Q1 + R1 + J1 <= E + Q + R + J, ~Raise, ~Crash
      PROVE  E1 + (Q1 + R1 + J1) <= 1 + C1
  <2>1. C1 = C
    BY <1>3, CutNext
  <2> HIDE DEF E, E1, Q, Q1, R, R1, J, J1, C, C1
  <2> QED
    BY <1>1, <1>2, <1>3, <2>1
<1>4. CASE Raise \/ Crash
  <2>1. E1 = E /\ Q1 <= Q
    <3>1. UNCHANGED applied /\ ~Create
      BY <1>0, <1>4, NoJobType DEF Raise, Crash, Create, Goto, Jobs
    <3>2. E1 = E
      BY <3>1 DEF EffectsFor
    <3> QED
      BY <1>0, <3>1, <3>2, QuestionsOfNext
  <2>2. J1 = 0
    BY <1>4, NoJobType DEF Raise, Crash, JobOwes, Number
  <2>3. ASSUME m = job.msg PROVE E1 + (Q1 + R1 + J1) <= 1 + C1
    <3>1. C1 = C + 1
      BY <1>4, <2>3, CutNext
    <3> HIDE DEF E, E1, Q, Q1, R, R1, J, J1, C, C1
    <3> QED
      BY <1>1, <1>2, <2>1, <2>2, <3>1
  <2>4. ASSUME m # job.msg PROVE E1 + (Q1 + R1 + J1) <= 1 + C1
    <3>1. C1 = C
      BY <1>4, <2>4, CutNext
    <3>2. R1 <= R
      BY <1>4, <2>4, OthersStaySettled DEF RowOwes, Number
    <3> HIDE DEF E, E1, Q, Q1, R, R1, J, J1, C, C1
    <3> QED
      BY <1>1, <1>2, <2>1, <2>2, <3>1, <3>2
  <2> QED
    BY <2>3, <2>4
<1>5. CASE ~Raise /\ ~Crash
  <2>1. R1 <= R
    BY <1>5, RowOwesNext DEF Number
  <2>2. ASSUME ~(Execute /\ Apply), ~Create PROVE E1 = E /\ Q1 <= Q
    <3>1. UNCHANGED applied
      BY <2>2, RecordsNext DEF Refuse
    <3>2. E1 = E
      BY <3>1 DEF EffectsFor
    <3> QED
      BY <1>0, <2>2, <3>2, QuestionsOfNext
  <2>3. ASSUME job' = job PROVE E1 + Q1 + R1 + J1 <= E + Q + R + J
    <3>1. ~(Execute /\ Apply) /\ ~Create /\ J1 = J
      BY <1>0, <1>5, <2>3, ExecuteMoves DEF Create, Goto, Jobs, JobOwes, Number
    <3> HIDE DEF E, E1, Q, Q1, R, R1, J, J1, C, C1
    <3> QED
      BY <1>1, <2>1, <2>2, <3>1
  <2>4. ASSUME NEW i \in Messages, job = NoJob, Starts(i) PROVE E1 + Q1 + R1 + J1 <= E + Q + R + J
    <3>1. ~(Execute /\ Apply) /\ ~Create
      BY <2>4, NoJobType DEF Execute, Create
    <3>2. J1 = 0
      BY <2>4, StartsType DEF JobOwes, Number
    <3> HIDE DEF E, E1, Q, Q1, R, R1, J, J1, C, C1
    <3> QED
      BY <1>1, <2>1, <2>2, <3>1, <3>2
  <2>5. ASSUME Resolve PROVE E1 + Q1 + R1 + J1 <= E + Q + R + J
    <3>1. ~(Execute /\ Apply) /\ ~Create
      BY <2>5 DEF Execute, Create, Resolve
    <3>2. CASE job.origin = m
      <4>1. Q1 + 1 <= Q
        BY <1>0, <2>5, <3>2, QuestionsOfNext
      <4> HIDE DEF E, E1, Q, Q1, R, R1, J, J1, C, C1
      <4> QED
        BY <1>1, <2>1, <2>2, <3>1, <4>1
    <3>3. CASE job.origin # m
      <4>1. J1 = 0
        BY <1>0, <2>5, <3>3 DEF Resolve, Goto, Jobs, JobOwes, Number
      <4> HIDE DEF E, E1, Q, Q1, R, R1, J, J1, C, C1
      <4> QED
        BY <1>1, <2>1, <2>2, <3>1, <4>1
    <3> QED
      BY <3>2, <3>3
\* The job has executed its command or asked its question: it has done with
\* its token, which was the row's if the command is the message's own.
  <2>6. ASSUME (Execute /\ Apply) \/ Create PROVE E1 + Q1 + R1 + J1 <= E + Q + R + J
    <3>1. job'.step = "complete" /\ job'.origin = job.origin /\ job'.msg = job.msg
          /\ job.step \in {"execute", "create"}
      <4>1. CASE Create
        BY <1>0, <4>1 DEF Create, Goto, Jobs
      <4>2. CASE Execute /\ Apply
        BY <4>2, ExecuteMoves DEF Refuse, RollBack, Apply
      <4> QED
        BY <2>6, <4>1, <4>2
    <3>2. J1 = 0
      BY <3>1 DEF JobOwes, Number
    <3>3. E1 + Q1 <= E + Q + (IF job.origin = m THEN 1 ELSE 0)
      <4>1. Create => UNCHANGED applied
        BY DEF Create
      <4>2. Execute => UNCHANGED pendings
        BY DEF Execute
      <4>3. ~(Execute /\ Create)
        BY DEF Execute, Create
      <4>4. CASE Create
        <5>1. E1 = E
          BY <4>1, <4>4 DEF EffectsFor
        <5>2. Q1 <= Q + (IF job.origin = m THEN 1 ELSE 0)
          BY <1>0, <1>1, <4>4, QuestionsOfNext
        <5> HIDE DEF E, E1, Q, Q1
        <5> QED
          BY <1>1, <5>1, <5>2
      <4>5. CASE Execute /\ Apply
        <5>1. Q1 = Q
          BY <4>2, <4>5 DEF QuestionsOf, Waiting
        <5>2. E1 <= E + (IF job.origin = m THEN 1 ELSE 0)
          BY <1>0, <1>1, <4>5, EffectsNext, EffectsForNext
        <5> HIDE DEF E, E1, Q, Q1
        <5> QED
          BY <1>1, <5>1, <5>2
      <4> QED
        BY <2>6, <4>4, <4>5
    <3>4. CASE job.origin # m
      <4> HIDE DEF E, E1, Q, Q1, R, R1, J, J1, C, C1
      <4> QED
        BY <1>1, <2>1, <3>2, <3>3, <3>4
    <3>5. CASE job.origin = m /\ job.pending # 0
      <4>1. J = 1
        BY <3>1, <3>5 DEF JobOwes, Number
      <4> HIDE DEF E, E1, Q, Q1, R, R1, J, J1, C, C1
      <4> QED
        BY <1>1, <2>1, <3>2, <3>3, <3>5, <4>1
    <3>6. CASE job.origin = m /\ job.pending = 0
      <4>1. job.msg = m /\ row[m] = "PROCESSING"
        BY <1>0, <3>1, <3>6, NoJobType DEF JobFits
      <4>2. R = 1 /\ R1 = 0
        BY <3>1, <4>1 DEF RowOwes, Number, Settled
      <4> HIDE DEF E, E1, Q, Q1, R, R1, J, J1, C, C1
      <4> QED
        BY <1>1, <3>2, <3>3, <3>6, <4>2
    <3> QED
      BY <3>4, <3>5, <3>6
  <2>7. ASSUME (Execute /\ ~Apply) \/ Supersede \/ Complete \/ Reply
        PROVE  E1 + Q1 + R1 + J1 <= E + Q + R + J
    <3>1. ~(Execute /\ Apply) /\ ~Create
      BY <2>7 DEF Execute, Create, Supersede, Complete, Reply
    <3>2. J1 <= J
      <4>1. CASE Execute
        BY <4>1, ExecuteMoves DEF JobOwes, Number
      <4>2. CASE Supersede \/ Complete \/ Reply
        BY <1>0, <4>2, NoJobType DEF Supersede, Complete, Reply, Goto, Jobs, JobOwes, Number
      <4> QED
        BY <2>7, <4>1, <4>2
    <3> HIDE DEF E, E1, Q, Q1, R, R1, J, J1, C, C1
    <3> QED
      BY <1>1, <2>1, <2>2, <3>1, <3>2
  <2>8. E1 + Q1 + R1 + J1 <= E + Q + R + J
    <3> HIDE DEF E, E1, Q, Q1, R, R1, J, J1, C, C1
    <3> QED
      BY <1>5, <2>3, <2>4, <2>5, <2>6, <2>7, JobNext DEF JobStep
  <2> QED
    BY <1>3, <1>5, <2>8
<1> QED
  BY <1>4, <1>5

\* Only a job asks a new question.
LEMMA QuestionAdded ==
  ASSUME TypeOK, JobFits, [Next]_vars, NEW p \in DOMAIN pendings', p \notin DOMAIN pendings
  PROVE  Create /\ pendings'[p].origin = job.origin /\ pendings'[p].status = "WAITING"
<1>0. Len(pendings) \in Nat /\ DOMAIN pendings = 1..Len(pendings)
  BY Indices
<1>1. ~Retagged
  BY <1>0, LenProperties DEF Retagged
<1>2. Create
  BY <1>1, QuestionSteps, ResolveSettles, SupersedeSettles, ExpireSettles
<1>3. /\ pendings' \in Seq(Question) /\ Len(pendings') = Len(pendings) + 1
      /\ pendings'[Len(pendings')].origin = job.origin
      /\ pendings'[Len(pendings')].status = "WAITING"
  BY <1>2, CreateAdds DEF Added
<1>4. p = Len(pendings')
  BY <1>0, <1>3, LenProperties
<1> QED
  BY <1>2, <1>3, <1>4

LEMMA EffectsShowNext ==
  ASSUME TypeOK, Working, RecordsFit, [Next]_vars, EffectsShow
  PROVE  EffectsShow'
<1>0. JobFits /\ job \in Jobs
  BY Types DEF Working
<1> DEFINE Shows(m) == \/ cut[m] > 0
                       \/ row[m] = "COMPLETED" /\ result[m] = "EXECUTED"
                       \/ job.msg = m /\ job.step = "complete" /\ job.result = "EXECUTED"
<1>1. ASSUME NEW m \in Messages, Shows(m) PROVE Shows(m)'
  <2>0. CASE cut[m] > 0 \/ ((Raise \/ Crash) /\ m = job.msg)
    BY <2>0, CutNext
  <2>1. CASE row[m] = "COMPLETED" /\ result[m] = "EXECUTED" /\ ~((Raise \/ Crash) /\ m = job.msg)
    BY <2>1, SettledStays, OthersStaySettled DEF Settled
  <2>2. CASE job.msg = m /\ job.step = "complete" /\ job.result = "EXECUTED" /\ ~Raise /\ ~Crash
    <3>1. CASE job' = job
      BY <2>2, <3>1
    <3>2. CASE Complete
      BY <2>2, <3>2, Types DEF Complete
    <3> QED
      BY <2>2, <3>1, <3>2, JobNext, NoJobType
         DEF JobStep, Resolve, Execute, Supersede, Create, Reply
  <2> QED
    BY <1>1, <2>0, <2>1, <2>2
<1>2. ASSUME Execute, Apply, NEW m, m = job.msg PROVE Shows(m)'
  BY <1>2, ExecuteMoves DEF Refuse, RollBack, Apply
<1>3. ASSUME NEW i \in DOMAIN applied', NEW m, m = applied'[i].by PROVE Shows(m)'
  <2>1. CASE i \in DOMAIN applied /\ m = applied[i].by
    <3>1. m \in Messages
      BY <2>1, Indices DEF Effect
    <3>2. Shows(m)
      BY <2>1 DEF EffectsShow
    <3> QED
      BY <1>1, <3>1, <3>2
  <2>2. CASE UNCHANGED applied
    BY <1>3, <2>1, <2>2
  <2>3. CASE Execute /\ Apply
    <3>1. (i \in DOMAIN applied /\ m = applied[i].by) \/ m = job.msg
      BY <1>0, <1>3, <2>3, ApplyAdds DEF Execute
    <3> QED
      BY <1>2, <2>1, <2>3, <3>1
  <2>4. UNCHANGED applied \/ (Execute /\ Apply)
    BY RecordsNext DEF Refuse
  <2> QED
    BY <2>2, <2>3, <2>4
<1> QED
  BY <1>3 DEF EffectsShow

LEMMA UnderWayNext ==
  ASSUME TypeOK, Working, RecordsFit, ~Raise, ~Crash, [Next]_vars, ConfirmedIsUnderWay
  PROVE  ConfirmedIsUnderWay'
<1>0. JobFits /\ job \in Jobs
  BY Types DEF Working
<1> DEFINE Recorded(p) == \E e \in executions : e.key = <<"confirm", p>>
           Asked(p) == \E q \in DOMAIN pendings : pendings[q].from = p
           Busy(p) == /\ job.pending = p
                      /\ \/ job.step = "execute" /\ job.redraft
                         \/ job.step \in {"supersede", "create"}
<1> SUFFICES ASSUME NEW p \in DOMAIN pendings', pendings'[p].status = "CONFIRMED",
                    ~pendings'[p].corrected
             PROVE  Recorded(p)' \/ Asked(p)' \/ Busy(p)'
  BY DEF ConfirmedIsUnderWay
<1>1. p \in DOMAIN pendings /\ p # 0
  <2>1. p \in DOMAIN pendings
    BY <1>0, QuestionAdded
  <2> QED
    BY <2>1, Indices
<1>2. Recorded(p) => Recorded(p)'
  BY RecordsNext DEF Apply, Refuse
<1>3. Asked(p) => Asked(p)'
  BY <1>0, QuestionsNext
<1>4. CASE Resolve /\ p = job.pending
  <2>1. job.step = "confirm" /\ job.redraft
    BY <1>0, <1>4, ResolveSettles DEF Jobs
  <2>2. job'.step = "execute" /\ job'.redraft /\ job'.pending = p
    BY <1>0, <1>4, <2>1 DEF Resolve, Goto, Jobs
  <2> QED
    BY <2>2
<1>5. CASE ~(Resolve /\ p = job.pending)
  <2>1. pendings[p].status = "CONFIRMED" /\ ~pendings[p].corrected
    <3>1. CASE UNCHANGED pendings
      BY <3>1
    <3>2. CASE pendings[p].status # "WAITING"
      BY <1>0, <1>1, <3>2, QuestionsNext
    <3>3. CASE Resolve
      BY <1>0, <1>1, <1>5, <3>3, ResolveSettles
    <3>4. CASE Supersede
      BY <1>1, <3>2, <3>4, SupersedeSettles
    <3>5. CASE Create
      BY <1>0, <1>1, <3>5, CreateAdds DEF Added
    <3>6. ASSUME NEW q \in DOMAIN pendings, Expire(q)
          PROVE  pendings[p].status = "CONFIRMED" /\ ~pendings[p].corrected
      BY <1>1, <3>6, ExpireSettles
    <3> QED
      BY <3>1, <3>3, <3>4, <3>5, <3>6, QuestionSteps
  <2>2. Recorded(p) \/ Asked(p) \/ Busy(p)
    BY <1>1, <2>1 DEF ConfirmedIsUnderWay
  <2>3. ASSUME Busy(p) PROVE Recorded(p)' \/ Asked(p)' \/ Busy(p)'
    <3>1. CASE job' = job
      BY <2>3, <3>1
    <3>2. CASE Execute
      <4>1. job.pending = p /\ job.redraft /\ Key = <<"confirm", p>>
        BY <1>0, <1>1, <2>3, <3>2, KeyType DEF Execute
      <4>2. CASE Apply \/ Refuse
        <5>1. PICK st \in ExecutionStatuses :
                [key |-> <<"confirm", p>>, status |-> st] \in executions'
          BY <4>1, <4>2 DEF Apply, Refuse, ExecutionStatuses
        <5>2. [key |-> <<"confirm", p>>, status |-> st].key = <<"confirm", p>>
          OBVIOUS
        <5> QED
          BY <5>1, <5>2
      <4>3. CASE job'.result = "INTERNAL_ERROR"
        <5>1. job'.step = "supersede" /\ job'.pending = p
          BY <3>2, <4>1, <4>3, ExecuteMoves
        <5> QED
          BY <5>1
      <4> QED
        BY <1>1, <3>2, <4>1, <4>2, <4>3, ExecuteMoves
    <3>3. CASE Supersede
      BY <1>0, <2>3, <3>3 DEF Supersede, Goto, Jobs
    <3>4. CASE Create
      BY <1>0, <2>3, <3>4, Indices, LenProperties, CreateAdds DEF Added
    <3> QED
      BY <1>1, <2>3, <3>1, <3>2, <3>3, <3>4, JobNext, NoJobType
         DEF JobStep, Resolve, Complete, Reply
  <2> QED
    BY <1>2, <1>3, <2>2, <2>3
<1> QED
  BY <1>4, <1>5

-----------------------------------------------------------------------------
(* The order of the messages.                                              *)

\* What a step does to rows, attempts and tasks.
LEMMA TaskSteps ==
  ASSUME TypeOK, Working, [Next]_vars
  PROVE  \/ UNCHANGED <<row, attempts, pc>>
         \/ \E m \in Messages : Arrive(m) \/ Claim(m)
         \/ TakeBatch
         \/ \E m \in Messages : row[m] # "unsent" /\ RetryOrDead(m)
         \/ \E m \in Messages, res \in Results : row[m] # "unsent" /\ Finish(m, res)
         \/ Complete \/ Reply
         \/ Crash
<1>1. ASSUME NEW m \in Messages, Handle(m)
      PROVE  \/ UNCHANGED <<row, attempts, pc>>
             \/ Claim(m)
             \/ row[m] # "unsent" /\ RetryOrDead(m)
             \/ \E res \in Results : row[m] # "unsent" /\ Finish(m, res)
  <2>1. "IGNORED" \in Results /\ "REJECTED" \in Results
    BY DEF Results
  <2>2. job = NoJob /\ pc[m] \in {"created", "processing"} => row[m] # "unsent"
    BY CreatedRow, ClaimedRow
  <2>3. CASE Drop(m)
    BY <2>1, <2>2, <2>3 DEF Drop, MyTurn
  <2>4. CASE FailEarly(m) \/ Fallback(m)
    BY <2>2, <2>4 DEF FailEarly, Fallback, MyTurn
  <2>5. CASE Act(m) \/ Ask(m) \/ Confirm(m) \/ Correct(m) \/ Decline(m)
    BY <2>1, <2>2, <2>5, BeginForms DEF MyTurn
  <2> QED
    BY <1>1, <2>3, <2>4, <2>5 DEF Handle
<1>2. CASE JobStep
  BY <1>2 DEF JobStep, Resolve, Execute, Supersede, Create, rows
<1>3. CASE Raise
  BY <1>3, NoJobType DEF Raise, Working, JobFits
<1> QED
  BY <1>1, <1>2, <1>3
     DEF Next, BecomeDue, Expire, AdminWrite, vars, rows

\* Nobody who has passed is before his turn again.
LEMMA PassedStays ==
  ASSUME TypeOK, Working, [Next]_vars, NEW m \in Messages, Passed(m)
  PROVE  Passed(m)'
<1> USE DEF Passed, Settled
<1>0. /\ row \in [Messages -> Row] /\ attempts \in [Messages -> 0..MaxAttempts]
      /\ \A i \in Messages : attempts[i] \in Nat
  BY Types
<1>1. ASSUME NEW i \in Messages, Arrive(i) \/ Claim(i) PROVE Passed(m)'
  BY <1>0, <1>1, CreatedRow DEF Arrive, Claim
<1>2. ASSUME NEW i \in Messages, RetryOrDead(i) PROVE Passed(m)'
  BY <1>0, <1>2 DEF RetryOrDead
<1>3. ASSUME NEW i \in Messages, NEW res, Finish(i, res) PROVE Passed(m)'
  BY <1>0, <1>3 DEF Finish
<1>4. CASE Complete
  BY <1>0, <1>4 DEF Complete
<1>5. CASE TakeBatch \/ Reply
  BY <1>5 DEF TakeBatch, Reply, store, rows
<1>6. CASE Crash
  BY <1>0, <1>6 DEF Crash, ResetStale
<1> QED
  BY <1>1, <1>2, <1>3, <1>4, <1>5, <1>6, TaskSteps

LEMMA ProcessingNext ==
  TypeOK /\ Working /\ ProcessingHasTask /\ [Next]_vars => ProcessingHasTask'
<1> SUFFICES ASSUME TypeOK, Working, ProcessingHasTask, [Next]_vars,
                    NEW m \in Messages, row'[m] = "PROCESSING"
             PROVE  pc'[m] = "processing"
  BY DEF ProcessingHasTask
<1>0. /\ row \in [Messages -> Row]
      /\ pc \in [Messages -> {"none", "created", "processing", "ended"}]
      /\ row[m] = "PROCESSING" => pc[m] = "processing"
  BY Types DEF ProcessingHasTask
<1>1. ASSUME NEW i \in Messages, Arrive(i) \/ Claim(i) PROVE pc'[m] = "processing"
  BY <1>0, <1>1 DEF Arrive, Claim
<1>2. ASSUME NEW i \in Messages, RetryOrDead(i) PROVE pc'[m] = "processing"
  BY <1>0, <1>2 DEF RetryOrDead
<1>3. ASSUME NEW i \in Messages, NEW res, Finish(i, res) PROVE pc'[m] = "processing"
  BY <1>0, <1>3 DEF Finish
<1>4. CASE Complete
  BY <1>0, <1>4 DEF Complete
<1>5. CASE TakeBatch
  BY <1>0, <1>5 DEF TakeBatch, store, rows
<1>6. CASE Reply
  <2>1. row[job.msg] = "COMPLETED"
    BY <1>6, NoJobType DEF Reply, Working, JobFits
  <2> QED
    BY <1>0, <1>6, <2>1 DEF Reply, store, rows
<1>7. CASE Crash
  BY <1>7 DEF Crash, ResetStale
<1>8. CASE UNCHANGED <<row, attempts, pc>>
  BY <1>0, <1>8
<1> QED
  BY <1>1, <1>2, <1>3, <1>4, <1>5, <1>6, <1>7, <1>8, TaskSteps

LEMMA EndedNext ==
  TypeOK /\ Working /\ EndedArePassed /\ [Next]_vars => EndedArePassed'
<1> SUFFICES ASSUME TypeOK, Working, EndedArePassed, [Next]_vars, NEW m \in Messages,
                    row'[m] = "RETRY_PENDING" \/ pc'[m] = "ended"
             PROVE  Passed(m)'
  BY DEF EndedArePassed
<1>0. /\ row \in [Messages -> Row] /\ attempts \in [Messages -> 0..MaxAttempts]
      /\ \A i \in Messages : attempts[i] \in Nat
      /\ pc \in [Messages -> {"none", "created", "processing", "ended"}]
  BY Types
<1>1. CASE row[m] = "RETRY_PENDING" \/ pc[m] = "ended"
  BY <1>1, PassedStays DEF EndedArePassed
<1>2. ASSUME NEW i \in Messages, RetryOrDead(i) PROVE Passed(m)'
  BY <1>0, <1>1, <1>2 DEF RetryOrDead, Passed
<1>3. ASSUME NEW i \in Messages, NEW res, Finish(i, res) PROVE Passed(m)'
  BY <1>0, <1>1, <1>3 DEF Finish, Passed, Settled
<1>4. CASE Complete
  BY <1>0, <1>1, <1>4 DEF Complete
<1>5. CASE Reply
  <2>1. row[job.msg] = "COMPLETED"
    BY <1>5, NoJobType DEF Reply, Working, JobFits
  <2> QED
    BY <1>0, <1>1, <1>5, <2>1 DEF Reply, store, rows, Passed, Settled
<1>6. ASSUME NEW i \in Messages, Arrive(i) \/ Claim(i) PROVE Passed(m)'
  BY <1>0, <1>1, <1>6 DEF Arrive, Claim
<1>7. CASE TakeBatch
  BY <1>0, <1>1, <1>7 DEF TakeBatch, store, rows
<1>8. CASE Crash
  BY <1>0, <1>1, <1>8 DEF Crash, ResetStale
<1> QED
  BY <1>1, <1>2, <1>3, <1>4, <1>5, <1>6, <1>7, <1>8, TaskSteps

LEMMA Earlier ==
  ASSUME NEW k \in Messages, NEW m \in (1..(k - 1)) \ LateComers
  PROVE  m \in Messages /\ m < k
BY MessageConstants DEF Messages

\* Whoever gets a task in a batch leaves nobody behind who was due and earlier.
LEMMA BatchIsPrefix ==
  ASSUME TakeBatch, NEW m \in Messages, NEW k \in Messages, m < k,
         pc'[k] = "created", m \in Due
  PROVE  pc'[m] = "created"
<1> DEFINE Before(i) == {j \in Due : j < i}
<1>1. Cardinality(Before(k)) < BatchLimit
  BY DEF TakeBatch
<1>2. IsFiniteSet(Before(k)) /\ Before(m) \subseteq Before(k)
  <2>1. IsFiniteSet(1..M) /\ Before(k) \subseteq 1..M
    BY FS_Interval, MessageConstants DEF Messages, Due
  <2>2. ASSUME NEW j \in Messages, j < m PROVE j < k
    BY <2>2, MessageConstants DEF Messages
  <2> QED
    BY <2>1, <2>2, FS_Subset DEF Due
<1>3. Cardinality(Before(m)) <= Cardinality(Before(k))
      /\ Cardinality(Before(m)) \in Nat /\ Cardinality(Before(k)) \in Nat
  BY <1>2, FS_Subset, FS_CardinalityType
<1>4. Cardinality(Before(m)) < BatchLimit
  BY <1>1, <1>3, MessageConstants
<1> QED
  BY <1>4 DEF TakeBatch

\* A task is begun with its batch, which holds all that are due and earlier.
LEMMA TasksNext ==
  ASSUME TypeOK, Working, ProcessingHasTask, EndedArePassed, EarlierArePassed, [Next]_vars,
         NEW k \in Messages, NEW m \in (1..(k - 1)) \ LateComers
  PROVE  /\ row'[k] # "unsent" => row'[m] # "unsent"
         /\ pc'[k] \in {"created", "processing"} /\ pc'[m] = "none" => Passed(m)'
<1>0. /\ row \in [Messages -> Row] /\ ready \subseteq {i \in Messages : row[i] = "RETRY_PENDING"}
      /\ pc \in [Messages -> {"none", "created", "processing", "ended"}]
      /\ m \in Messages /\ m < k
      /\ row[k] # "unsent" => row[m] # "unsent"
      /\ pc[k] \in {"created", "processing"} /\ pc[m] = "none" => Passed(m)
      /\ Passed(m) => Passed(m)'
  BY Types, PassedStays, Earlier DEF EarlierArePassed
<1>1. ASSUME NEW i \in Messages, Arrive(i)
      PROVE  /\ row'[k] # "unsent" => row'[m] # "unsent"
             /\ UNCHANGED pc
  BY <1>0, <1>1 DEF Arrive, Messages
<1>2. ASSUME NEW i \in Messages, Claim(i)
      PROVE  /\ row'[k] # "unsent" => row'[m] # "unsent"
             /\ pc'[k] \in {"created", "processing"} /\ pc'[m] = "none" =>
                  pc[k] \in {"created", "processing"} /\ pc[m] = "none"
  BY <1>0, <1>2, CreatedRow DEF Claim
<1>3. CASE TakeBatch
  <2>1. UNCHANGED row /\ \A i \in Messages : pc[i] \in {"none", "ended"} /\ pc'[i] # "processing"
    BY <1>3 DEF TakeBatch, store, rows
  <2>2. ASSUME pc'[k] = "created", pc'[m] = "none" PROVE Passed(m)
    <3>1. m \notin Due
      BY <1>0, <1>3, <2>2, BatchIsPrefix
    <3>2. k \in Due
      BY <1>3, <2>2 DEF TakeBatch
    <3>3. row[k] # "unsent"
      BY <1>0, <3>2 DEF Due
    <3>4. row[m] \in {"RETRY_PENDING"} \cup Settled
      BY <1>0, <2>1, <3>1, <3>3 DEF Due, Row, Unsettled, ProcessingHasTask
    <3> QED
      BY <1>0, <3>4 DEF EndedArePassed, Passed
  <2> QED
    BY <1>0, <2>1, <2>2
<1>4. ASSUME NEW i \in Messages, row[i] # "unsent",
             RetryOrDead(i) \/ \E res \in Results : Finish(i, res)
      PROVE  /\ row'[k] # "unsent" => row'[m] # "unsent"
             /\ pc'[k] \in {"created", "processing"} /\ pc'[m] = "none" =>
                  pc[k] \in {"created", "processing"} /\ pc[m] = "none"
  BY <1>0, <1>4 DEF RetryOrDead, Finish
<1>5. CASE Complete \/ Reply
  <2>1. job.msg \in Messages /\ row[job.msg] # "unsent"
    BY <1>5, NoJobType DEF Complete, Reply, Working, JobFits
  <2>2. /\ row'[k] # "unsent" => row'[m] # "unsent"
        /\ pc'[k] \in {"created", "processing"} /\ pc'[m] = "none" =>
             pc[k] \in {"created", "processing"} /\ pc[m] = "none"
    BY <1>0, <1>5, <2>1 DEF Complete, Reply, store, rows
  <2> QED
    BY <1>0, <2>2
<1>6. CASE Crash
  BY <1>0, <1>6 DEF Crash, ResetStale
<1> QED
  BY <1>0, <1>1, <1>2, <1>3, <1>4, <1>5, <1>6, TaskSteps

\* A message acts when it is its turn, and all earlier ones have passed then.
LEMMA TurnMeansPassed ==
  ASSUME TypeOK, EndedArePassed, EarlierArePassed, NEW k \in Messages, MyTurn(k),
         NEW m \in (1..(k - 1)) \ LateComers
  PROVE  Passed(m)
<1>1. m \in Messages /\ pc[k] = "processing" /\ pc[m] \in {"none", "ended"}
  BY Earlier DEF MyTurn
<1> QED
  BY <1>1 DEF EndedArePassed, EarlierArePassed

\* A job belongs to the message that began it.
LEMMA JobsMessage ==
  ASSUME TypeOK, Working, RecordsFit, [Next]_vars, NEW k \in Messages, job'.msg = k
  PROVE  job.msg = k \/ MyTurn(k)
<1>0. job \in Jobs /\ k # 0 /\ NoJob.msg = 0
  BY NoJobType, Types, MessageConstants DEF Messages
<1>1. ASSUME NEW m \in Messages, Handle(m) PROVE job' = job \/ (MyTurn(m) /\ job'.msg = m)
  BY <1>1, BeginForms, StartsType
     DEF Handle, Claim, FailEarly, Drop, Fallback
<1>2. CASE JobStep
  <2>1. CASE Execute
    BY <2>1, ExecuteMoves
  <2>2. CASE Resolve \/ Supersede \/ Create \/ Complete
    BY <1>0, <2>2, JobMoves DEF Resolve, Supersede, Create, Complete, Goto, Jobs, Steps
  <2>3. CASE Reply
    BY <1>0, <2>3 DEF Reply
  <2> QED
    BY <1>2, <2>1, <2>2, <2>3 DEF JobStep
<1> QED
  BY <1>0, <1>1, <1>2
     DEF Next, vars, Arrive, BecomeDue, TakeBatch, Raise, Expire, AdminWrite, Crash

LEMMA EarlierNext ==
  TypeOK /\ Working /\ RecordsFit /\ InTurn /\ [Next]_vars => EarlierArePassed'
<1> SUFFICES ASSUME TypeOK, Working, RecordsFit, InTurn, [Next]_vars,
                    NEW k \in Messages, NEW m \in (1..(k - 1)) \ LateComers
             PROVE  /\ row'[k] # "unsent" => row'[m] # "unsent"
                    /\ pc'[k] \in {"created", "processing"} /\ pc'[m] = "none" => Passed(m)'
                    /\ job'.msg = k \/ Effects(k)' # {} => Passed(m)'
  BY DEF EarlierArePassed
<1>1. m \in Messages /\ (Passed(m) => Passed(m)')
  BY PassedStays, Earlier
<1>2. job'.msg = k => Passed(m)
  BY JobsMessage, TurnMeansPassed DEF InTurn, EarlierArePassed
<1>3. Effects(k)' # {} => Effects(k) # {} \/ job.msg = k
  <2>1. CASE UNCHANGED applied
    BY <2>1 DEF Effects
  <2>2. CASE job.step = "execute" /\ Apply
    BY <2>2, ApplyAdds DEF Effects, Working
  <2> QED
    BY <2>1, <2>2, EffectsNext
<1> QED
  BY <1>1, <1>2, <1>3, TasksNext DEF InTurn, EarlierArePassed

\* Who acts now and finds an effect of a later message has been tried before.
LEMMA OrderNext ==
  TypeOK /\ Working /\ InTurn /\ OvertakenOnesWereLate /\ [Next]_vars => OvertakenOnesWereLate'
<1> SUFFICES ASSUME TypeOK, Working, InTurn, OvertakenOnesWereLate, [Next]_vars,
                    NEW i \in DOMAIN applied', NEW j \in DOMAIN applied', i < j,
                    applied'[j].by < applied'[i].by, applied'[j].by \notin LateComers
             PROVE  attempts'[applied'[j].by] > 0
  BY DEF OvertakenOnesWereLate
<1>0. attempts \in [Messages -> 0..MaxAttempts] /\ row \in [Messages -> Row]
      /\ DOMAIN applied = 1..Len(applied) /\ Len(applied) \in Nat
      /\ \A n \in DOMAIN applied : applied[n].by \in Messages
  BY Types, Indices DEF Effect
<1>1. ASSUME NEW m \in Messages, attempts[m] > 0 PROVE attempts'[m] > 0
  BY <1>0, <1>1, TaskSteps
     DEF Arrive, Claim, TakeBatch, RetryOrDead, Finish, Complete, Reply, Crash, store, rows
<1>2. CASE UNCHANGED applied
  BY <1>0, <1>1, <1>2 DEF OvertakenOnesWereLate
<1>3. CASE job.step = "execute" /\ Apply
  <2>1. /\ DOMAIN applied' = DOMAIN applied \cup {Len(applied) + 1}
        /\ \A n \in DOMAIN applied : applied'[n] = applied[n]
        /\ applied'[Len(applied) + 1].by = job.msg
    BY <1>3, ApplyAdds DEF Working
  <2>2. i \in DOMAIN applied
    BY <1>0, <2>1
  <2>3. CASE j \in DOMAIN applied
    BY <1>0, <1>1, <2>1, <2>2, <2>3 DEF OvertakenOnesWereLate
  <2>4. CASE j = Len(applied) + 1
    <3>1. PICK k \in Messages : k = applied[i].by
      BY <1>0, <2>2
    <3>2. PICK m \in Messages : m = job.msg /\ row[m] = "PROCESSING"
      BY <1>3, NoJobType DEF Working, JobFits
    <3>3. m < k /\ m \in (1..(k - 1)) \ LateComers
      BY <2>1, <2>2, <2>4, <3>1, <3>2, MessageConstants DEF Messages
    <3>4. Effects(k) # {}
      BY <2>2, <3>1 DEF Effects
    <3>5. Passed(m)
      BY <3>3, <3>4 DEF InTurn, EarlierArePassed
    <3> QED
      BY <1>1, <2>1, <2>4, <3>2, <3>5 DEF Passed, Settled
  <2> QED
    BY <1>0, <2>1, <2>3, <2>4
<1> QED
  BY <1>2, <1>3, EffectsNext

-----------------------------------------------------------------------------
(* The invariant.                                                          *)

LEMMA InvNext == Inv /\ [Next]_vars => Inv'
<1> SUFFICES ASSUME Inv, [Next]_vars PROVE Inv'
  OBVIOUS
<1>1. TypeOK' /\ Working' /\ RecordsFit' /\ LedgerCountsEffects'
      /\ ResultsFit' /\ ConfirmedActionIsCurrent' /\ TokensPaidFor'
  BY TypeNext, WorkingNext, RecordsFitNext, LedgerNext, ResultsNext, CurrentNext, TokensNext DEF Inv
<1>2. InTurn' /\ OvertakenOnesWereLate'
  BY ProcessingNext, EndedNext, EarlierNext, OrderNext DEF Inv, InTurn
<1>3. EffectsShow'
  BY EffectsShowNext DEF Inv
<1>4. ASSUME Undisturbed' PROVE ConfirmedIsUnderWay'
  <2>1. CASE ~Raise /\ ~Crash
    <3>1. Undisturbed
      BY <1>4, <2>1, CutNext DEF Undisturbed, Inv
    <3> QED
      BY <2>1, <3>1, UnderWayNext DEF Inv
  <2>2. CASE Raise \/ Crash
    <3>1. ASSUME NEW m \in Messages PROVE cut[m] = 0 /\ m # job.msg
      BY <1>4, <2>2, CutNext DEF Undisturbed, Inv
    <3>2. job = NoJob
      BY <3>1 DEF Inv, Working, JobFits
    <3>3. UNCHANGED <<pendings, executions>>
      BY <2>2 DEF Raise, Crash
    <3> QED
      BY <3>1, <3>2, <3>3, NoJobType DEF Undisturbed, Inv, ConfirmedIsUnderWay
  <2> QED
    BY <2>1, <2>2
<1> QED
  BY <1>1, <1>2, <1>3, <1>4 DEF Inv

\* The invariant behind all that follows: rows, jobs, questions, records and
\* effects of the inbox and the executor agree in every reachable state.
THEOREM Invariance == Spec => []Inv
<1>1. Init => Inv
  BY InitInv
<1>2. Inv /\ [Next]_vars => Inv'
  BY InvNext
<1> QED
  BY <1>1, <1>2, PTL DEF Spec

-----------------------------------------------------------------------------
(* What is proved.                                                         *)

\* Rows, pending actions, records, jobs and effects have their types in every
\* reachable state; in particular no row is tried more often than allowed
\* (inbox_retry_or_dead) and no job answers a question that is not there.
THEOREM TypeCorrect == Spec => []TypeOK
<1>1. Inv => TypeOK
  BY DEF Inv
<1> QED
  BY <1>1, Invariance, PTL

\* A request has one effect at most, now or after any number of questions, and
\* one more at most for each time that a job of its message was cut short; and
\* a message acts after a later one only if it came late or had to be retried,
\* whatever crashes (executor.execute, resolve_pending, inbox_reset_stale, wait_turn).
THEOREM EffectsAccounted == Spec => []EffectsAreAccounted
<1>1. Inv => EffectsAreAccounted
  <2> SUFFICES ASSUME Inv, NEW m \in Messages
               PROVE  Cardinality(EffectsFor(m)) <= 1 + cut[m]
    BY DEF Inv, EffectsAreAccounted, RepeatsArePaidFor
  <2>1. Cardinality(EffectsFor(m)) + Owed(m) <= 1 + cut[m]
    BY DEF Inv, TokensPaidFor
  <2>2. Owed(m) \in Nat /\ Cardinality(EffectsFor(m)) \in Nat
    BY TokensAreFinite DEF Inv, Owed, Number
  <2>3. cut[m] \in Nat
    BY Types DEF Inv
  <2> QED
    BY <2>1, <2>2, <2>3
<1> QED
  BY <1>1, Invariance, PTL

\* Before the turn of a message comes, every earlier one that did not come late
\* is settled or waits for a retry; so the effects of a batch, of the next one
\* and of those after a restart follow the order of the messages
\* (OrderedCommitGate, inbox_next_due_for_group).
THEOREM TurnsFollowMessages ==
  Spec => [](\A k \in Messages : MyTurn(k) =>
               \A m \in (1..(k - 1)) \ LateComers : row[m] \in Settled \/ attempts[m] > 0)
<1>1. Inv => \A k \in Messages : MyTurn(k) =>
               \A m \in (1..(k - 1)) \ LateComers : row[m] \in Settled \/ attempts[m] > 0
  BY TurnMeansPassed DEF Inv, InTurn, Passed
<1> QED
  BY <1>1, Invariance, PTL

\* The ledger has one APPLIED record for every effect on the ticket, whatever
\* crashes or raises (executor.execute).
THEOREM LedgerIsExact == Spec => []LedgerCountsEffects
<1>1. Inv => LedgerCountsEffects
  BY DEF Inv
<1> QED
  BY <1>1, Invariance, PTL

\* What a member confirms is done to the ticket as the question showed it,
\* whoever writes the ticket meanwhile (_confirm_pending, executor.execute).
THEOREM ConfirmedCurrent == Spec => []ConfirmedActionIsCurrent
<1>1. Inv => ConfirmedActionIsCurrent
  BY DEF Inv
<1> QED
  BY <1>1, Invariance, PTL

\* As long as no job is cut short, a confirmed action is on record or
\* is asked again as soon as the job of its answer is over (_confirm_pending,
\* _create_retry_pending).
THEOREM ConfirmedSettled == Spec => []ConfirmedIsSettled
<1>1. Inv => ConfirmedIsSettled
  <2> SUFFICES ASSUME Inv, Undisturbed, NEW p \in DOMAIN pendings,
                      pendings[p].status = "CONFIRMED", ~pendings[p].corrected, job.pending # p
               PROVE  \/ \E e \in executions : e.key = <<"confirm", p>>
                      \/ \E q \in DOMAIN pendings : pendings[q].from = p
    BY DEF ConfirmedIsSettled
  <2> QED
    BY DEF Inv, ConfirmedIsUnderWay
<1> QED
  BY <1>1, Invariance, PTL

\* A row that reads EXECUTED had its effect, and one that reads PROCESSING is
\* being processed, after every failure; a dead letter and a row that reads
\* otherwise had none, unless a job of this message was cut short
\* (_complete, _retry_or_dead).
THEOREM RowsTruthful == Spec => []RowsTellTheTruth
<1>1. Inv => RowsTellTheTruth
  <2> SUFFICES ASSUME Inv PROVE RowsTellTheTruth
    OBVIOUS
  <2>1. ExecutedHadEffect
    BY DEF Inv, ResultsFit, ExecutedHadEffect
  <2>2. ASSUME NEW m \in Messages, cut[m] = 0, Effects(m) # {}
        PROVE  row[m] \in {"PROCESSING", "COMPLETED"}
               /\ (row[m] = "COMPLETED" => result[m] = "EXECUTED")
    <3>1. PICK i \in DOMAIN applied : applied[i].by = m
      BY <2>2 DEF Effects
    <3>2. \/ row[m] = "COMPLETED" /\ result[m] = "EXECUTED"
          \/ job.msg = m /\ job.step = "complete"
      BY <2>2, <3>1 DEF Inv, EffectsShow
    <3>3. job.msg = m /\ job.step = "complete" => row[m] = "PROCESSING"
      BY NoJobType DEF Inv, Working, JobFits
    <3> QED
      BY <3>2, <3>3
  <2> QED
    BY <2>1, <2>2
       DEF RowsTellTheTruth, DeadLettersDidNothing, OthersHadNoEffect, Inv, InTurn
<1> QED
  BY <1>1, Invariance, PTL

\* A settled question is never answered again, in no step whatever, crashes
\* and errors included (resolve_pending, expire_due_pendings, supersede_waiting).
THEOREM SettledStaysSettled == Spec => AnswersAreFinal
<1>1. Inv /\ [Next]_vars =>
        [\A p \in DOMAIN pendings : pendings[p].status # "WAITING" =>
           p \in DOMAIN pendings' /\ pendings'[p] = pendings[p]]_vars
  BY QuestionsNext DEF Inv, Working
<1> QED
  BY <1>1, Invariance, PTL DEF Spec, AnswersAreFinal

-----------------------------------------------------------------------------
(* The executor's promise.                                                 *)

\* Who writes the ticket: a command that is applied, and the administrator.
LEMMA VersionNext ==
  ASSUME TypeOK, Working, RecordsFit, [Next]_vars
  PROVE  \/ UNCHANGED version
         \/ Execute /\ Apply /\ \A e \in executions : e.key # Key
         \/ AdminWrite
<1>1. ASSUME NEW m \in Messages, Handle(m) PROVE UNCHANGED version
  BY <1>1, BeginForms DEF Handle, Claim, FailEarly, Drop, Fallback
<1>2. CASE JobStep
  BY <1>2, ExecuteForms
     DEF JobStep, Resolve, Refuse, RollBack, Supersede, Create, Complete, Reply, store
<1> QED
  BY <1>1, <1>2
     DEF Next, vars, store, Arrive, BecomeDue, TakeBatch, Raise, Expire, Crash

\* An applied command is a commit of the ledger.
LEMMA ApplyCommits ==
  ASSUME TypeOK, Working, Execute, Apply, \A e \in executions : e.key # Key
  PROVE  Ledger!Commit
<1> DEFINE r == [key |-> Key, status |-> "APPLIED"]
           f == [by |-> job.msg, origin |-> job.origin, shown |-> job.shown, at |-> version]
<1>0. JobFits /\ job \in Jobs /\ job # NoJob
  BY Types, NoJobType DEF Working, Execute
<1>1. Ledger!Answers(r) /\ r \in executions' /\ r.status = "APPLIED"
  BY DEF Ledger!Answers, Apply
<1>2. applied' = Append(applied, f) /\ f.shown = version /\ f.at = version /\ version' = version + 1
  BY DEF Apply
<1>3. f \in {applied'[i] : i \in DOMAIN applied'}
  <2>1. f \in Effect
    BY <1>0, Types DEF JobFits, Effect, Jobs
  <2> HIDE DEF f
  <2>2. applied' \in Seq(Effect) /\ Len(applied') = Len(applied) + 1 /\ applied'[Len(applied) + 1] = f
    BY <1>2, <2>1, Types, AppendProperties
  <2>3. Len(applied) + 1 \in DOMAIN applied'
    BY <2>2, Indices, LenProperties
  <2> QED
    BY <2>2, <2>3
<1>4. Ledger!Owns(r.key, f)
  BY <1>0, KeyType DEF Ledger!Owns, Execute, JobFits
<1> HIDE DEF r, f
<1> QED
  BY <1>1, <1>2, <1>3, <1>4 DEF Ledger!Commit

LEMMA StepIsOfLedger ==
  ASSUME Inv, [Next]_vars
  PROVE  Ledger!Next \/ UNCHANGED <<executions, applied, version>>
<1>0. TypeOK /\ Working /\ RecordsFit
  BY DEF Inv
<1>1. CASE AdminWrite
  BY <1>1 DEF AdminWrite, Ledger!Next, Ledger!Write
<1>2. CASE Execute /\ (Apply \/ Refuse) /\ \A e \in executions : e.key # Key
  <2>1. CASE Apply
    BY <1>0, <1>2, <2>1, ApplyCommits DEF Ledger!Next
  <2>2. CASE Refuse
    <3>1. PICK r : r = [key |-> Key, status |-> "REJECTED"]
      OBVIOUS
    <3>2. Ledger!Answers(r) /\ r \in executions' /\ r.status = "REJECTED"
      BY <1>2, <2>2, <3>1 DEF Ledger!Answers, Refuse
    <3>3. Ledger!Refuse
      BY <2>2, <3>2 DEF Ledger!Refuse, Refuse
    <3> QED
      BY <3>3 DEF Ledger!Next
  <2> QED
    BY <1>2, <2>1, <2>2
<1> QED
  BY <1>0, <1>1, <1>2, RecordsNext, VersionNext

\* For any messages, replies and mishaps, what the bot does to the ledger, to
\* the ticket and to its version is what a ledger of commands may do: one
\* answer for a key, with its effect in the same step or with none, on the
\* ticket as it was shown, and nothing taken back (executor.execute).
THEOREM LedgerIsImplemented == Spec => ImplementsLedger
<1>1. Init => Ledger!Init
  BY DEF Init, Ledger!Init
<1>2. Inv /\ [Next]_vars => [Ledger!Next]_<<executions, applied, version>>
  BY StepIsOfLedger
<1> QED
  BY <1>1, <1>2, Invariance, PTL DEF Spec, ImplementsLedger, Ledger!Spec

\* Therefore a key has one answer for ever, and no effect on the ticket
\* overwrites another that its command did not know.
THEOREM EffectsAreSerial == Spec => [](Ledger!OneAnswer /\ Ledger!Serial)
<1>1. Init => Ledger!OneAnswer /\ Ledger!Serial
  BY DEF Init, Ledger!OneAnswer, Ledger!Serial
<1>2. ASSUME Inv, Inv', Ledger!OneAnswer, Ledger!Serial,
             [Ledger!Next]_<<executions, applied, version>>
      PROVE  Ledger!OneAnswer' /\ Ledger!Serial'
  <2>0. applied \in Seq(Effect) /\ Len(applied) \in Nat /\ DOMAIN applied = 1..Len(applied)
        /\ version \in Nat /\ \A i \in DOMAIN applied : applied[i].at \in Nat
    BY <1>2, Types, Indices DEF Inv, Effect
  <2>1. CASE Ledger!Commit
    <3>1. PICK r \in executions', e \in {applied'[i] : i \in DOMAIN applied'} :
            /\ \A s \in executions : s.key # r.key
            /\ executions' = executions \cup {r}
            /\ applied' = Append(applied, e)
            /\ e.at = version /\ version' = version + 1
      BY <2>1 DEF Ledger!Commit, Ledger!Answers
    <3>2. e \in Effect
      <4>1. applied' \in Seq(Effect)
        BY <1>2 DEF Inv, TypeOK, Effect
      <4> QED
        BY <3>1, <4>1, ElementOfSeq, LenProperties
    <3>3. /\ DOMAIN applied' = 1..(Len(applied) + 1)
          /\ \A i \in DOMAIN applied : applied'[i] = applied[i]
          /\ applied'[Len(applied) + 1] = e
      BY <2>0, <3>1, <3>2, AppendProperties, LenProperties
    <3>4. Ledger!OneAnswer'
      BY <1>2, <3>1 DEF Ledger!OneAnswer
    <3>5. Ledger!Serial'
      <4>1. \A i \in DOMAIN applied' :
              /\ applied'[i].at <= version
              /\ i # Len(applied) + 1 => i \in DOMAIN applied /\ applied'[i].at < version
        <5>1. \A i \in DOMAIN applied : applied[i].at < version
          BY <1>2 DEF Ledger!Serial
        <5>2. \A i \in DOMAIN applied' : i \in DOMAIN applied \/ i = Len(applied) + 1
          BY <2>0, <3>3
        <5>3. \A i \in DOMAIN applied : applied'[i].at < version /\ applied'[i].at <= version
          BY <2>0, <3>3, <5>1
        <5> QED
          BY <2>0, <3>1, <3>3, <5>2, <5>3
      <4>2. \A i, j \in DOMAIN applied' : i < j => applied'[i].at < applied'[j].at
        <5> SUFFICES ASSUME NEW i \in DOMAIN applied', NEW j \in DOMAIN applied', i < j
                     PROVE  applied'[i].at < applied'[j].at
          OBVIOUS
        <5>1. i \in DOMAIN applied
          BY <2>0, <3>3
        <5> QED
          BY <1>2, <2>0, <3>1, <3>3, <4>1, <5>1 DEF Ledger!Serial
      <4>3. \A i \in DOMAIN applied' : applied'[i].at < version'
        BY <2>0, <3>1, <3>2, <3>3, <4>1 DEF Effect
      <4> QED
        BY <4>2, <4>3 DEF Ledger!Serial
    <3> QED
      BY <3>4, <3>5
  <2>2. CASE Ledger!Refuse
    BY <1>2, <2>2 DEF Ledger!Refuse, Ledger!Answers, Ledger!OneAnswer, Ledger!Serial
  <2>3. CASE Ledger!Write
    BY <1>2, <2>0, <2>3 DEF Ledger!Write, Ledger!OneAnswer, Ledger!Serial
  <2>4. CASE UNCHANGED <<executions, applied, version>>
    BY <1>2, <2>4 DEF Ledger!OneAnswer, Ledger!Serial
  <2> QED
    BY <1>2, <2>1, <2>2, <2>3, <2>4 DEF Ledger!Next
<1>3. Spec => [][Ledger!Next]_<<executions, applied, version>>
  BY LedgerIsImplemented, PTL DEF ImplementsLedger, Ledger!Spec
<1> QED
  BY <1>1, <1>2, <1>3, Invariance, PTL DEF Spec
=============================================================================

