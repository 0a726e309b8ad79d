-------------------------- MODULE TicketAgentProofs --------------------------
(***************************************************************************)
(* Proofs about TicketAgent, for any number of messages and mishaps.  The  *)
(* lock makes the runs serial; with that, what a run has read (snap, kind) *)
(* and where it started (stage) is its own until it returns, and the       *)
(* corrections of load_ticket_state and sync_lifecycle fit together.       *)
(***************************************************************************)
EXTENDS TicketAgent, SequenceTheorems, TLAPS

\* What is filed and told.
Filed == told \subseteq linked /\ \A m \in Msgs : pc[m] = "tell" => m \in linked

\* A stage as a run leaves it.
Fits(st) ==
  /\ st = "CLOSED" <=> snap = "CLOSED"
  /\ snap = "PENDING_CONFIRM" /\ kind # "NEW_ISSUE" => st = "WAITING_CONFIRM"

\* What a run knows while it is under way.
RunKnows ==
  \A m \in Msgs : pc[m] \in InRun =>
    /\ snap # "CLOSED" => stage # "CLOSED" /\ kind # "CLOSED"
    /\ pc[m] \in {"file", "tell"} =>
         /\ Troubleshoots(kind) \/ kind = "HANDOFF"
         /\ snap # "CLOSED"
         /\ snap = "PENDING_CONFIRM" => kind = "NEW_ISSUE"
    /\ pc[m] = "save" => Fits(stage)
    /\ handed => snap = "ACTIVE" \/ Announced(m)
    /\ handed /\ ~lost => ~Troubleshoots(kind)

\* What is saved between two runs.
Rest == ~Inside => stage = saved /\ (snap # "NONE" => Fits(saved))

\* The checkpoint knows of the hand-over, or the run that announced it goes on.
Tracking ==
  handed /\ ~lost => /\ stage \in Tracked
                     /\ saved \in Tracked \/ \E m \in Msgs : Announced(m)

AgentInv == TypeOK /\ RunsAreSerial /\ Filed /\ RunKnows /\ Rest /\ Tracking
----------------------------------------------------------------------------
\* The nodes of the graph compute stages and kinds of the right type.
LEMMA Computed ==
  ASSUME NEW s \in Statuses, NEW p \in Stages, NEW e \in Events, TypeOK
  PROVE  /\ StageOnLoad(s, p) \in Stages
         /\ KindsOf(e, s, StageOnLoad(s, p)) \subseteq Kinds
         /\ SyncedStage \in Stages
         /\ MaySaved \subseteq Stages
BY DEF StageOnLoad, KindsOf, Feedback, SyncedStage, MaySaved, Stages, Kinds, Kept, Statuses, TypeOK

\* A stage that a mishap leaves behind is a stage.
LEMMA StagesSaved == TypeOK => MaySaved \subseteq Stages
BY DEF TypeOK, MaySaved, StageOnLoad, Stages, Kept

\* Every part holds before the first message.
LEMMA AgentInit == Init => AgentInv
<1> SUFFICES ASSUME Init PROVE AgentInv
  OBVIOUS
<1>1. TypeOK
  <2>1. NoEvent \in Events
    BY DEF NoEvent, Events, Intents
  <2>2. event \in [Msgs -> Events] /\ pc \in [Msgs -> InRun \cup {"new", "committed", "queued", "done"}]
    BY <2>1 DEF Init
  <2>3. mishaps \in 0..MaxMishaps /\ queue \in Seq(Msgs)
    BY BoundsAssumption DEF Init
  <2> QED
    BY <2>2, <2>3 DEF Init, TypeOK, Statuses, Stages, Kinds
<1>2. \A m \in Msgs : pc[m] = "new"
  BY DEF Init
<1> QED
  <2>1. \A m \in Msgs : pc[m] \notin InRun
    BY <1>2 DEF InRun
  <2>2. RunsAreSerial /\ Filed /\ RunKnows
    BY <1>2, <2>1 DEF Init, RunsAreSerial, Filed, RunKnows
  <2>3. Rest /\ Tracking
    BY DEF Init, Rest, Fits, Tracking, Tracked
  <2> QED
    BY <1>1, <2>2, <2>3 DEF AgentInv

LEMMA TypeNext == TypeOK /\ RunsAreSerial /\ [Next]_vars => TypeOK'
<1> SUFFICES ASSUME TypeOK, RunsAreSerial, [Next]_vars PROVE TypeOK'
  OBVIOUS
<1> USE BoundsAssumption
<1>0. NoEvent \in Events
  BY DEF NoEvent, Events, Intents
<1>a. ASSUME NEW m \in Msgs, Finish(m)
      PROVE  /\ pc' \in [Msgs -> InRun \cup {"new", "committed", "queued", "done"}]
             /\ event' \in [Msgs -> Events]
  BY <1>0, <1>a DEF Finish, TypeOK
<1>b. ASSUME queue # <<>> PROVE Tail(queue) \in Seq(Msgs)
  BY <1>b DEF TypeOK
<1>1. ASSUME NEW m \in Msgs, Commit(m) PROVE TypeOK'
  <2>1. /\ event' \in [Msgs -> Events]
        /\ pc' \in [Msgs -> InRun \cup {"new", "committed", "queued", "done"}]
    BY <1>1 DEF Commit, Goto, TypeOK
  <2>2. status' \in Statuses /\ linked' \in SUBSET Msgs
    BY <1>1 DEF Commit, TypeOK
  <2> QED
    BY <1>1, <2>1, <2>2 DEF Commit, TypeOK
<1>2. ASSUME NEW m \in Msgs, Invoke(m) PROVE TypeOK'
  <2>1. queue' \in Seq(Msgs)
    BY <1>2 DEF Invoke, TypeOK
  <2> QED
    BY <1>2, <2>1 DEF Invoke, Goto, TypeOK
<1>3. ASSUME NEW m \in Msgs, NoAgent(m) PROVE TypeOK'
  BY <1>3, <1>a DEF NoAgent, TypeOK
<1>4. ASSUME NEW m \in Msgs, Enter(m) PROVE TypeOK'
  <2> DEFINE st == StageOnLoad(status, saved)
  <2>1. PICK k \in KindsOf(event[m], status, st) :
          /\ kind' = k
          /\ stage' = IF Troubleshoots(k) THEN "SELF_SERVICE" ELSE st
          /\ handed' = (handed /\ status = "ACTIVE" /\ k # "NEW_ISSUE")
          /\ lost' = (lost /\ handed')
          /\ Goto(m, IF Troubleshoots(k) \/ k = "HANDOFF" THEN "file" ELSE "sync")
    BY <1>4 DEF Enter, Load
  <2>2. st \in Stages /\ k \in Kinds
    BY Computed DEF TypeOK
  <2>3. stage' \in Stages /\ kind' \in Kinds /\ handed' \in BOOLEAN /\ lost' \in BOOLEAN
    BY <2>1, <2>2 DEF Stages
  <2>4. pc' \in [Msgs -> InRun \cup {"new", "committed", "queued", "done"}]
    BY <2>1 DEF Goto, InRun, TypeOK
  <2> QED
    BY <1>4, <2>3, <2>4 DEF Enter, Load, TypeOK
<1>5. ASSUME NEW m \in Msgs, File(m) PROVE TypeOK'
  BY <1>5 DEF File, Goto, InRun, TypeOK
<1>6. ASSUME NEW m \in Msgs, Return(m) PROVE TypeOK'
  <2>1. queue # <<>>
    BY <1>6 DEF Return, RunsAreSerial, InRun, Holds
  <2> QED
    BY <1>6, <1>a, <1>b, <2>1 DEF Return, TypeOK
<1>7. ASSUME NEW m \in Msgs, Tell(m) PROVE TypeOK'
  BY <1>7 DEF Tell, Goto, Stages, InRun, TypeOK
<1>8. ASSUME NEW m \in Msgs, SyncLifecycle(m) PROVE TypeOK'
  <2>1. SyncedStage \in Stages
    BY DEF TypeOK, SyncedStage, Stages
  <2> QED
    BY <1>8, <2>1 DEF SyncLifecycle, Goto, InRun, TypeOK
<1>9. ASSUME NEW m \in Msgs, RunFails(m) PROVE TypeOK'
  <2>1. saved' \in Stages /\ stage' \in Stages
    BY <1>9, StagesSaved DEF RunFails
  <2>2. mishaps' \in 0..MaxMishaps /\ "NONE" \in Statuses
    BY <1>9 DEF RunFails, TypeOK, Statuses
  <2>3. queue' \in Seq(Msgs)
    BY <1>9, <1>b DEF RunFails, Holds
  <2> QED
    BY <1>9, <1>a, <2>1, <2>2, <2>3 DEF RunFails, TypeOK
<1>10. CASE Crash
  <2>1. saved' \in Stages /\ stage' \in Stages
    BY <1>10, StagesSaved DEF Crash
  <2>2. mishaps' \in 0..MaxMishaps /\ snap' \in Statuses
    BY <1>10 DEF Crash, TypeOK, Statuses
  <2>3. pc' \in [Msgs -> InRun \cup {"new", "committed", "queued", "done"}]
        /\ event' \in [Msgs -> Events] /\ queue' \in Seq(Msgs)
    BY <1>0, <1>10 DEF Crash
  <2> QED
    BY <1>10, <2>1, <2>2, <2>3 DEF Crash, TypeOK
<1>11. CASE UNCHANGED vars
  BY <1>11 DEF vars, TypeOK
<1> QED
  BY <1>1, <1>2, <1>3, <1>4, <1>5, <1>6, <1>7, <1>8, <1>9, <1>10, <1>11 DEF Next, Step
----------------------------------------------------------------------------
\* One run at a time.
LEMMA SerialNext == TypeOK /\ RunsAreSerial /\ [Next]_vars => RunsAreSerial'
<1> SUFFICES ASSUME TypeOK, RunsAreSerial, [Next]_vars, NEW m \in Msgs, pc'[m] \in InRun
             PROVE  Holds(m)'
  BY DEF RunsAreSerial
<1> USE DEF RunsAreSerial, Holds, InRun
<1>1. ASSUME NEW n \in Msgs, Commit(n) \/ NoAgent(n) \/ File(n) PROVE Holds(m)'
  BY <1>1 DEF Commit, NoAgent, File, Goto, Finish, TypeOK
<1>2. ASSUME NEW n \in Msgs, Invoke(n) PROVE Holds(m)'
  <2>1. pc[m] \in InRun
    BY <1>2 DEF Invoke, Goto, TypeOK
  <2>2. queue # <<>> /\ Head(queue) = m /\ queue \in Seq(Msgs)
    BY <2>1 DEF TypeOK
  <2>3. queue' # <<>> /\ Head(queue') = m
    BY <1>2, <2>2 DEF Invoke
  <2> QED
    BY <2>3
<1>3. ASSUME NEW n \in Msgs, Enter(n) \/ Tell(n) \/ SyncLifecycle(n) PROVE Holds(m)'
  <2>1. UNCHANGED queue /\ Holds(n) /\ (m # n => pc'[m] = pc[m])
    BY <1>3 DEF Enter, Load, Tell, SyncLifecycle, Goto, TypeOK
  <2> QED
    BY <2>1
<1>4. ASSUME NEW n \in Msgs, Holds(n), Finish(n) PROVE FALSE
  <2>1. pc'[n] = "done" /\ (m # n => pc'[m] = pc[m])
    BY <1>4 DEF Finish, TypeOK
  <2> QED
    BY <1>4, <2>1
<1>5. ASSUME NEW n \in Msgs, Return(n) \/ RunFails(n) PROVE Holds(m)'
  BY <1>4, <1>5 DEF RunFails, Return
<1>6. CASE Crash
  BY <1>6 DEF Crash
<1>7. CASE UNCHANGED vars
  BY <1>7 DEF vars
<1> QED
  BY <1>1, <1>2, <1>3, <1>5, <1>6, <1>7 DEF Next, Step

LEMMA FiledNext == TypeOK /\ Filed /\ [Next]_vars => Filed'
<1> SUFFICES ASSUME TypeOK, Filed, [Next]_vars PROVE Filed'
  OBVIOUS
<1> USE DEF Filed
<1>1. ASSUME NEW m \in Msgs, Commit(m) \/ Invoke(m) \/ NoAgent(m) PROVE Filed'
  BY <1>1 DEF Commit, Invoke, NoAgent, Goto, Finish, TypeOK
<1>2. ASSUME NEW m \in Msgs, Enter(m) PROVE Filed'
  <2>1. PICK l \in {"file", "sync"} : pc' = [pc EXCEPT ![m] = l]
    BY <1>2 DEF Enter, Load, Goto
  <2> QED
    BY <1>2, <2>1 DEF Enter, Load, TypeOK
<1>3. ASSUME NEW m \in Msgs, File(m) PROVE Filed'
  BY <1>3 DEF File, Goto, TypeOK
<1>4. ASSUME NEW m \in Msgs, Tell(m) PROVE Filed'
  BY <1>4 DEF Tell, Goto, TypeOK
<1>5. ASSUME NEW m \in Msgs, SyncLifecycle(m) \/ Return(m) \/ RunFails(m) PROVE Filed'
  BY <1>5 DEF SyncLifecycle, RunFails, Return, Goto, Finish, TypeOK
<1>6. CASE Crash
  BY <1>6 DEF Crash
<1>7. CASE UNCHANGED vars
  BY <1>7 DEF vars
<1> QED
  BY <1>1, <1>2, <1>3, <1>4, <1>5, <1>6, <1>7 DEF Next, Step
----------------------------------------------------------------------------
\* What holds of the run that begins: it knows the status that it read.
LEMMA Entering ==
  ASSUME AgentInv, NEW m \in Msgs, Enter(m)
  PROVE  /\ RunKnows' /\ Tracking'
         /\ Inside'
<1> DEFINE st == StageOnLoad(status, saved)
<1>1. PICK k \in KindsOf(event[m], status, st) :
        /\ kind' = k
        /\ stage' = IF Troubleshoots(k) THEN "SELF_SERVICE" ELSE st
        /\ handed' = (handed /\ status = "ACTIVE" /\ k # "NEW_ISSUE")
        /\ lost' = (lost /\ handed')
        /\ Goto(m, IF Troubleshoots(k) \/ k = "HANDOFF" THEN "file" ELSE "sync")
  BY DEF Enter, Load
<1>2. /\ snap' = status /\ saved' = saved /\ Holds(m)
      /\ saved \in Stages /\ status \in Statuses
  BY DEF Enter, Load, AgentInv, TypeOK
<1>3. \A n \in Msgs \ {m} : pc'[n] \notin InRun
  <2> SUFFICES ASSUME NEW n \in Msgs \ {m}, pc'[n] \in InRun PROVE FALSE
    OBVIOUS
  <2>1. pc'[n] = pc[n]
    BY <1>1 DEF Goto, AgentInv, TypeOK
  <2> QED
    BY <1>2, <2>1 DEF AgentInv, RunsAreSerial, Holds
<1>4. pc'[m] = IF Troubleshoots(k) \/ k = "HANDOFF" THEN "file" ELSE "sync"
  BY <1>1 DEF Goto, AgentInv, TypeOK
<1>5. k \in {"CLOSED", "NEW_ISSUE", "ENGINEER_COMPLETED", "MANAGER_REJECTED", "ENGINEER_UPDATE",
            "PASSIVE", "UNSOLVED", "RESOLVED", "HANDOFF"}
      /\ (k = "CLOSED" <=> status = "CLOSED")
      /\ (status = "PENDING_CONFIRM" => k \in {"NEW_ISSUE", "ENGINEER_COMPLETED"})
      /\ (st \in Tracked => k \notin {"UNSOLVED", "RESOLVED", "HANDOFF"})
  BY DEF KindsOf, Feedback
<1>6. /\ handed' => status = "ACTIVE" /\ k # "NEW_ISSUE"
      /\ handed' /\ ~lost' => handed /\ ~lost
  BY <1>1
<1>7. handed' /\ ~lost' => saved \in Tracked /\ st = saved
  <2>1. \A n \in Msgs : ~Announced(n)
    BY <1>2 DEF Enter, AgentInv, RunsAreSerial, Holds, Announced, InRun
  <2> QED
    BY <1>2, <1>6, <2>1 DEF AgentInv, Tracking, StageOnLoad, Tracked, Kept
<1>8. handed' /\ ~lost' => ~Troubleshoots(k) /\ stage' = saved
  BY <1>1, <1>5, <1>6, <1>7 DEF Troubleshoots
<1>9. Tracking'
  BY <1>2, <1>7, <1>8 DEF Tracking
<1>10. st = "CLOSED" <=> status = "CLOSED"
  BY DEF StageOnLoad, Kept
<1>11. RunKnows'
  <2> SUFFICES /\ snap' # "CLOSED" => stage' # "CLOSED" /\ kind' # "CLOSED"
               /\ pc'[m] = "file" =>
                    /\ Troubleshoots(kind') \/ kind' = "HANDOFF"
                    /\ snap' # "CLOSED"
                    /\ snap' = "PENDING_CONFIRM" => kind' = "NEW_ISSUE"
               /\ handed' => snap' = "ACTIVE"
               /\ handed' /\ ~lost' => ~Troubleshoots(kind')
    BY <1>3, <1>4 DEF RunKnows, Troubleshoots
  <2>1. snap' # "CLOSED" => stage' # "CLOSED" /\ kind' # "CLOSED"
    BY <1>1, <1>2, <1>5, <1>10
  <2>2. pc'[m] = "file" => /\ Troubleshoots(kind') \/ kind' = "HANDOFF"
                           /\ snap' # "CLOSED"
                           /\ snap' = "PENDING_CONFIRM" => kind' = "NEW_ISSUE"
    BY <1>1, <1>2, <1>4, <1>5 DEF Troubleshoots
  <2> QED
    BY <2>1, <2>2, <1>1, <1>2, <1>6, <1>8
<1>12. Inside'
  BY <1>4 DEF Inside, InRun
<1> QED
  BY <1>9, <1>11, <1>12

\* A run that returns leaves the graph to the next one.
LEMMA Leaving ==
  ASSUME AgentInv, NEW m \in Msgs, Finish(m), Holds(m)
  PROVE  ~Inside' /\ RunKnows'
<1>1. \A n \in Msgs : pc'[n] \notin InRun
  BY DEF AgentInv, TypeOK, RunsAreSerial, Holds, Finish, InRun
<1> QED
  BY <1>1 DEF Inside, RunKnows

\* A run that goes on is the only one.
LEMMA Staying ==
  ASSUME AgentInv, NEW m \in Msgs, NEW l \in InRun, pc[m] \in InRun, Goto(m, l)
  PROVE  /\ Inside' /\ pc'[m] = l
         /\ \A n \in Msgs \ {m} : pc'[n] \notin InRun
         /\ \A n \in Msgs : Announced(n) => n = m
<1>1. pc'[m] = l /\ \A n \in Msgs \ {m} : pc'[n] = pc[n] /\ pc[n] \notin InRun
  BY DEF AgentInv, TypeOK, RunsAreSerial, Holds, Goto
<1> QED
  BY <1>1 DEF Inside, Announced, InRun

\* A task that is not inside the graph changes nothing that a run knows.
LEMMA Outside ==
  ASSUME AgentInv, UNCHANGED <<saved, stage, snap, kind, handed, lost>>,
         \A n \in Msgs : pc'[n] \in InRun \/ pc[n] \in InRun => pc'[n] = pc[n]
  PROVE  RunKnows' /\ Rest' /\ Tracking'
<1>1. (Inside' <=> Inside) /\ \A n \in Msgs : Announced(n)' <=> Announced(n)
  BY DEF Inside, Announced, InRun
<1>2. RunKnows'
  BY <1>1 DEF RunKnows, AgentInv, Troubleshoots, Fits
<1>3. Rest' /\ Tracking'
  BY <1>1 DEF AgentInv, Rest, Tracking, Fits
<1> QED
  BY <1>2, <1>3

\* What a run knows is what its last step leaves.
LEMMA Knowing ==
  ASSUME AgentInv, NEW m \in Msgs, NEW l \in InRun, pc[m] \in InRun, Goto(m, l),
         snap' # "CLOSED" => stage' # "CLOSED" /\ kind' # "CLOSED",
         l = "tell" => /\ Troubleshoots(kind') \/ kind' = "HANDOFF"
                       /\ snap' # "CLOSED"
                       /\ snap' = "PENDING_CONFIRM" => kind' = "NEW_ISSUE",
         l # "file", l = "save" => Fits(stage)',
         handed' => snap' = "ACTIVE" \/ (l = "save" /\ kind' = "HANDOFF"),
         handed' /\ ~lost' => ~Troubleshoots(kind')
  PROVE  RunKnows' /\ Rest'
<1>1. Inside' /\ pc'[m] = l /\ \A n \in Msgs \ {m} : pc'[n] \notin InRun
  BY Staying
<1> QED
  BY <1>1 DEF RunKnows, Rest, Troubleshoots, Announced, Fits

\* A mishap takes a saved stage back behind the hand-over only while the run
\* that announced it is under way.
LEMMA MishapTracks ==
  ASSUME AgentInv, saved' \in MaySaved, stage' = saved', handed' = handed,
         lost' = (lost \/ \E m \in Msgs : Announced(m))
  PROVE  Tracking'
<1> SUFFICES ASSUME handed, ~lost, \A m \in Msgs : ~Announced(m) PROVE saved' \in Tracked
  BY DEF Tracking
<1>1. saved \in Tracked /\ stage \in Tracked
  BY DEF AgentInv, Tracking
<1>2. ASSUME Inside PROVE snap = "ACTIVE" /\ ~Troubleshoots(kind)
  BY <1>2 DEF Inside, AgentInv, RunKnows
<1>3. ASSUME Inside PROVE StageOnLoad(snap, saved) = saved
  BY <1>1, <1>2, <1>3 DEF StageOnLoad, Tracked, Kept
<1> QED
  BY <1>1, <1>2, <1>3 DEF MaySaved

LEMMA KnowledgeNext == AgentInv /\ [Next]_vars => (RunKnows /\ Rest /\ Tracking)'
<1> SUFFICES ASSUME AgentInv, [Next]_vars PROVE (RunKnows /\ Rest /\ Tracking)'
  OBVIOUS
<1>1. ASSUME NEW m \in Msgs, Commit(m) \/ Invoke(m) \/ NoAgent(m)
      PROVE (RunKnows /\ Rest /\ Tracking)'
  <2>1. UNCHANGED <<saved, stage, snap, kind, handed, lost>>
    BY <1>1 DEF Commit, Invoke, NoAgent
  <2>2. \A n \in Msgs : pc'[n] \in InRun \/ pc[n] \in InRun => pc'[n] = pc[n]
    BY <1>1 DEF Commit, Invoke, NoAgent, Goto, Finish, AgentInv, TypeOK, InRun
  <2> QED
    BY <2>1, <2>2, Outside
<1>2. ASSUME NEW m \in Msgs, Enter(m) PROVE (RunKnows /\ Rest /\ Tracking)'
  BY <1>2, Entering DEF Rest
<1>3. ASSUME NEW m \in Msgs, File(m) PROVE (RunKnows /\ Rest /\ Tracking)'
  <2>1. UNCHANGED <<saved, stage, snap, kind, handed, lost>> /\ Goto(m, "tell")
        /\ pc[m] = "file" /\ pc[m] \in InRun /\ "tell" \in InRun
    BY <1>3 DEF File, InRun
  <2>2. \A n \in Msgs : ~Announced(n)
    BY <2>1, Staying DEF Announced
  <2>3. /\ Troubleshoots(kind) \/ kind = "HANDOFF"
        /\ snap # "CLOSED" /\ stage # "CLOSED" /\ kind # "CLOSED"
        /\ snap = "PENDING_CONFIRM" => kind = "NEW_ISSUE"
        /\ handed => snap = "ACTIVE"
        /\ handed /\ ~lost => ~Troubleshoots(kind)
    BY <2>1, <2>2 DEF AgentInv, RunKnows
  <2>4. RunKnows' /\ Rest'
    BY <2>1, <2>3, Knowing DEF Troubleshoots
  <2>5. Tracking'
    BY <2>1, <2>2 DEF AgentInv, Tracking
  <2> QED
    BY <2>4, <2>5
<1>4. ASSUME NEW m \in Msgs, Tell(m) PROVE (RunKnows /\ Rest /\ Tracking)'
  <2>1. /\ Goto(m, "save") /\ pc[m] = "tell" /\ pc[m] \in InRun /\ "save" \in InRun
        /\ stage' = IF kind = "HANDOFF" THEN "ENGINEER_TRACKING" ELSE "WAITING_MANAGER"
        /\ handed' = (handed \/ kind = "HANDOFF")
        /\ UNCHANGED <<saved, snap, kind, lost>>
    BY <1>4 DEF Tell, InRun
  <2>2. \A n \in Msgs : ~Announced(n)
    BY <2>1, Staying DEF Announced
  <2>3. /\ Troubleshoots(kind) \/ kind = "HANDOFF"
        /\ snap # "CLOSED" /\ kind # "CLOSED"
        /\ snap = "PENDING_CONFIRM" => kind = "NEW_ISSUE"
        /\ handed => snap = "ACTIVE"
        /\ handed /\ ~lost => ~Troubleshoots(kind)
    BY <2>1, <2>2 DEF AgentInv, RunKnows
  <2>4. Fits(stage)'
    BY <2>1, <2>3 DEF Fits
  <2>5. handed' /\ ~lost' => ~Troubleshoots(kind')
    BY <2>1, <2>3 DEF Troubleshoots
  <2>6. RunKnows' /\ Rest'
    <3>1. handed' => snap' = "ACTIVE" \/ kind' = "HANDOFF"
      BY <2>1, <2>3
    <3>2. stage' # "CLOSED" /\ kind' # "CLOSED"
      BY <2>1, <2>3
    <3> QED
      BY <2>1, <2>4, <2>5, <3>1, <3>2, Knowing
  <2>7. Tracking'
    <3> SUFFICES ASSUME handed', ~lost'
                 PROVE  stage' \in Tracked /\ (saved' \in Tracked \/ \E n \in Msgs : Announced(n)')
      BY DEF Tracking
    <3>1. kind = "HANDOFF"
      BY <2>1, <2>3
    <3>2. pc'[m] = "save"
      BY <2>1, Staying
    <3> QED
      BY <2>1, <3>1, <3>2 DEF Announced, Tracked
  <2> QED
    BY <2>6, <2>7
<1>5. ASSUME NEW m \in Msgs, SyncLifecycle(m) PROVE (RunKnows /\ Rest /\ Tracking)'
  <2> DEFINE st == SyncedStage
  <2>1. /\ Goto(m, "save") /\ pc[m] = "sync" /\ pc[m] \in InRun /\ "save" \in InRun
        /\ stage' = st /\ handed' = (handed /\ st # "WAITING_CONFIRM") /\ lost' = (lost /\ handed')
        /\ UNCHANGED <<saved, snap, kind>>
    BY <1>5 DEF SyncLifecycle, InRun
  <2>2. \A n \in Msgs : ~Announced(n)
    BY <2>1, Staying DEF Announced
  <2>3. /\ snap # "CLOSED" => stage # "CLOSED" /\ kind # "CLOSED"
        /\ handed => snap = "ACTIVE"
        /\ handed /\ ~lost => ~Troubleshoots(kind) /\ stage \in Tracked /\ saved \in Tracked
    BY <2>1, <2>2 DEF AgentInv, RunKnows, Tracking
  <2>4. st = "CLOSED" <=> snap = "CLOSED"
    BY <2>3 DEF SyncedStage
  <2>5. snap = "PENDING_CONFIRM" => st = "WAITING_CONFIRM"
    BY <2>3 DEF SyncedStage
  <2>6. handed' /\ ~lost' => st \in Tracked
    BY <2>1, <2>3 DEF SyncedStage, Tracked
  <2>7. RunKnows' /\ Rest'
    <3>1. Fits(stage)'
      BY <2>1, <2>4, <2>5 DEF Fits
    <3>2. handed' => snap' = "ACTIVE"
      BY <2>1, <2>3
    <3>3. handed' /\ ~lost' => ~Troubleshoots(kind')
      BY <2>1, <2>3 DEF Troubleshoots
    <3>4. snap' # "CLOSED" => stage' # "CLOSED" /\ kind' # "CLOSED"
      BY <2>1, <2>3, <2>4
    <3> QED
      BY <2>1, <3>1, <3>2, <3>3, <3>4, Knowing
  <2>8. Tracking'
    BY <2>1, <2>3, <2>6 DEF Tracking
  <2> QED
    BY <2>7, <2>8
<1>6. ASSUME NEW m \in Msgs, Return(m) PROVE (RunKnows /\ Rest /\ Tracking)'
  <2>1. /\ Finish(m) /\ pc[m] = "save" /\ pc[m] \in InRun /\ Holds(m)
        /\ saved' = stage /\ UNCHANGED <<stage, snap, kind>>
        /\ handed' = (handed \/ stage \in Tracked) /\ lost' = (lost /\ stage \notin Tracked)
    BY <1>6 DEF Return, InRun, AgentInv, RunsAreSerial
  <2>2. ~Inside' /\ RunKnows'
    BY <2>1, Leaving
  <2>3. Fits(stage)
    BY <2>1 DEF AgentInv, RunKnows
  <2>4. Rest'
    BY <2>1, <2>3 DEF Rest, Fits
  <2>5. Tracking'
    BY <2>1 DEF AgentInv, Tracking
  <2> QED
    BY <2>2, <2>4, <2>5
<1>7. ASSUME NEW m \in Msgs, RunFails(m) PROVE (RunKnows /\ Rest /\ Tracking)'
  <2>1. ~Inside' /\ RunKnows'
    BY <1>7, Leaving DEF RunFails
  <2>2. \A n \in Msgs : Announced(n) => n = m
    BY <1>7 DEF RunFails, Announced, AgentInv, RunsAreSerial, Holds, InRun
  <2>3. Tracking'
    BY <1>7, <2>2, MishapTracks DEF RunFails
  <2> QED
    BY <1>7, <2>1, <2>3 DEF RunFails, Rest
<1>8. CASE Crash
  <2>1. \A n \in Msgs : pc'[n] \notin InRun
    BY <1>8 DEF Crash, InRun
  <2>2. RunKnows' /\ ~Inside'
    BY <2>1 DEF RunKnows, Inside
  <2>3. Tracking'
    BY <1>8, MishapTracks DEF Crash
  <2>4. Rest'
    <3>1. CASE queue # <<>>
      BY <1>8, <3>1 DEF Crash, Rest
    <3>2. CASE queue = <<>>
      <4>1. ~Inside
        BY <3>2 DEF Inside, AgentInv, RunsAreSerial, Holds
      <4>2. /\ saved' = saved /\ stage' = saved' /\ snap' = snap /\ kind' = kind
            /\ (snap # "NONE" => Fits(saved))
        BY <1>8, <3>2, <4>1 DEF Crash, AgentInv, Rest, MaySaved
      <4> QED
        BY <4>2 DEF Rest, Fits
    <3> QED
      BY <3>1, <3>2
  <2> QED
    BY <2>2, <2>3, <2>4
<1>9. CASE UNCHANGED vars
  BY <1>9, Outside DEF vars
<1> QED
  BY <1>1, <1>2, <1>3, <1>4, <1>5, <1>6, <1>7, <1>8, <1>9 DEF Next, Step

LEMMA AgentNext == AgentInv /\ [Next]_vars => AgentInv'
BY TypeNext, SerialNext, FiledNext, KnowledgeNext DEF AgentInv
----------------------------------------------------------------------------
\* The agent's variables keep their types.
THEOREM TypeCorrect == Spec => []TypeOK
<1>1. AgentInv => TypeOK
  BY DEF AgentInv
<1> QED
  BY <1>1, AgentInit, AgentNext, PTL DEF Spec

\* The lock of a ticket (graphs/runtime.py:81) lets one run at a time into the graph,
\* whatever fails and restarts.
THEOREM OneRunAtATime == Spec => []RunsAreSerial
<1>1. AgentInv => RunsAreSerial
  BY DEF AgentInv
<1> QED
  BY <1>1, AgentInit, AgentNext, PTL DEF Spec

\* persist_event runs before notify on every path of the graph.
THEOREM WhatIsSaidIsFiled == Spec => []SpokenIsFiled
<1>1. AgentInv => SpokenIsFiled
  BY DEF AgentInv, Filed, SpokenIsFiled
<1> QED
  BY <1>1, AgentInit, AgentNext, PTL DEF Spec

\* The two corrections, when a run loads and when it returns, keep the saved
\* stage in step with the status, through failing runs and crashes.
THEOREM StageFollowsStatus == Spec => []StageFits
<1>1. AgentInv => StageFits
  <2> SUFFICES ASSUME AgentInv, queue = <<>>, snap = status, status # "NONE"
               PROVE  /\ saved = "CLOSED" <=> status = "CLOSED"
                      /\ status = "PENDING_CONFIRM" /\ kind # "NEW_ISSUE" => saved = "WAITING_CONFIRM"
    BY DEF StageFits
  <2>1. ~Inside
    BY DEF Inside, AgentInv, RunsAreSerial, Holds
  <2> QED
    BY <2>1 DEF AgentInv, Rest, Fits
<1> QED
  BY <1>1, AgentInit, AgentNext, PTL DEF Spec

\* No advice after a hand-over: the stage of the run that announced it, or that
\* of the checkpoint, keeps later runs from troubleshooting, whatever fails.  The
\* exception is a run that is cut short between the announcement and its return.
THEOREM NoAdviceAfterHandOver == Spec => HandedOverStaysQuiet
<1>1. AgentInv /\ [Next]_vars => [told' # told /\ Troubleshoots(kind) => ~handed \/ lost]_vars
  <2> SUFFICES ASSUME AgentInv, Next, told' # told PROVE Troubleshoots(kind) => ~handed \/ lost
    BY DEF vars
  <2>1. PICK m \in Msgs : Tell(m)
    BY DEF Next, Step, Commit, Invoke, NoAgent, Enter, Load, File, SyncLifecycle, Return,
           RunFails, Crash
  <2> QED
    BY <2>1 DEF Tell, AgentInv, RunKnows, InRun
<1> QED
  BY <1>1, AgentInit, AgentNext, PTL DEF Spec, HandedOverStaysQuiet
=============================================================================
