--------------------------- MODULE CommitGateProofs ---------------------------
(***************************************************************************)
(* Proofs about CommitGate for every batch limit N: the type invariant,    *)
(* the exactness of the turns, the absence of overtaking, and the step     *)
(* simulation of OrderedCommit.                                            *)
(***************************************************************************)
EXTENDS CommitGate, TLAPS

\* MarkDone in isolation: whatever message is marked, the gate's counter
\* stays the first message that is not done, and turns follow the counter.
LEMMA MarkDoneKeepsGate ==
  ASSUME NEW i \in Batch, Inv, MarkDone(i), size' = size
  PROVE  /\ done' = done \cup {i}
         /\ next' \in next..(size + 1)
         /\ next' \notin done'
         /\ 1..(next' - 1) \subseteq done'
         /\ turns' = {j \in Batch : j <= next'}
<1>1. CASE i \in done
  BY <1>1, BatchLimit DEF MarkDone, gate, Inv, TypeOK, Batch
<1>2. CASE i \notin done
  <2>1. PICK k \in next..(size + 1) :
          /\ next..(k - 1) \subseteq done'
          /\ k \notin done'
          /\ next' = k
          /\ turns' = turns \cup ((next + 1)..k \cap Batch)
    BY <1>2 DEF MarkDone
  <2>2. done' = done \cup {i}
    BY <1>2 DEF MarkDone
  <2>3. size \in Nat /\ next \in Nat /\ k \in Nat /\ next >= 1
    BY <2>1, BatchLimit DEF Inv, TypeOK
  <2>4. 1..(k - 1) \subseteq done'
    BY <2>1, <2>2, <2>3 DEF Inv
  <2>5. turns' = {j \in Batch : j <= k}
    BY <2>1, <2>3 DEF Inv, Batch
  <2> QED
    BY <2>1, <2>2, <2>4, <2>5
<1> QED
  BY <1>1, <1>2

\* A turn is open exactly for the messages all of whose predecessors are done.
LEMMA InvImpliesTurnsExact == Inv => TurnsExact
<1> SUFFICES ASSUME Inv PROVE TurnsExact
  OBVIOUS
<1>1. size \in Nat /\ next \in 1..(size + 1)
  BY BatchLimit DEF Inv, TypeOK
<1>2. ASSUME NEW i \in Batch, i <= next PROVE 1..(i - 1) \subseteq done
  BY <1>1, <1>2 DEF Inv, Batch
<1>3. ASSUME NEW i \in Batch, 1..(i - 1) \subseteq done PROVE i <= next
  BY <1>1, <1>3 DEF Inv, Batch
<1> QED
  BY <1>2, <1>3 DEF Inv, TurnsExact

LEMMA InvImpliesNoOvertaking == Inv => NoOvertaking
<1> SUFFICES ASSUME Inv, NEW j \in committed, NEW i \in Batch, i < j
             PROVE  pc[i] \in PastCommit
  BY DEF NoOvertaking
<1>1. i \in 1..(j - 1)
  BY BatchLimit DEF Inv, TypeOK, Batch
<1> QED
  BY <1>1 DEF Inv, DoneIsPastCommit

\* The invariant is inductive.
LEMMA InvInit == Init => Inv
BY BatchLimit DEF Init, Inv, TypeOK, Batch, Positions, DoneIsPastCommit

LEMMA InvNext == Inv /\ [Next]_vars => Inv'
<1> SUFFICES ASSUME Inv, [Next]_vars PROVE Inv'
  OBVIOUS
<1>0. N \in Nat /\ N >= 1 /\ size \in 0..N /\ Batch \subseteq Positions
  BY BatchLimit DEF Inv, TypeOK, Batch, Positions
<1>1. CASE NewBatch
  <2>1. PICK n \in Positions :
          /\ size' = n
          /\ pc' = [i \in Positions |-> IF i <= n THEN "created" ELSE "absent"]
    BY <1>1 DEF NewBatch
  <2>2. done' = {} /\ committed' = {} /\ next' = 1 /\ turns' = {1}
    BY <1>0, <1>1 DEF NewBatch, Inv, TypeOK, Batch
  <2> QED
    BY <2>1, <2>2, <1>0
    DEF Inv, TypeOK, Batch, Positions, DoneIsPastCommit, BeforeCommit, PastCommit
<1>2. CASE EndBatch
  BY <1>2, <1>0
  DEF EndBatch, Inv, TypeOK, Batch, Positions, DoneIsPastCommit, BeforeCommit, PastCommit
<1>3. ASSUME NEW i \in Positions, Prepare(i) \/ Archive(i) \/ Recognise(i)
             \/ RunAgent(i) \/ HandleFailure(i)
      PROVE  Inv'
  <2>1. /\ UNCHANGED <<size, done, next, turns, committed>>
        /\ pc[i] # "absent"
        /\ \E to \in BeforeCommit \cup PastCommit : pc' = [pc EXCEPT ![i] = to]
        /\ pc[i] \in PastCommit => pc'[i] \in PastCommit
    BY <1>3
    DEF Prepare, Archive, Recognise, RunAgent, HandleFailure, Goto, Inv, TypeOK,
        BeforeCommit, PastCommit
  <2>2. "absent" \notin BeforeCommit \cup PastCommit
    BY DEF BeforeCommit, PastCommit
  <2>3. Batch' = Batch
    BY <2>1 DEF Batch
  <2>4. DoneIsPastCommit'
    BY <2>1, <2>3, <1>0 DEF DoneIsPastCommit, Inv, TypeOK
  <2> QED
    BY <2>1, <2>2, <2>3, <2>4, <1>0 DEF Inv, TypeOK
<1>4. ASSUME NEW i \in Positions, Commit(i) PROVE Inv'
  <2>1. PICK to \in {"agent", "returning", "failed"} :
          pc[i] = "waiting" /\ pc' = [pc EXCEPT ![i] = to]
    BY <1>4 DEF Commit, Goto
  <2>2. i \in Batch /\ size' = size /\ Batch' = Batch
    BY <1>4, <2>1 DEF Commit, Inv, Batch
  <2>3. /\ done' = done \cup {i}
        /\ next' \in next..(size + 1)
        /\ next' \notin done'
        /\ 1..(next' - 1) \subseteq done'
        /\ turns' = {j \in Batch : j <= next'}
    BY <1>4, <2>2, MarkDoneKeepsGate DEF Commit
  <2>4. 1..(i - 1) \subseteq done
    BY <1>4, <2>2, InvImpliesTurnsExact DEF Commit, HasTurn, TurnsExact
  <2>5. committed' = committed \cup {i}
    BY <1>4 DEF Commit
  <2>6. TypeOK'
    BY <1>0, <2>1, <2>2, <2>3, <2>5 DEF Inv, TypeOK, PastCommit
  <2>7. DoneIsPastCommit'
    BY <1>0, <2>1, <2>2, <2>3 DEF Inv, TypeOK, DoneIsPastCommit, PastCommit
  <2>8. \A j \in committed' : pc'[j] \in PastCommit /\ 1..(j - 1) \subseteq done'
    BY <1>0, <2>1, <2>2, <2>3, <2>4, <2>5 DEF Inv, TypeOK, PastCommit
  <2>9. \A j \in Positions : (pc'[j] = "absent") <=> (j \notin Batch')
    BY <2>1, <2>2 DEF Inv, TypeOK
  <2> QED
    BY <2>2, <2>3, <2>6, <2>7, <2>8, <2>9 DEF Inv
<1>5. ASSUME NEW i \in Positions, Return(i) PROVE Inv'
  <2>1. pc[i] = "returning" /\ pc' = [pc EXCEPT ![i] = "ended"]
    BY <1>5 DEF Return, Goto
  <2>2. i \in Batch /\ size' = size /\ Batch' = Batch /\ committed' = committed
    BY <1>5, <2>1 DEF Return, Inv, Batch
  <2>3. /\ done' = done \cup {i}
        /\ next' \in next..(size + 1)
        /\ next' \notin done'
        /\ 1..(next' - 1) \subseteq done'
        /\ turns' = {j \in Batch : j <= next'}
    BY <1>5, <2>2, MarkDoneKeepsGate DEF Return
  <2>4. TypeOK'
    BY <1>0, <2>1, <2>2, <2>3 DEF Inv, TypeOK, PastCommit
  <2>5. DoneIsPastCommit'
    BY <1>0, <2>1, <2>2, <2>3 DEF Inv, TypeOK, DoneIsPastCommit, PastCommit
  <2>6. \A j \in committed' : pc'[j] \in PastCommit /\ 1..(j - 1) \subseteq done'
    BY <1>0, <2>1, <2>2, <2>3 DEF Inv, TypeOK, PastCommit
  <2>7. \A j \in Positions : (pc'[j] = "absent") <=> (j \notin Batch')
    BY <2>1, <2>2 DEF Inv, TypeOK
  <2> QED
    BY <2>2, <2>3, <2>4, <2>5, <2>6, <2>7 DEF Inv
<1>6. CASE UNCHANGED vars
  BY <1>6 DEF vars, Inv, TypeOK, Batch, DoneIsPastCommit
<1> QED
  BY <1>1, <1>2, <1>3, <1>4, <1>5, <1>6 DEF Next, Task

\* The inductive invariant of the gate and its loop holds in every state.
THEOREM InvariantHolds == Spec => []Inv
BY InvInit, InvNext, PTL DEF Spec

\* Type correctness, for every batch limit.
THEOREM TypeCorrect == Spec => []TypeOK
<1>1. Inv => TypeOK
  BY DEF Inv
<1> QED
  BY <1>1, InvariantHolds, PTL

\* mark_done keeps the set of open turns exact, for every batch limit and
\* every order in which messages are marked done.
THEOREM TurnsAreExact == Spec => []TurnsExact
BY InvariantHolds, InvImpliesTurnsExact, PTL

\* The promise of the gate: no message's business code runs while an earlier
\* one can still run, for every batch limit.
THEOREM CommitsInOrder == Spec => []NoOvertaking
BY InvariantHolds, InvImpliesNoOvertaking, PTL

-----------------------------------------------------------------------------
(* Simulation of OrderedCommit.                                            *)

Fate == [i \in Positions |-> FateOf(i)]

\* Initially the mapped state is an initial state of OrderedCommit.
LEMMA InitMaps == Init => Ordered!Init
BY DEF Init, Ordered!Init, FateOf, Positions, Ordered!Positions

\* Open is what it should be: present and before its commit.
LEMMA OpenIsBeforeCommit ==
  ASSUME Inv, NEW i \in Positions
  PROVE  (Fate[i] = "open") <=> (pc[i] \in BeforeCommit)
BY DEF Fate, FateOf, Inv, TypeOK, BeforeCommit, PastCommit, Batch, Positions

\* When every task of the batch has ended the mapped batch has no open member.
LEMMA BatchOverIsIdle ==
  ASSUME Inv, \A i \in Batch : pc[i] = "ended"
  PROVE  \A i \in Positions : Fate[i] # "open"
BY OpenIsBeforeCommit DEF Inv, BeforeCommit

\* A step that moves one task maps to a stutter, a skip or an ordered commit.
LEMMA TaskMaps ==
  ASSUME Inv, Inv', NEW i \in Positions, Task(i)
  PROVE  Ordered!Resolve(i) \/ Fate' = Fate
<1>0. N \in Nat /\ size \in Nat /\ Batch \subseteq Positions
  BY BatchLimit DEF Inv, TypeOK, Batch, Positions
<1>1. CASE Commit(i)
  <2>1. PICK to \in {"agent", "returning", "failed"} :
          pc[i] = "waiting" /\ pc' = [pc EXCEPT ![i] = to]
    BY <1>1 DEF Commit, Goto
  <2>2. committed' = committed \cup {i}
    BY <1>1 DEF Commit
  <2>3. i \in Batch
    BY <2>1 DEF Inv
  <2>4. 1..(i - 1) \subseteq done
    BY <1>1, <2>3, InvImpliesTurnsExact DEF Commit, HasTurn, TurnsExact
  <2>5. \A j \in 1..(i - 1) : j \in Positions /\ pc[j] \notin BeforeCommit
    BY <1>0, <2>4 DEF Inv, TypeOK, DoneIsPastCommit, BeforeCommit, PastCommit
  <2>6. \A j \in 1..(i - 1) : Fate[j] # "open"
    BY <2>5, OpenIsBeforeCommit
  <2>7. Fate[i] = "open"
    BY <2>1, OpenIsBeforeCommit DEF BeforeCommit
  <2>8. Fate' = [Fate EXCEPT ![i] = "committed"]
    BY <2>1, <2>2 DEF Fate, FateOf, Inv, TypeOK, PastCommit
  <2> QED
    BY <2>6, <2>7, <2>8
    DEF Ordered!Resolve, Ordered!CommitInOrder, Ordered!IsOpen, Fate
<1>2. CASE ~ Commit(i)
  <2>1. committed' = committed /\ pc[i] # "absent"
    BY <1>2 DEF Task, Prepare, Archive, Recognise, RunAgent, HandleFailure, Return, Goto
  <2>2. PICK to \in BeforeCommit \cup PastCommit : pc' = [pc EXCEPT ![i] = to]
    BY <1>2
    DEF Task, Prepare, Archive, Recognise, RunAgent, HandleFailure, Return, Goto,
        BeforeCommit, PastCommit
  <2>3. pc[i] \in PastCommit => to \in PastCommit
    BY <1>2, <2>2
    DEF Task, Prepare, Archive, Recognise, RunAgent, HandleFailure, Return, Goto,
        Inv, TypeOK, PastCommit
  <2>4. pc[i] \in BeforeCommit \cup PastCommit
    BY <2>1 DEF Inv, TypeOK
  <2>5. CASE pc[i] \in BeforeCommit /\ to \in PastCommit
    <3>1. Fate[i] = "open"
      BY <2>5, OpenIsBeforeCommit
    <3>2. i \notin committed
      BY <2>5 DEF Inv, BeforeCommit, PastCommit
    <3>3. "absent" \notin PastCommit
      BY DEF PastCommit
    <3>4. Fate' = [Fate EXCEPT ![i] = "skipped"]
      BY <2>1, <2>2, <2>5, <3>2, <3>3 DEF Fate, FateOf, Inv, TypeOK
    <3> QED
      BY <3>1, <3>4 DEF Ordered!Resolve, Ordered!Skip, Ordered!IsOpen, Fate
  <2>6. CASE (pc[i] \in PastCommit) <=> (to \in PastCommit)
    <3>1. to # "absent"
      BY DEF BeforeCommit, PastCommit
    <3>2. Fate' = Fate
      BY <2>1, <2>2, <2>6, <3>1 DEF Fate, FateOf, Inv, TypeOK
    <3> QED
      BY <3>2
  <2> QED
    BY <2>2, <2>3, <2>4, <2>5, <2>6 DEF BeforeCommit, PastCommit
<1> QED
  BY <1>1, <1>2

\* Every step of the gate and its loop is a step of OrderedCommit or a stutter.
LEMMA StepMaps == Inv /\ Inv' /\ [Next]_vars => [Ordered!Next]_Fate
<1> SUFFICES ASSUME Inv, Inv', [Next]_vars PROVE Ordered!Next \/ Fate' = Fate
  OBVIOUS
<1>0. N \in Nat /\ N >= 1 /\ Ordered!Positions = Positions
  BY BatchLimit DEF Positions, Ordered!Positions
<1>1. CASE NewBatch
  <2>1. PICK n \in Positions :
          pc' = [i \in Positions |-> IF i <= n THEN "created" ELSE "absent"]
    BY <1>1 DEF NewBatch
  <2>2. committed' = {} /\ \A i \in Positions : pc[i] = "absent"
    BY <1>0, <1>1 DEF NewBatch, Inv, TypeOK, Batch, Positions
  <2>3. Ordered!Idle
    BY <1>0, <2>2 DEF Ordered!Idle, Ordered!IsOpen, FateOf
  <2>4. Fate' = [i \in Positions |-> IF i <= n THEN "open" ELSE "absent"]
    BY <2>1, <2>2 DEF Fate, FateOf, PastCommit
  <2> QED
    BY <1>0, <2>3, <2>4 DEF Ordered!Next, Ordered!StartBatch, Fate
<1>2. CASE EndBatch
  <2>1. \A i \in Positions : Fate[i] # "open"
    BY <1>2, BatchOverIsIdle DEF EndBatch
  <2>2. 1 \in Positions /\ Fate[1] # "absent"
    <3>1. 1 \in Batch /\ 1 \in Positions
      BY <1>0, <1>2 DEF EndBatch, Batch, Positions, Inv, TypeOK
    <3>2. pc[1] = "ended"
      BY <1>2, <3>1 DEF EndBatch
    <3> QED
      BY <3>1, <3>2 DEF Fate, FateOf
  <2>3. Fate' = [i \in Positions |-> "absent"]
    BY <1>2 DEF EndBatch, Fate, FateOf
  <2> QED
    BY <1>0, <2>1, <2>2, <2>3
    DEF Ordered!Next, Ordered!EndBatch, Ordered!Idle, Ordered!IsOpen, Fate
<1>3. ASSUME NEW i \in Positions, Task(i) PROVE Ordered!Next \/ Fate' = Fate
  BY <1>0, <1>3, TaskMaps DEF Ordered!Next
<1>4. CASE UNCHANGED vars
  BY <1>4 DEF vars, Fate, FateOf
<1> QED
  BY <1>1, <1>2, <1>3, <1>4 DEF Next

\* Every behaviour of the gate and its loop is, seen through FateOf, a
\* behaviour of the ordered commit specification (its safety part).
THEOREM GateImplementsOrderedCommit ==
  Spec => Ordered!Init /\ [][Ordered!Next]_Fate
<1>1. Spec => []Inv
  BY InvariantHolds
<1> QED
  BY <1>1, InitMaps, StepMaps, PTL DEF Spec
=============================================================================
