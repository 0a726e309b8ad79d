---------------------------- MODULE IntakeProofs ----------------------------
(***************************************************************************)
(* Proofs about Intake, for any number of messages, tickets, delays and    *)
(* mishaps.  Kept is the inductive strengthening of PicturesAreKept: it    *)
(* says what the file, the temporary file and the row of a picture look    *)
(* like at every step of the message's task, and that nobody but the task  *)
(* and an analysis of a stored picture writes there.                       *)
(***************************************************************************)
EXTENDS Intake, TLAPS

Unsaved == {"write", "fill", "name", "store"}

KeptOf(m) ==
  /\ file[m] # "torn"
  /\ pc[m] = "name" => temp[m] = "whole"
  /\ pc[m] = "store" => file[m] = "whole"
  /\ picture[m].path => file[m] = "whole" /\ picture[m].status # "SKIPPED"
  /\ looking[m] # 0 => picture[m].path
  /\ pc[m] \in Unsaved =>
       picture[m].known /\ ~picture[m].path /\ picture[m].status # "SKIPPED"
  /\ (pc[m] \in {"business", "complete"} \/ row[m] = "DONE") /\ picture[m].known /\ m \notin missed =>
       (picture[m].path <=> picture[m].status # "SKIPPED")
  /\ pc[m] # "idle" => row[m] = "PROCESSING"
  /\ ~running => pc[m] = "idle"

Kept == \A m \in Messages : KeptOf(m)

\* A row of a picture, and the steps of a message's task.
Picture == [known : BOOLEAN, path : BOOLEAN,
            status : {"PENDING", "SKIPPED", "ANALYZED", "FAILED"},
            ticket : Tickets \cup {None}]

\* Writing a field of one row leaves a table of pictures.
LEMMA FieldWritten ==
  ASSUME NEW m \in Messages, picture \in [Messages -> Picture]
  PROVE  /\ \A s \in {"SKIPPED", "ANALYZED", "FAILED"} :
              [picture EXCEPT ![m].status = s] \in [Messages -> Picture]
         /\ \A t \in Tickets \cup {None} :
              [picture EXCEPT ![m].ticket = t] \in [Messages -> Picture]
         /\ \A b \in BOOLEAN : /\ [picture EXCEPT ![m].known = b] \in [Messages -> Picture]
                              /\ [picture EXCEPT ![m].path = b] \in [Messages -> Picture]
BY DEF Picture

\* What a line of the child does to the tables.
LEMMA Enqueued ==
  ASSUME NEW m \in Messages, Enqueue(m), ~ UNCHANGED <<row, picture>>
  PROVE  \E b \in BOOLEAN : /\ row[m] = "none" /\ row' = [row EXCEPT ![m] = "PENDING"]
                           /\ picture' = [picture EXCEPT ![m].known = b]
<1> DEFINE b == IF HasPicture(m) THEN TRUE ELSE FALSE
<1>1. HasPicture(m) = b /\ b \in BOOLEAN
  BY DEF HasPicture
<1>2. picture' = [picture EXCEPT ![m].known = HasPicture(m)]
  BY DEF Enqueue
<1>3. picture' = [picture EXCEPT ![m].known = b]
  BY <1>1, <1>2
<1> HIDE DEF b
<1> QED
  BY <1>1, <1>3 DEF Enqueue
----------------------------------------------------------------------------
\* The variables keep their types, whatever is read, fetched, written, lost or
\* restarted.
LEMMA TypeInit == Init => TypeOK
BY IntakeAssumption DEF Init, TypeOK, NoPicture, Steps

LEMMA TypeNext == TypeOK /\ [Next]_vars => TypeOK'
<1> SUFFICES ASSUME TypeOK, [Next]_vars PROVE TypeOK'
  OBVIOUS
<1>a. picture \in [Messages -> Picture]
  BY DEF TypeOK, Picture
<1>b. ASSUME NEW m \in Messages, GiveUp(m) PROVE picture' \in [Messages -> Picture]
  BY <1>a, <1>b, FieldWritten DEF GiveUp
<1> USE IntakeAssumption DEF TypeOK, feed, disk, tasks
<1>1. ASSUME NEW m \in Messages, Post(m) PROVE TypeOK'
  BY <1>1 DEF Post
<1>2. ASSUME NEW m \in Messages, Repeat(m) PROVE TypeOK'
  BY <1>2 DEF Repeat, Mishap
<1>3. ASSUME NEW m \in Messages, Take(m) PROVE TypeOK'
  BY <1>3 DEF Take, At, Goto, Steps
<1>4. ASSUME NEW m \in Messages, Fetch(m) PROVE TypeOK'
  <2>1. picture' \in [Messages -> Picture]
    BY <1>4, <1>a, <1>b DEF Fetch
  <2>2. pc' \in [Messages -> Steps]
    BY <1>4 DEF Fetch, GiveUp, Goto, Steps
  <2>3. missed' \subseteq Messages
    BY <1>4 DEF Fetch, GiveUp
  <2> QED
    BY <1>4, <2>1, <2>2, <2>3 DEF Fetch, Picture
<1>5. ASSUME NEW m \in Messages, Write(m) PROVE TypeOK'
  BY <1>5 DEF Write, At, Goto, Steps
<1>6. ASSUME NEW m \in Messages, Fill(m) PROVE TypeOK'
  BY <1>6 DEF Fill, At, Goto, Steps
<1>7. ASSUME NEW m \in Messages, Rename(m) PROVE TypeOK'
  BY <1>7 DEF Rename, At, Goto, Steps
<1>8. ASSUME NEW m \in Messages, Store(m) PROVE TypeOK'
  <2>1. missed' \subseteq Messages
    BY <1>8 DEF Store
  <2>2. picture' \in [Messages -> Picture]
    BY <1>8, <1>a, FieldWritten DEF Store
  <2>3. pc' \in [Messages -> Steps]
    BY <1>8 DEF Store, Goto, Steps
  <2> QED
    BY <1>8, <2>1, <2>2, <2>3 DEF Store, Picture
<1>9. ASSUME NEW m \in Messages, ArchiveFails(m) PROVE TypeOK'
  <2>1. picture' \in [Messages -> Picture]
    BY <1>9, <1>b DEF ArchiveFails
  <2>2. pc' \in [Messages -> Steps]
    BY <1>9 DEF ArchiveFails, GiveUp, Goto, Steps
  <2>3. missed' \subseteq Messages
    BY <1>9 DEF ArchiveFails, GiveUp
  <2> QED
    BY <1>9, <2>1, <2>2, <2>3 DEF ArchiveFails, Mishap, Picture
<1>25. ASSUME NEW m \in Messages, NEW s \in Steps, Goto(m, s) PROVE pc' \in [Messages -> Steps]
  BY <1>25 DEF Goto
<1>23. ASSUME NEW m \in Messages, ArchiveBreaks(m) \/ TakenForWords(m) PROVE TypeOK'
  <2>1. pc' \in [Messages -> Steps]
    BY <1>23, <1>25 DEF ArchiveBreaks, TakenForWords, Steps
  <2>2. missed' \subseteq Messages
    BY <1>23 DEF ArchiveBreaks, TakenForWords
  <2> QED
    BY <1>23, <2>1, <2>2 DEF ArchiveBreaks, TakenForWords, Mishap
<1>24. ASSUME NEW m \in Messages, PrepareFails(m) PROVE TypeOK'
  <2>1. row' \in [Messages -> {"none", "PENDING", "PROCESSING", "DONE"}]
    <3>1. PICK s \in {"PENDING", "DONE"} : row' = [row EXCEPT ![m] = s]
      BY <1>24 DEF PrepareFails
    <3> QED
      BY <3>1
  <2>2. missed' \subseteq Messages
    BY <1>24 DEF PrepareFails
  <2> QED
    BY <1>24, <2>1, <2>2 DEF PrepareFails, Mishap
<1>10. ASSUME NEW m \in Messages, Business(m) PROVE TypeOK'
  <2>1. ASSUME NEW t \in Tickets, Backfill(m, t) PROVE picture' \in [Messages -> Picture]
    <3>1. PICK u \in Tickets \cup {None} : picture' = [picture EXCEPT ![m].ticket = u]
      BY <2>1, <1>a DEF Backfill, Picture
    <3> QED
      BY <3>1, <1>a, FieldWritten
  <2>2. picture' \in [Messages -> Picture]
    BY <1>10, <1>a, <2>1 DEF Business
  <2>3. planned' \in [Messages -> Nat] /\ pc' \in [Messages -> Steps]
    BY <1>10 DEF Business, Schedule, Goto, Steps
  <2> QED
    BY <1>10, <2>2, <2>3 DEF Business, Picture
<1>11. ASSUME NEW m \in Messages, Complete(m) PROVE TypeOK'
  BY <1>11 DEF Complete, At, Goto, Steps
<1>12. ASSUME NEW m \in Messages, BusinessFails(m) PROVE TypeOK'
  <2>1. row' \in [Messages -> {"none", "PENDING", "PROCESSING", "DONE"}]
    BY <1>12 DEF BusinessFails
  <2>2. pc' \in [Messages -> Steps]
    BY <1>12 DEF BusinessFails, Goto, Steps
  <2> QED
    BY <1>12, <2>1, <2>2 DEF BusinessFails, Mishap
<1>13. ASSUME NEW m \in Messages, Look(m) PROVE TypeOK'
  BY <1>13 DEF Look, Visible
<1>14. ASSUME NEW m \in Messages, See(m) PROVE TypeOK'
  <2>1. PICK s \in Seen : picture' = [picture EXCEPT ![m].status = s]
    BY <1>14 DEF See
  <2>2. picture' \in [Messages -> Picture]
    BY <1>a, <2>1, FieldWritten DEF Seen
  <2>3. looking' \in [Messages -> Nat]
    BY <1>14 DEF See
  <2> QED
    BY <1>14, <2>2, <2>3 DEF See, Picture
<1>15. CASE Spawn
  BY <1>15 DEF Spawn
<1>16. CASE ChildEnds
  BY <1>16 DEF ChildEnds, Mishap
<1>17. CASE Reconnect
  BY <1>17 DEF Reconnect, Later
<1>18. CASE ReadLine
  <2>1. Head(pipe) \in Messages /\ Tail(pipe) \in Seq(Messages)
    BY <1>18 DEF ReadLine
  <2>2. picture' \in [Messages -> Picture]
    <3>1. CASE UNCHANGED <<row, picture>>
      BY <3>1, <1>a
    <3>2. CASE ~ UNCHANGED <<row, picture>>
      <4>1. Enqueue(Head(pipe))
        BY <1>18, <3>2 DEF ReadLine
      <4>2. PICK b \in BOOLEAN : picture' = [picture EXCEPT ![Head(pipe)].known = b]
        BY <4>1, <3>2, <2>1, Enqueued
      <4> QED
        BY <4>2, <1>a, <2>1, FieldWritten
    <3> QED
      BY <3>1, <3>2
  <2>3. row' \in [Messages -> {"none", "PENDING", "PROCESSING", "DONE"}]
    BY <1>18, <2>1 DEF ReadLine, Enqueue
  <2> QED
    BY <1>18, <2>1, <2>2, <2>3 DEF ReadLine, Picture
<1>19. CASE ReadFails
  BY <1>19 DEF ReadFails, Later, Mishap
<1>20. CASE Crash
  <2>1. pc' \in [Messages -> Steps] /\ pipe' \in Seq(Messages)
    BY <1>20 DEF Crash, Steps
  <2>2. planned' \in [Messages -> Nat] /\ looking' \in [Messages -> Nat]
    BY <1>20 DEF Crash
  <2>3. mishaps' \in 0..MaxMishaps /\ attempt' \in 0..Backoffs
    BY <1>20 DEF Crash, Mishap
  <2> QED
    BY <1>20, <2>1, <2>2, <2>3 DEF Crash
<1>21. CASE Restart
  BY <1>21 DEF Restart
<1>22. CASE UNCHANGED vars
  BY <1>22 DEF vars
<1> QED
  BY <1>1, <1>2, <1>3, <1>4, <1>5, <1>6, <1>7, <1>8, <1>9, <1>10, <1>11, <1>12,
     <1>13, <1>14, <1>15, <1>16, <1>17, <1>18, <1>19, <1>20, <1>21, <1>22,
     <1>23, <1>24 DEF Next
----------------------------------------------------------------------------
\* One step of anybody keeps the row of every picture in order.
LEMMA KeptInit == Init => Kept
BY DEF Init, Kept, KeptOf, NoPicture, Unsaved

\* A task moves on: only the rows of its own message are touched.
Alone(m) ==
  \A n \in Messages \ {m} :
    /\ file'[n] = file[n] /\ temp'[n] = temp[n] /\ pc'[n] = pc[n]
    /\ picture'[n] = picture[n] /\ row'[n] = row[n] /\ looking'[n] = looking[n]
    /\ n \in missed' <=> n \in missed

LEMMA AloneKeeps ==
  ASSUME NEW m \in Messages, Kept, Alone(m), running' = running, KeptOf(m)'
  PROVE  Kept'
BY DEF Kept, KeptOf, Alone

LEMMA KeptNext == TypeOK /\ Kept /\ [Next]_vars => Kept'
<1> SUFFICES ASSUME TypeOK, Kept, [Next]_vars PROVE Kept'
  OBVIOUS
<1> USE DEF feed, disk, tasks
<1>0. picture \in [Messages -> Picture]
  BY DEF TypeOK, Picture
<1>1. ASSUME NEW m \in Messages, Post(m) \/ Repeat(m) PROVE Kept'
  BY <1>1 DEF Post, Repeat, Kept, KeptOf
<1>3. ASSUME NEW m \in Messages, Take(m) PROVE Kept'
  <2>1. Alone(m) /\ running' = running
    BY <1>3 DEF Take, Goto, Alone, TypeOK
  <2>2. KeptOf(m)'
    BY <1>3 DEF Take, At, Goto, Kept, KeptOf, TypeOK, Unsaved
  <2> QED
    BY <2>1, <2>2, AloneKeeps
<1>4. ASSUME NEW m \in Messages, Fetch(m) PROVE Kept'
  <2>1. Alone(m) /\ running' = running
    BY <1>4, <1>0 DEF Fetch, GiveUp, Goto, Alone, TypeOK
  <2>2. KeptOf(m)'
    <3>1. CASE Wanted(m) /\ Goto(m, "write") /\ UNCHANGED picture
      BY <1>4, <3>1 DEF Fetch, Wanted, At, Goto, Kept, KeptOf, TypeOK, Unsaved
    <3>2. CASE Wanted(m) /\ GiveUp(m)
      <4>1. /\ pc'[m] = "business" /\ picture'[m].status = "SKIPPED"
            /\ picture'[m].path = picture[m].path /\ picture'[m].known = picture[m].known
        BY <3>2, <1>0 DEF GiveUp, Goto, TypeOK, Picture
      <4> QED
        BY <1>4, <3>2, <4>1 DEF Fetch, Wanted, At, Kept, KeptOf, Unsaved
    <3>3. CASE ~Wanted(m) /\ Goto(m, "business") /\ UNCHANGED picture
      BY <1>4, <3>3, <1>0 DEF Fetch, Wanted, At, Goto, Kept, KeptOf, TypeOK, Unsaved, Picture
    <3> QED
      BY <1>4, <3>1, <3>2, <3>3 DEF Fetch
  <2> QED
    BY <2>1, <2>2, AloneKeeps
<1>5. ASSUME NEW m \in Messages, Write(m) PROVE Kept'
  <2>1. Alone(m) /\ running' = running
    BY <1>5 DEF Write, Goto, Alone, TypeOK
  <2>2. KeptOf(m)'
    BY <1>5 DEF Write, At, Goto, Kept, KeptOf, TypeOK, Unsaved
  <2> QED
    BY <2>1, <2>2, AloneKeeps
<1>6. ASSUME NEW m \in Messages, Fill(m) \/ Rename(m) PROVE Kept'
  <2>1. Alone(m) /\ running' = running
    BY <1>6 DEF Fill, Rename, Goto, Alone, TypeOK
  <2>2. KeptOf(m)'
    BY <1>6 DEF Fill, Rename, At, Goto, Kept, KeptOf, TypeOK, Unsaved
  <2> QED
    BY <2>1, <2>2, AloneKeeps
<1>8. ASSUME NEW m \in Messages, Store(m) PROVE Kept'
  <2>1. Alone(m) /\ running' = running
    BY <1>8, <1>0 DEF Store, Goto, Alone, TypeOK
  <2>2. /\ pc'[m] = "business" /\ picture'[m].path
        /\ picture'[m].status = picture[m].status /\ picture'[m].known = picture[m].known
    BY <1>8, <1>0 DEF Store, Goto, TypeOK, Picture
  <2>3. KeptOf(m)'
    BY <1>8, <2>2 DEF Store, At, Kept, KeptOf, Unsaved
  <2> QED
    BY <2>1, <2>3, AloneKeeps
<1>9. ASSUME NEW m \in Messages, ArchiveFails(m) PROVE Kept'
  <2>1. Alone(m) /\ running' = running
    BY <1>9, <1>0 DEF ArchiveFails, GiveUp, Goto, Alone, TypeOK
  <2>2. /\ pc'[m] = "business" /\ picture'[m].status = "SKIPPED"
        /\ picture'[m].path = picture[m].path /\ picture'[m].known = picture[m].known
    BY <1>9, <1>0 DEF ArchiveFails, GiveUp, Goto, TypeOK, Picture
  <2>3. KeptOf(m)'
    BY <1>9, <2>2 DEF ArchiveFails, Kept, KeptOf, Unsaved
  <2> QED
    BY <2>1, <2>3, AloneKeeps
<1>23. ASSUME NEW m \in Messages, ArchiveBreaks(m) PROVE Kept'
  <2>1. Alone(m) /\ running' = running
    BY <1>23 DEF ArchiveBreaks, Goto, Alone, TypeOK
  <2>2. KeptOf(m)'
    <3>1. pc'[m] = "business" /\ m \in missed' /\ running /\ row[m] = "PROCESSING"
      BY <1>23 DEF ArchiveBreaks, Goto, TypeOK, Kept, KeptOf
    <3> QED
      BY <1>23, <3>1 DEF ArchiveBreaks, Kept, KeptOf, Unsaved
  <2> QED
    BY <2>1, <2>2, AloneKeeps
<1>24. ASSUME NEW m \in Messages, PrepareFails(m) PROVE Kept'
  <2>1. PICK s \in {"PENDING", "DONE"} : row' = [row EXCEPT ![m] = s]
    BY <1>24 DEF PrepareFails
  <2>2. Alone(m) /\ running' = running
    BY <1>24, <2>1 DEF PrepareFails, Alone, TypeOK
  <2>3. KeptOf(m)'
    <3>1. picture[m] \in Picture /\ pc[m] = "idle" /\ running
      BY <1>24, <1>0 DEF PrepareFails, At
    <3>2. picture[m].known /\ m \notin missed' => (picture[m].path <=> picture[m].status # "SKIPPED")
      BY <1>24, <3>1 DEF PrepareFails, Wanted, Kept, KeptOf
    <3> QED
      BY <1>24, <3>1, <3>2 DEF PrepareFails, Kept, KeptOf, Unsaved
  <2> QED
    BY <2>2, <2>3, AloneKeeps
<1>25. ASSUME NEW m \in Messages, TakenForWords(m) PROVE Kept'
  <2>1. Alone(m) /\ running' = running
    BY <1>25 DEF TakenForWords, Goto, Alone, TypeOK
  <2>2. KeptOf(m)'
    BY <1>25 DEF TakenForWords, At, Goto, Kept, KeptOf, TypeOK, Unsaved
  <2> QED
    BY <2>1, <2>2, AloneKeeps
<1>10. ASSUME NEW m \in Messages, Business(m) PROVE Kept'
  <2>1. Alone(m) /\ running' = running
    BY <1>10, <1>0 DEF Business, Backfill, Goto, Alone, TypeOK
  <2>2. /\ pc'[m] = "complete" /\ picture'[m].path = picture[m].path
        /\ picture'[m].status = picture[m].status /\ picture'[m].known = picture[m].known
    BY <1>10, <1>0 DEF Business, Backfill, Goto, TypeOK, Picture
  <2>3. KeptOf(m)'
    BY <1>10, <2>2 DEF Business, At, Kept, KeptOf, Unsaved
  <2> QED
    BY <2>1, <2>3, AloneKeeps
<1>11. ASSUME NEW m \in Messages, Complete(m) PROVE Kept'
  <2>1. Alone(m) /\ running' = running
    BY <1>11 DEF Complete, Goto, Alone, TypeOK
  <2>2. KeptOf(m)'
    BY <1>11 DEF Complete, At, Goto, Kept, KeptOf, TypeOK, Unsaved
  <2> QED
    BY <2>1, <2>2, AloneKeeps
<1>12. ASSUME NEW m \in Messages, BusinessFails(m) PROVE Kept'
  <2>1. PICK s \in {"PENDING", "DONE"} : row' = [row EXCEPT ![m] = s]
    BY <1>12 DEF BusinessFails
  <2>2. Alone(m) /\ running' = running
    BY <1>12, <2>1 DEF BusinessFails, Goto, Alone, TypeOK
  <2>3. KeptOf(m)'
    BY <1>12, <2>1 DEF BusinessFails, Goto, Kept, KeptOf, TypeOK, Unsaved
  <2> QED
    BY <2>2, <2>3, AloneKeeps
<1>13. ASSUME NEW m \in Messages, Look(m) PROVE Kept'
  <2>1. Alone(m) /\ running' = running
    BY <1>13 DEF Look, Alone, TypeOK
  <2>2. KeptOf(m)'
    BY <1>13 DEF Look, Visible, Kept, KeptOf, TypeOK
  <2> QED
    BY <2>1, <2>2, AloneKeeps
<1>14. ASSUME NEW m \in Messages, See(m) PROVE Kept'
  <2>1. PICK s \in Seen : picture' = [picture EXCEPT ![m].status = s]
    BY <1>14 DEF See
  <2>2. Alone(m) /\ running' = running
    BY <1>14, <1>0, <2>1 DEF See, Alone, TypeOK
  <2>3. /\ picture'[m].status # "SKIPPED" /\ picture'[m].known = picture[m].known
        /\ picture'[m].path = picture[m].path /\ picture[m].path
    BY <1>14, <1>0, <2>1 DEF See, Seen, Kept, KeptOf, TypeOK, Picture
  <2>4. KeptOf(m)'
    BY <1>14, <2>3 DEF See, Kept, KeptOf
  <2> QED
    BY <2>2, <2>4, AloneKeeps
<1>15. CASE Spawn \/ ChildEnds \/ Reconnect \/ ReadFails
  BY <1>15 DEF Spawn, ChildEnds, Reconnect, ReadFails, Kept, KeptOf
<1>18. CASE ReadLine
  <2>1. CASE UNCHANGED <<row, picture>>
    BY <1>18, <2>1 DEF ReadLine, Kept, KeptOf
  <2>2. CASE ~ UNCHANGED <<row, picture>>
    <3>1. PICK m \in Messages, b \in BOOLEAN :
            /\ row[m] = "none" /\ row' = [row EXCEPT ![m] = "PENDING"]
            /\ picture' = [picture EXCEPT ![m].known = b]
      <4>1. Enqueue(Head(pipe)) /\ Head(pipe) \in Messages
        BY <1>18, <2>2 DEF ReadLine, TypeOK
      <4> QED
        BY <4>1, <2>2, Enqueued
    <3>2. Alone(m) /\ running' = running
      BY <1>18, <3>1, <1>0 DEF ReadLine, Alone, TypeOK
    <3>3. /\ row'[m] = "PENDING" /\ pc[m] = "idle"
          /\ picture'[m].path = picture[m].path /\ picture'[m].status = picture[m].status
      BY <3>1, <1>0 DEF Kept, KeptOf, TypeOK, Picture
    <3>4. KeptOf(m)'
      BY <1>18, <3>1, <3>3 DEF ReadLine, Kept, KeptOf, Unsaved
    <3> QED
      BY <3>1, <3>2, <3>4, AloneKeeps
  <2> QED
    BY <2>1, <2>2
<1>20. CASE Crash
  BY <1>20 DEF Crash, Kept, KeptOf, Unsaved
<1>21. CASE Restart
  BY <1>21 DEF Restart, Kept, KeptOf, TypeOK
<1>22. CASE UNCHANGED vars
  BY <1>22 DEF vars, Kept, KeptOf
<1> QED
  BY <1>1, <1>3, <1>4, <1>5, <1>6, <1>8, <1>9, <1>10, <1>11, <1>12,
     <1>13, <1>14, <1>15, <1>18, <1>20, <1>21, <1>22, <1>23, <1>24, <1>25 DEF Next
----------------------------------------------------------------------------
\* No step puts a picture that has a ticket to another one.
LEMMA TicketKept ==
  ASSUME TypeOK, [Next]_vars, NEW m \in Messages, picture[m].ticket # None
  PROVE  picture'[m].ticket = picture[m].ticket
<1> USE DEF feed, disk, tasks
<1>0. picture \in [Messages -> Picture]
  BY DEF TypeOK, Picture
<1>1. CASE UNCHANGED picture
  BY <1>1
<1>2. ASSUME NEW n \in Messages, GiveUp(n) PROVE picture'[m].ticket = picture[m].ticket
  BY <1>0, <1>2 DEF GiveUp, Picture
<1>3. ASSUME NEW n \in Messages, Store(n) PROVE picture'[m].ticket = picture[m].ticket
  BY <1>0, <1>3 DEF Store, Picture
<1>4. ASSUME NEW n \in Messages, NEW t \in Tickets, Backfill(n, t)
      PROVE  picture'[m].ticket = picture[m].ticket
  BY <1>0, <1>4 DEF Backfill, Picture
<1>5. ASSUME NEW n \in Messages, See(n) PROVE picture'[m].ticket = picture[m].ticket
  <2>1. PICK s \in Seen : picture' = [picture EXCEPT ![n].status = s]
    BY <1>5 DEF See
  <2> QED
    BY <1>0, <2>1 DEF Picture
<1>6. ASSUME NEW n \in Messages, Enqueue(n) PROVE picture'[m].ticket = picture[m].ticket
  BY <1>0, <1>6 DEF Enqueue, Picture
<1>7. CASE UNCHANGED vars
  BY <1>1, <1>7 DEF vars
<1>8. ASSUME NEW n \in Messages, Post(n) \/ Repeat(n) \/ Take(n) \/ Write(n) \/ Fill(n)
                                 \/ Rename(n) \/ Complete(n) \/ BusinessFails(n) \/ Look(n)
                                 \/ PrepareFails(n) \/ ArchiveBreaks(n) \/ TakenForWords(n)
      PROVE  picture'[m].ticket = picture[m].ticket
  BY <1>8 DEF Post, Repeat, Take, Write, Fill, Rename, Complete, BusinessFails, Look,
              PrepareFails, ArchiveBreaks, TakenForWords
<1>9. ASSUME NEW n \in Messages, Fetch(n) \/ ArchiveFails(n) \/ Business(n)
      PROVE  picture'[m].ticket = picture[m].ticket
  BY <1>1, <1>2, <1>4, <1>9 DEF Fetch, ArchiveFails, Business
<1>10. CASE ReadLine
  BY <1>1, <1>6, <1>10 DEF ReadLine, TypeOK
<1>11. CASE Spawn \/ ChildEnds \/ Reconnect \/ ReadFails \/ Crash \/ Restart
  BY <1>11 DEF Spawn, ChildEnds, Reconnect, ReadFails, Crash, Restart
<1> QED
  BY <1>3, <1>5, <1>7, <1>8, <1>9, <1>10, <1>11 DEF Next
----------------------------------------------------------------------------
\* The type invariant of the intake, over any number of deliveries and crashes.
THEOREM TypeCorrect == Spec => []TypeOK
<1>1. Init => TypeOK
  BY TypeInit
<1>2. TypeOK /\ [Next]_vars => TypeOK'
  BY TypeNext
<1> QED
  BY <1>1, <1>2, PTL DEF Spec

\* Wherever the process dies: a stored path leads to a whole picture, and a
\* message that is done has its picture stored or given up, unless the archiving
\* of it broke down as a whole or was not reached (images/archive.py).
THEOREM PicturesSurvive == Spec => []PicturesAreKept
<1>1. Init => TypeOK /\ Kept
  BY TypeInit, KeptInit
<1>2. TypeOK /\ Kept /\ [Next]_vars => (TypeOK /\ Kept)'
  BY TypeNext, KeptNext
<1>3. Kept => PicturesAreKept
  BY DEF Kept, KeptOf, PicturesAreKept, PathLeadsToPicture, PicturesAreAccounted
<1> QED
  BY <1>1, <1>2, <1>3, PTL DEF Spec

\* backfill_attachment_ticket and its repetitions never move a picture from
\* one ticket to another.
THEOREM TicketsOfPicturesStay == Spec => PictureKeepsTicket
<1>1. Init => TypeOK
  BY TypeInit
<1>2. TypeOK /\ [Next]_vars => TypeOK'
  BY TypeNext
<1>3. TypeOK /\ [Next]_vars =>
        [\A m \in Messages : picture[m].ticket # None
           => picture'[m].ticket = picture[m].ticket]_vars
  BY TicketKept
<1> QED
  BY <1>1, <1>2, <1>3, PTL DEF Spec, PictureKeepsTicket
=============================================================================
