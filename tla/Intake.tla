------------------------------- MODULE Intake -------------------------------
(***************************************************************************)
(* How the messages of a group reach the inbox, and what becomes of the    *)
(* pictures they bring: the listener of the group and its child process    *)
(* (event_listener.py), the normaliser (event_normalizer.py), the rows of  *)
(* inbox_messages and message_attachments (db.py), the archive             *)
(* (images/archive.py), the ticket a picture is put to (pipeline.py) and   *)
(* its analysis in the background (images/vision.py).                      *)
(*                                                                         *)
(* A message brings one picture or none.  The bytes of a picture are the   *)
(* same whenever they are fetched; its file has one name (a later attempt  *)
(* on another day writes another one, which changes nothing below).  A     *)
(* crash ends the process between two steps; what was written stays on the *)
(* disk.  The order of the messages is the subject of CommitGate, the      *)
(* attempts of a row that of MessageProcessing.                            *)
(***************************************************************************)
EXTENDS Naturals, Sequences

CONSTANTS
  M,           \* bound: messages
  Tickets,     \* tickets a picture may be put to
  Backoffs,    \* entries of _RETRY_BACKOFF (7)
  MaxMishaps   \* bound: crashes, repeats, child exits, failing reads and writes, together

Messages == 1..M
None == 0

ASSUME IntakeAssumption ==
  /\ M \in Nat /\ None \notin Tickets
  /\ Backoffs \in Nat \ {0} /\ MaxMishaps \in Nat

\* What a line of the child turns out to be: not JSON or without a required
\* field, the bot's own, without or with a picture.
Kinds == {"broken", "own", "words", "picture"}

Steps == {"idle", "archive", "write", "fill", "name", "store", "business", "complete"}

NoPicture == [known |-> FALSE, path |-> FALSE, status |-> "PENDING", ticket |-> None]

VARIABLES
  kind,     \* what every message is
  posted,   \* the messages that were posted
  running,  \* does the process run?
  child,    \* memory: the listener's child process
  attempt,  \* memory: attempts to reconnect, as far as the table of delays goes
  pipe,     \* the lines of the child that were not read yet
  row,      \* inbox_messages.status; DONE is COMPLETED or DEAD_LETTER
  picture,  \* message_attachments: exists, stored_path, analyzed_status, ticket_id
  temp,     \* the temporary file of every picture
  file,     \* its file in the archive
  pc,       \* memory: where the task of every message is
  planned,  \* memory: analyses that were scheduled and have not begun
  looking,  \* memory: analyses that wait for the model
  missed,   \* history: pictures whose archiving broke down or was not reached
            \* in the last attempt at their message
  mishaps   \* how many mishaps happened

feed  == <<posted, child, attempt, pipe>>
disk  == <<temp, file>>
tasks == <<planned, looking>>
vars  == <<kind, running, feed, row, picture, disk, pc, tasks, missed, mishaps>>

TypeOK ==
  /\ kind \in [Messages -> Kinds]
  /\ posted \subseteq Messages
  /\ running \in BOOLEAN
  /\ child \in {"none", "up", "ended"}
  /\ attempt \in 0..Backoffs
  /\ pipe \in Seq(Messages)
  /\ row \in [Messages -> {"none", "PENDING", "PROCESSING", "DONE"}]
  /\ picture \in [Messages -> [known : BOOLEAN, path : BOOLEAN,
                               status : {"PENDING", "SKIPPED", "ANALYZED", "FAILED"},
                               ticket : Tickets \cup {None}]]
  /\ temp \in [Messages -> {"none", "torn", "whole"}]
  /\ file \in [Messages -> {"none", "torn", "whole"}]
  /\ pc \in [Messages -> Steps]
  /\ planned \in [Messages -> Nat] /\ looking \in [Messages -> Nat]
  /\ missed \subseteq Messages
  /\ mishaps \in 0..MaxMishaps

Init ==
  /\ kind \in [Messages -> Kinds]
  /\ posted = {} /\ pipe = <<>>
  /\ running = TRUE /\ child = "none" /\ attempt = 0
  /\ row = [m \in Messages |-> "none"]
  /\ picture = [m \in Messages |-> NoPicture]
  /\ temp = [m \in Messages |-> "none"] /\ file = [m \in Messages |-> "none"]
  /\ pc = [m \in Messages |-> "idle"]
  /\ planned = [m \in Messages |-> 0] /\ looking = [m \in Messages |-> 0]
  /\ missed = {}
  /\ mishaps = 0

Mishap == mishaps < MaxMishaps /\ mishaps' = mishaps + 1
----------------------------------------------------------------------------
(* The listener of the group.                                              *)

\* A member posts.  Nobody hears it while there is no child.
Post(m) ==
  /\ m \notin posted
  /\ posted' = posted \cup {m}
  /\ pipe' = IF child = "up" THEN Append(pipe, m) ELSE pipe
  /\ UNCHANGED <<kind, running, child, attempt, row, picture, disk, pc, tasks, mishaps, missed>>

\* The platform sends a message once more.
Repeat(m) ==
  /\ Mishap
  /\ m \in posted /\ child = "up"
  /\ pipe' = Append(pipe, m)
  /\ UNCHANGED <<kind, running, posted, child, attempt, row, picture, disk, pc, tasks, missed>>

\* mutated: the table of the delays is read past its end
Later_Unbounded == attempt + 1

\* The last delay of the table is used from then on.
Later == IF attempt < Backoffs THEN attempt + 1 ELSE attempt

\* A child is started, after the delay that follows the end of another one.
Spawn ==
  /\ running /\ child = "none" /\ attempt \in 0..Backoffs
  /\ child' = "up"
  /\ UNCHANGED <<kind, running, posted, attempt, pipe, row, picture, disk, pc, tasks,
                 mishaps, missed>>

\* The child ends by itself; what it has written can still be read.
ChildEnds ==
  /\ Mishap
  /\ child = "up"
  /\ child' = "ended"
  /\ UNCHANGED <<kind, running, posted, attempt, pipe, row, picture, disk, pc, tasks, missed>>

Reconnect ==
  /\ child = "ended" /\ pipe = <<>>
  /\ child' = "none" /\ attempt' = Later
  /\ UNCHANGED <<kind, running, posted, pipe, row, picture, disk, pc, tasks, mishaps, missed>>

\* normalize_event yields a message, and it is not the bot's own.
IsMessage(m) == kind[m] \in {"words", "picture"}

\* Something in the event tells where the bytes of a picture are.
HasPicture(m) == kind[m] = "picture"

\* enqueue_message, one transaction: a row and its attachments, unless the
\* message is known.
Enqueue(m) ==
  IF row[m] # "none" THEN UNCHANGED <<row, picture>>
  ELSE /\ row' = [row EXCEPT ![m] = "PENDING"]
       /\ picture' = [picture EXCEPT ![m].known = HasPicture(m)]

\* The next line: dropped, ignored or put into the inbox.
ReadLine ==
  /\ child \in {"up", "ended"} /\ pipe # <<>>
  /\ pipe' = Tail(pipe)
  /\ IF IsMessage(Head(pipe)) THEN Enqueue(Head(pipe))
     ELSE UNCHANGED <<row, picture>>
  /\ UNCHANGED <<kind, running, posted, child, attempt, disk, pc, tasks, mishaps, missed>>

\* The transaction raises: the child is terminated, and this line is lost with
\* all those that wait behind it.
ReadFails ==
  /\ Mishap
  /\ child \in {"up", "ended"} /\ pipe # <<>>
  /\ IsMessage(Head(pipe))
  /\ child' = "none" /\ pipe' = <<>> /\ attempt' = Later
  /\ UNCHANGED <<kind, running, posted, row, picture, disk, pc, tasks, missed>>
----------------------------------------------------------------------------
(* The process ends, by a crash or a shutdown, and is started again.       *)

Crash ==
  /\ Mishap
  /\ running /\ running' = FALSE
  /\ child' = "none" /\ pipe' = <<>> /\ attempt' = 0
  /\ pc' = [m \in Messages |-> "idle"]
  /\ planned' = [m \in Messages |-> 0] /\ looking' = [m \in Messages |-> 0]
  /\ UNCHANGED <<kind, posted, row, picture, disk, missed>>

Restart ==
  /\ ~running /\ running' = TRUE
  /\ row' = [m \in Messages |-> IF row[m] = "PROCESSING" THEN "PENDING" ELSE row[m]]
  /\ UNCHANGED <<kind, feed, picture, disk, pc, tasks, mishaps, missed>>
----------------------------------------------------------------------------
(* The task of a message: its picture is archived first.                   *)

At(m, s) == running /\ pc[m] = s
Goto(m, s) == pc' = [pc EXCEPT ![m] = s]

Take(m) ==
  /\ At(m, "idle") /\ row[m] = "PENDING"
  /\ row' = [row EXCEPT ![m] = "PROCESSING"]
  /\ Goto(m, "archive")
  /\ UNCHANGED <<kind, running, feed, picture, disk, tasks, mishaps, missed>>

\* archive_message: a row that has a path or was given up is left alone.
Wanted(m) == picture[m].known /\ ~picture[m].path /\ picture[m].status # "SKIPPED"

\* mark_attachment_failed; the message goes on without the picture.
GiveUp(m) ==
  /\ picture' = [picture EXCEPT ![m].status = "SKIPPED"]
  /\ missed' = missed \ {m}
  /\ Goto(m, "business")

\* The bytes are fetched, or the download is late, refused, empty, too big or
\* of a wrong type.
Fetch(m) ==
  /\ At(m, "archive")
  /\ \/ Wanted(m) /\ Goto(m, "write") /\ UNCHANGED <<picture, missed>>
     \/ Wanted(m) /\ GiveUp(m)
     \/ ~Wanted(m) /\ Goto(m, "business") /\ UNCHANGED <<picture, missed>>
  /\ UNCHANGED <<kind, running, feed, row, disk, tasks, mishaps>>

\* mutated: the picture is written to its place
Write_InPlace(m) ==
  /\ At(m, "write")
  /\ IF file[m] # "none" THEN UNCHANGED disk /\ Goto(m, "store")
     ELSE /\ file' = [file EXCEPT ![m] = "torn"]
          /\ temp' = [temp EXCEPT ![m] = "torn"]
          /\ Goto(m, "fill")
  /\ UNCHANGED <<kind, running, feed, row, picture, tasks, mishaps, missed>>

\* ImageArchiveStore.save: a file of this name is taken for the picture;
\* without one, the bytes go to the temporary file, are flushed and renamed.
Write(m) ==
  /\ At(m, "write")
  /\ IF file[m] # "none" THEN UNCHANGED disk /\ Goto(m, "store")
     ELSE /\ temp' = [temp EXCEPT ![m] = "torn"]
          /\ Goto(m, "fill")
          /\ UNCHANGED file
  /\ UNCHANGED <<kind, running, feed, row, picture, tasks, mishaps, missed>>

Fill(m) ==
  /\ At(m, "fill")
  /\ temp' = [temp EXCEPT ![m] = "whole"]
  /\ Goto(m, "name")
  /\ UNCHANGED <<kind, running, feed, row, picture, file, tasks, mishaps, missed>>

Rename(m) ==
  /\ At(m, "name")
  /\ file' = [file EXCEPT ![m] = temp[m]]
  /\ temp' = [temp EXCEPT ![m] = "none"]
  /\ Goto(m, "store")
  /\ UNCHANGED <<kind, running, feed, row, picture, tasks, mishaps, missed>>

\* update_attachment_archived.
Store(m) ==
  /\ At(m, "store")
  /\ picture' = [picture EXCEPT ![m].path = TRUE]
  /\ missed' = missed \ {m}
  /\ Goto(m, "business")
  /\ UNCHANGED <<kind, running, feed, row, disk, tasks, mishaps>>

\* The disk is full or the database refuses the path.
ArchiveFails(m) ==
  /\ Mishap
  /\ running /\ pc[m] \in {"write", "fill", "name", "store"}
  /\ GiveUp(m)
  /\ UNCHANGED <<kind, running, feed, row, disk, tasks>>

\* The rows of the message cannot be listed, or a failure cannot be marked:
\* _archive_attachments swallows it, and the message goes on.
ArchiveBreaks(m) ==
  /\ Mishap
  /\ running /\ pc[m] \in {"archive", "write", "fill", "name", "store"} /\ Wanted(m)
  /\ missed' = missed \cup {m}
  /\ Goto(m, "business")
  /\ UNCHANGED <<kind, running, feed, row, picture, disk, tasks>>

\* The row cannot be set to PROCESSING, so nothing is archived: it is retried,
\* or dead after all attempts.
PrepareFails(m) ==
  /\ Mishap
  /\ At(m, "idle") /\ row[m] = "PENDING"
  /\ row' \in {[row EXCEPT ![m] = s] : s \in {"PENDING", "DONE"}}
  /\ missed' = IF Wanted(m) THEN missed \cup {m} ELSE missed
  /\ UNCHANGED <<kind, running, feed, picture, disk, pc, tasks>>
----------------------------------------------------------------------------
(* The business code of the message.                                       *)

Schedule(m) == planned' = [planned EXCEPT ![m] = @ + 1]

\* mutated: the ticket found last counts
Backfill_Again(m, t) == picture' = [picture EXCEPT ![m].ticket = t]

\* backfill_attachment_ticket: only rows without a ticket.
Backfill(m, t) ==
  picture' = [picture EXCEPT ![m].ticket = IF @ = None THEN t ELSE @]

\* _handle_image_attachment: the ticket of the quoted message, of the member's
\* context, or the only active one; else the member is asked.  What was found
\* for one attempt may be gone, or another, for the next.
Business(m) ==
  /\ At(m, "business")
  /\ IF picture[m].known
     THEN /\ \/ \E t \in Tickets : Backfill(m, t)
             \/ UNCHANGED picture
          /\ Schedule(m)
     ELSE UNCHANGED <<picture, planned>>
  /\ Goto(m, "complete")
  /\ UNCHANGED <<kind, running, feed, row, disk, looking, mishaps, missed>>

\* graph_prepare_message could not read the attachments: the message counts as
\* words, and its picture is neither put to a ticket nor analysed.
TakenForWords(m) ==
  /\ Mishap
  /\ At(m, "business") /\ picture[m].known
  /\ Goto(m, "complete")
  /\ UNCHANGED <<kind, running, feed, row, picture, disk, tasks, missed>>

Complete(m) ==
  /\ At(m, "complete")
  /\ row' = [row EXCEPT ![m] = "DONE"]
  /\ Goto(m, "idle")
  /\ UNCHANGED <<kind, running, feed, picture, disk, tasks, mishaps, missed>>

\* The business code raises: the row is retried, or dead after all attempts.
BusinessFails(m) ==
  /\ Mishap
  /\ running /\ pc[m] \in {"business", "complete"}
  /\ row' \in {[row EXCEPT ![m] = s] : s \in {"PENDING", "DONE"}}
  /\ Goto(m, "idle")
  /\ UNCHANGED <<kind, running, feed, picture, disk, tasks, missed>>
----------------------------------------------------------------------------
(* The analysis, a task in the background.                                 *)

Visible(m) == picture[m].status # "ANALYZED" /\ picture[m].path

Look(m) ==
  /\ running /\ planned[m] > 0
  /\ planned' = [planned EXCEPT ![m] = @ - 1]
  /\ looking' = IF Visible(m) THEN [looking EXCEPT ![m] = @ + 1] ELSE looking
  /\ UNCHANGED <<kind, running, feed, row, picture, disk, pc, mishaps, missed>>

Seen == {"ANALYZED", "FAILED"}

\* The file is read, the model asked and its answer checked.  Two analyses of
\* one picture end in any order; the later one counts.
See(m) ==
  /\ running /\ looking[m] > 0
  /\ looking' = [looking EXCEPT ![m] = @ - 1]
  /\ picture' \in {[picture EXCEPT ![m].status = s] : s \in Seen}
  /\ UNCHANGED <<kind, running, feed, row, disk, pc, planned, mishaps, missed>>

Next ==
  \/ \E m \in Messages :
       \/ Post(m) \/ Repeat(m)
       \/ Take(m) \/ PrepareFails(m)
       \/ Fetch(m) \/ Write(m) \/ Fill(m) \/ Rename(m) \/ Store(m)
       \/ ArchiveFails(m) \/ ArchiveBreaks(m)
       \/ Business(m) \/ TakenForWords(m) \/ Complete(m) \/ BusinessFails(m)
       \/ Look(m) \/ See(m)
  \/ Spawn \/ ChildEnds \/ Reconnect \/ ReadLine \/ ReadFails
  \/ Crash \/ Restart

\* The loop of the listener goes on, and a child can be started at last.
Fairness == WF_vars(Spawn) /\ WF_vars(ReadLine) /\ WF_vars(Reconnect)

Spec == Init /\ [][Next]_vars /\ Fairness
----------------------------------------------------------------------------
(* Properties.                                                             *)

\* Whenever the process dies, a path in the table leads to a whole picture:
\* no later attempt takes a file for the picture that an earlier one left
\* half written.
PathLeadsToPicture == \A m \in Messages : picture[m].path => file[m] = "whole"

\* A message is not done with before its picture is stored or given up, and a
\* picture that was given up stays so: no analysis makes it look like one that
\* was read.  Exempt are pictures whose archiving, in the last attempt at the
\* message, broke down as a whole (their rows could not be listed, or a failure
\* not be marked) or was not reached (the row could not be set to PROCESSING).
PicturesAreAccounted ==
  \A m \in Messages : row[m] = "DONE" /\ picture[m].known /\ m \notin missed =>
    (picture[m].path <=> picture[m].status # "SKIPPED")

\* Both: at the end of its message a picture is whole on the disk and found by
\* its path, or it is marked as given up, with the exceptions named above.
PicturesAreKept == PathLeadsToPicture /\ PicturesAreAccounted

\* A picture never moves from one ticket to another, although its message may
\* be processed again, or delivered again, when the context is another one.
PictureKeepsTicket ==
  [][\A m \in Messages : picture[m].ticket # None
        => picture'[m].ticket = picture[m].ticket]_vars

\* A group without a child gets one again, however often it was lost.
ListenerReturns == running /\ child # "up" ~> child = "up" \/ ~running
=============================================================================
