------------------------------ MODULE OrderMonitor ------------------------------
(***************************************************************************)
(* Spare-part orders: their rows in order_monitor, the shared table (an    *)
(* xlsx file), the bot that registers orders (_handle_order_submitted of   *)
(* pipeline.py), appends rows (reconciling/order_store.py), tries again    *)
(* and scans the statuses (workers/scheduler.py), and the other program    *)
(* that copies the statuses of the shop into the table.                    *)
(*                                                                         *)
(* Both programs load the file, change their copy and save it; nothing     *)
(* locks the file in between.  The bot's code is synchronous, but it may   *)
(* die between two commits or while it writes the file, and it may fail to *)
(* load or to write it.  The file is written in place: one whose writing   *)
(* was cut short is torn, and nobody can read it until somebody writes it  *)
(* again.  Assumed: the file is there at the start, nobody deletes it, the *)
(* other program never leaves it torn, and the two do not write at once.   *)
(* Every order has a ticket and its ticket a group.                        *)
(*                                                                         *)
(* The names of the specification begin with Orders, so that               *)
(* SchedulerProofs may extend this module and SlaClock.                    *)
(***************************************************************************)
EXTENDS Naturals

CONSTANTS
  Orders,       \* order numbers
  Known,        \* those that the shop knows: a member may write anything
  MaxCrashes,   \* bound of the model: how often the bot dies
  MaxFailures      \* bound: how often a load or a save of the bot fails

ASSUME OrderConstants == Known \subseteq Orders /\ MaxCrashes \in Nat /\ MaxFailures \in Nat

Statuses == {"", "unpaid", "paid", "shipped", "received", "closed"}
Notices == {"shipped", "closed", "received"}
Tables == [Orders -> Statuses \cup {"none"}]
NoRows == [o \in Orders |-> "none"]

VARIABLES
  table,     \* the file: the status of each order, "none" without a row;
             \* of a torn file, what it said before
  torn,      \* the file is half written
  copy,      \* memory of the bot: the file as it has loaded it
  theirs,    \* memory of the other program: the same
  editing,   \* the other program has loaded the file and not saved it
  shop,      \* what the shop says of each order
  monitor,   \* order_monitor: last_status ("none" without a row), the
             \* *_notified flags and xlsx_synced
  said,      \* the notices in the outbox, by dedupe key
  job,       \* memory of the bot: what it is doing
  crashes,
  failures,  \* how often the bot failed to load or to write the file
  lost       \* history: the orders whose row a save of the other program dropped

theirSide == <<theirs, editing, shop, lost>>
orderVars == <<table, torn, copy, theirSide, monitor, said, job, crashes, failures>>

NoJob == [step |-> "idle", order |-> "none", status |-> "none", notice |-> "none"]
Registered(o) == monitor[o].last # "none"

OrdersTypeOK ==
  /\ table \in Tables /\ copy \in Tables /\ theirs \in Tables
  /\ editing \in BOOLEAN /\ torn \in BOOLEAN
  /\ shop \in [Orders -> Statuses]
  /\ monitor \in [Orders -> [last : Statuses \cup {"none"}, flags : SUBSET Notices,
                             synced : BOOLEAN]]
  /\ said \subseteq Orders \X Notices
  /\ job \in {NoJob} \cup
       [step : {"register", "load", "save", "write", "mark", "notify", "update"},
        order : Orders, status : Statuses \cup {"none"}, notice : Notices \cup {"none"}]
  /\ crashes \in 0..MaxCrashes /\ failures \in 0..MaxFailures
  /\ lost \subseteq Orders

OrdersInit ==
  /\ table = NoRows /\ copy = NoRows /\ theirs = NoRows
  /\ editing = FALSE /\ torn = FALSE
  /\ shop = [o \in Orders |-> ""]
  /\ monitor = [o \in Orders |-> [last |-> "none", flags |-> {}, synced |-> FALSE]]
  /\ said = {}
  /\ job = NoJob
  /\ crashes = 0 /\ failures = 0
  /\ lost = {}

Goto(step) == job' = [job EXCEPT !.step = step]

-----------------------------------------------------------------------------
(* The shop and the other program, as the documents describe it.           *)

NextStatuses(s) ==
  CASE s = "" -> {"unpaid", "paid"}
    [] s = "unpaid" -> {"paid", "closed"}
    [] s = "paid" -> {"shipped"}
    [] s = "shipped" -> {"received"}
    [] OTHER -> {}

ShopMoves(o) ==
  /\ o \in Known
  /\ \E s \in NextStatuses(shop[o]) : shop' = [shop EXCEPT ![o] = s]
  /\ UNCHANGED <<table, torn, copy, theirs, editing, lost, monitor, said, job, crashes, failures>>

TheyLoad ==
  /\ ~ editing /\ ~ torn
  /\ editing' = TRUE
  /\ theirs' = table
  /\ UNCHANGED <<table, torn, copy, shop, lost, monitor, said, job, crashes, failures>>

\* Statuses for the rows of their copy; rows that came meanwhile are dropped.
\* The file is whole again, if it was torn.
TheySave ==
  /\ editing /\ job.step # "write"
  /\ editing' = FALSE
  /\ torn' = FALSE
  /\ table' = [o \in Orders |-> IF theirs[o] = "none" THEN "none" ELSE shop[o]]
  /\ lost' = lost \cup {o \in Orders : theirs[o] = "none" /\ table[o] # "none"}
  /\ theirs' = NoRows
  /\ UNCHANGED <<copy, shop, monitor, said, job, crashes, failures>>

-----------------------------------------------------------------------------
(* The bot registers an order.                                             *)

\* A repair plan with an order number was executed and its message completed.
Submit(o) ==
  /\ job = NoJob
  /\ job' = [NoJob EXCEPT !.step = "register", !.order = o]
  /\ UNCHANGED <<table, torn, copy, theirSide, monitor, said, crashes, failures>>

\* upsert_order_monitor, unless the order is registered.
Register ==
  /\ job.step = "register"
  /\ IF Registered(job.order)
     THEN job' = NoJob /\ UNCHANGED monitor
     ELSE /\ monitor' = [monitor EXCEPT ![job.order].last = ""]
          /\ Goto("load")
  /\ UNCHANGED <<table, torn, copy, theirSide, said, crashes, failures>>

\* scan_shared_table_resync: a row that was not written is tried again.
Resync(o) ==
  /\ job = NoJob
  /\ Registered(o) /\ ~ monitor[o].synced
  /\ job' = [NoJob EXCEPT !.step = "load", !.order = o]
  /\ UNCHANGED <<table, torn, copy, theirSide, monitor, said, crashes, failures>>

\* Mutant of AfterFailure: the exception is caught too early.
AfterFailure_Mark == [job EXCEPT !.step = "mark"]

\* The exception is logged and the order stays for a later scan.
AfterFailure == NoJob

\* append_order_row: nothing to save if the order has a row; a torn file
\* cannot be loaded.
Load ==
  /\ job.step = "load"
  /\ IF torn THEN job' = AfterFailure /\ UNCHANGED copy
     ELSE IF table[job.order] = "none" THEN copy' = table /\ Goto("save")
     ELSE Goto("mark") /\ UNCHANGED copy
  /\ UNCHANGED <<table, torn, theirSide, monitor, said, crashes, failures>>

\* wb.save opens the file itself, which empties it, ...
BeginSave ==
  /\ job.step = "save"
  /\ torn' = TRUE
  /\ Goto("write")
  /\ UNCHANGED <<table, copy, theirSide, monitor, said, crashes, failures>>

\* ... and writes all rows of the copy.
EndSave ==
  /\ job.step = "write"
  /\ torn' = FALSE
  /\ table' = [copy EXCEPT ![job.order] = ""]
  /\ copy' = NoRows
  /\ Goto("mark")
  /\ UNCHANGED <<theirSide, monitor, said, crashes, failures>>

\* The file is in use when it is loaded or opened, or the disk is full when it
\* is written: then it stays torn.
FileFails ==
  /\ job.step \in {"load", "save", "write"}
  /\ failures < MaxFailures
  /\ failures' = failures + 1
  /\ job' = AfterFailure
  /\ copy' = NoRows
  /\ UNCHANGED <<table, torn, theirSide, monitor, said, crashes>>

\* mark_order_xlsx_synced.
MarkSynced ==
  /\ job.step = "mark"
  /\ monitor' = [monitor EXCEPT ![job.order].synced = TRUE]
  /\ job' = NoJob
  /\ UNCHANGED <<table, torn, copy, theirSide, said, crashes, failures>>

-----------------------------------------------------------------------------
(* scan_order_status.                                                      *)

\* The words the scan looks for; that of "shipped" is also in "to be shipped",
\* the status of a paid order.
Matches ==
  [shipped |-> {"paid", "shipped"}, closed |-> {"closed"}, received |-> {"received"}]

\* The first branch of the scan whose word is there and whose flag is not set.
Branch(s, flags) ==
  CASE s \in Matches.shipped /\ "shipped" \notin flags -> "shipped"
    [] s \in Matches.closed /\ "closed" \notin flags -> "closed"
    [] s \in Matches.received /\ "received" \notin flags -> "received"
    [] OTHER -> "none"

\* Mutant of After: the flag is written before the notice.
After_UpdateFirst == [scan |-> "update", update |-> "notify", notify |-> "idle"]

\* The notice is written before the flag.
After == [scan |-> "notify", notify |-> "update", update |-> "idle"]

\* Mutant of Proceed: the order that is finished is not let go.
Proceed_Keeps(step) == job' = [job EXCEPT !.step = After[step]]

Proceed(step) == job' = IF After[step] = "idle" THEN NoJob ELSE [job EXCEPT !.step = After[step]]

\* The scan comes to a row whose status differs from last_status; it ends at
\* once if the file cannot be read.
Scan(o) ==
  /\ job = NoJob /\ ~ torn
  /\ Registered(o)
  /\ table[o] \notin {"none", "", monitor[o].last}
  /\ LET notice == Branch(table[o], monitor[o].flags)
     IN job' = [step |-> IF notice = "none" THEN "update" ELSE After["scan"],
                order |-> o, status |-> table[o], notice |-> notice]
  /\ UNCHANGED <<table, torn, copy, theirSide, monitor, said, crashes, failures>>

\* send_group_now with the key of the order and the notice; a key that is in
\* the outbox is not written again.
Notify ==
  /\ job.step = "notify"
  /\ said' = said \cup {<<job.order, job.notice>>}
  /\ Proceed("notify")
  /\ UNCHANGED <<table, torn, copy, theirSide, monitor, crashes, failures>>

\* update_order_status.
Update ==
  /\ job.step = "update"
  /\ monitor' = [monitor EXCEPT ![job.order] =
       [last |-> job.status, flags |-> @.flags \cup ({job.notice} \cap Notices),
        synced |-> @.synced]]
  /\ IF job.notice = "none" THEN job' = NoJob ELSE Proceed("update")
  /\ UNCHANGED <<table, torn, copy, theirSide, said, crashes, failures>>

-----------------------------------------------------------------------------

Crash ==
  /\ crashes < MaxCrashes
  /\ crashes' = crashes + 1
  /\ job' = NoJob
  /\ copy' = NoRows
  /\ UNCHANGED <<table, torn, theirSide, monitor, said, failures>>

JobStep == Register \/ Load \/ BeginSave \/ EndSave \/ MarkSynced \/ Notify \/ Update

OrdersNext ==
  \/ \E o \in Orders : ShopMoves(o) \/ Submit(o) \/ Resync(o) \/ Scan(o)
  \/ TheyLoad
  \/ TheySave
  \/ JobStep
  \/ FileFails
  \/ Crash

\* The scheduler scans every minute, and the other program runs every day.
Fairness ==
  /\ WF_orderVars(JobStep)
  /\ WF_orderVars(TheyLoad)
  /\ WF_orderVars(TheySave)
  /\ \A o \in Orders : SF_orderVars(Resync(o)) /\ SF_orderVars(Scan(o))

OrdersSpec == OrdersInit /\ [][OrdersNext]_orderVars /\ Fairness

-----------------------------------------------------------------------------
(* Properties.                                                             *)

\* An order that reads xlsx_synced is in the table, or was there until a save
\* of the other program dropped it: failures and crashes lose no row, but for
\* a file that is torn, of which nothing can be read.
SyncedMeansWritten ==
  ~ torn => \A o \in Orders : monitor[o].synced => table[o] # "none" \/ o \in lost

\* A notice that an order was shipped is true (scheduler.py: an order that is
\* to be shipped is not notified).
ShippedMeansShipped ==
  \A o \in Orders : <<o, "shipped">> \in said => shop[o] \in {"shipped", "received"}

\* A failure or a crash has left the file torn.
Broken == torn /\ job.step # "write"

\* The end of a registered order is told to the group at last, whatever fails
\* or crashes, unless the other program drops its row or the file is left torn
\* for ever: the bot never repairs it.
EndingsAreTold ==
  []<>(~ Broken) =>
    \A o \in Orders, n \in {"received", "closed"} :
      Registered(o) /\ shop[o] = n ~> <<o, n>> \in said \/ o \in lost
=============================================================================
