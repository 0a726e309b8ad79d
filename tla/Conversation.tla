--------------------------- MODULE Conversation ---------------------------
(***************************************************************************)
(* What one message of a member means: the question it may answer, the     *)
(* ticket it is about, the check of the decision and its execution         *)
(* (pipeline.py _handle_decided, routing/, semantics/validator.py).        *)
(*                                                                         *)
(* One group and one member with a fixed role.  Tickets are numbered in    *)
(* the order of their creation, which is the order of every list and the   *)
(* last part of the ticket number.  A message commits in one step: its     *)
(* turn at the gate has come and nothing below awaits.  Other members and  *)
(* the scheduler act between two messages.  So does the administration     *)
(* server, a process of its own: what the executor does is a transaction,  *)
(* and the one write that follows its reads without one, the selection of  *)
(* a ticket, is two steps here.                                            *)
(*                                                                         *)
(* The recognition may name any ticket (its list may be old by now) but it *)
(* does not misread a number that is written in the message.  Messages it  *)
(* fails on are retried and have no effect here.  Intents that take the    *)
(* same way are one: "note" adds a detail, a diagnosis, a plan or a reason *)
(* for a delay, "cancel" also stops.                                       *)
(***************************************************************************)
EXTENDS Naturals, FiniteSets

CONSTANTS T,         \* bound: tickets of the group
          Business,  \* bound: intents about a ticket
          AdminTo    \* bound: statuses that the administration server sets

Tickets == 1..T

MustExist == {"note", "special", "negotiate", "complete", "confirm",
              "reject", "cancel", "reopen"}

Statuses == {"NONE", "ACTIVE", "NEGOTIATION", "PENDING_CONFIRM", "CLOSED"}
Roles    == {"MANAGER", "ENGINEER"}

ASSUME ConversationAssumption ==
  T \in Nat /\ Business \subseteq MustExist /\ AdminTo \subseteq Statuses \ {"NONE"}

Intents  == MustExist \cup {"create", "select", "yes", "no", "correct", "ignore"}
Fields   == {"sla", "place"}   \* required of a report; place stands for all but sla
NoQuestion == [intent |-> "none", shown |-> {}, stale |-> {}, fields |-> {}]
Nothing    == [named |-> {}, done |-> {}, lacks |-> {}]

VARIABLES
  role,      \* the member's role
  status,    \* status of every ticket; OVERDUE is ACTIVE here
  question,  \* the WAITING pending action: its intent, the tickets it expects a
             \* version of, those whose version moved since, and its fields
  selected,  \* the ticket of the member's context, or 0
  picked,    \* the ticket found for "switch to", before the context is written
  raced,     \* history: the selected ticket was closed between these two steps
  last       \* history: the tickets that the last message picked out and those
             \* it was executed on, if both, and what the ticket it built lacks

vars == <<role, status, question, selected, picked, raced, last>>

TypeOK ==
  /\ role \in Roles
  /\ status \in [Tickets -> Statuses]
  /\ question = NoQuestion \/
     question \in [intent : MustExist \cup {"create"}, shown : SUBSET Tickets,
                   stale : SUBSET question.shown, fields : SUBSET Fields]
  /\ selected \in Tickets \cup {0} /\ picked \in Tickets \cup {0}
  /\ raced \in BOOLEAN
  /\ last \in [named : SUBSET Tickets, done : SUBSET Tickets, lacks : SUBSET Fields]

Init ==
  /\ role \in Roles
  /\ status = [t \in Tickets |-> "NONE"]
  /\ question = NoQuestion
  /\ selected = 0 /\ picked = 0 /\ raced = FALSE
  /\ last = Nothing

In(S) == {t \in Tickets : status[t] \in S}
Existing == {t \in Tickets : status[t] # "NONE"}
----------------------------------------------------------------------------
(* The protocol file: who may say what about a ticket in which status.     *)

AllowedStates(i) ==
  CASE i \in {"note", "negotiate"} -> {"ACTIVE"}
    [] i = "special"               -> {"ACTIVE", "PENDING_CONFIRM"}
    [] i = "complete"              -> {"ACTIVE", "NEGOTIATION"}
    [] i \in {"confirm", "reject"} -> {"PENDING_CONFIRM"}
    [] i = "cancel"                -> {"ACTIVE", "NEGOTIATION", "PENDING_CONFIRM"}
    [] i = "reopen"                -> {"CLOSED"}
    [] i = "create"                -> Statuses \ {"NONE"}

ManagersOnly == {"create", "cancel", "confirm", "reject"}
Permitted(i) == role = "MANAGER" \/ i \notin ManagersOnly
AskedAlways  == {"cancel", "reopen", "negotiate"}   \* policy ALWAYS for the model

\* Candidates of the router: active tickets, and tickets in flight that the
\* protocol allows for three of the intents.
RoutingStates(i) ==
  CASE i \in {"complete", "cancel", "confirm", "reject"} -> AllowedStates(i)
    [] i = "reopen"                                      -> Statuses \ {"NONE"}
    [] OTHER                                             -> {"ACTIVE"}

\* What the executor makes of the status.
After(i, s, r) ==
  CASE i = "complete"            -> IF r = "MANAGER" THEN "CLOSED" ELSE "PENDING_CONFIRM"
    [] i \in {"confirm", "cancel"} -> "CLOSED"
    [] i \in {"reject", "reopen"}  -> "ACTIVE"
    [] i = "negotiate"             -> "NEGOTIATION"
    [] OTHER                       -> s
----------------------------------------------------------------------------
(* Decisions.  target is the number in the decision, said the short        *)
(* numbers in the text, quote the ticket of the quoted message, best the   *)
(* candidate whose score passes the thresholds of the router.              *)

Decision(i, t, n, q, b, f) ==
  [intent |-> i, target |-> t, said |-> n, quote |-> q, best |-> b, fields |-> f]

Maybe == Tickets \cup {0}
\* The quoted message is filed under a ticket (link_message) or under none.
Quotes == Maybe
Numbers == {{}} \cup {{n} : n \in Tickets}
\* A number that is written is read as written or not at all; without one the
\* decision may still point to "the second", that is, to any ticket.
Readings(n) == IF n = {} THEN Maybe ELSE n \cup {0}

Pairs == {n \in SUBSET Tickets : Cardinality(n) = 2}

Hints(t) == {<<q, 0>> : q \in Quotes} \cup {<<0, b>> : b \in IF t = 0 THEN Tickets ELSE {}}

AboutTickets ==
  UNION {UNION {{Decision(i, t, n, h[1], h[2], {}) : i \in Business, h \in Hints(t)} :
                  t \in Readings(n)} : n \in Numbers}

\* normalize_semantic_decision: a manager who says "confirmed, it is repaired"
\* confirms, also where the recognition heard a completion.
Wordings(d) ==
  {d} \cup IF d.intent = "complete" /\ role = "MANAGER"
           THEN {[d EXCEPT !.intent = "confirm"]} ELSE {}

\* The scores matter for a report without a number.
Reports == {Decision("create", h[1], {}, 0, h[2], f) :
              h \in (Maybe \X {0}) \cup ({0} \X Tickets), f \in SUBSET Fields}

\* "2" alone is read here, as the second active ticket of the list at that time.
FastPicks == {d \in {Decision("select", t, {n}, 0, 0, {}) : t \in Tickets, n \in Tickets} :
                \A n \in d.said : n <= d.target}

Selections == FastPicks \cup
  UNION {{Decision("select", t, n, 0, 0, {}) : t \in Readings(n)} : n \in Numbers \cup Pairs}

\* A message that is ignored may still carry what a draft lacks.
Answers == {Decision(i, 0, {}, 0, 0, f) : i \in {"yes", "no", "correct", "ignore"}, f \in SUBSET Fields}
----------------------------------------------------------------------------
(* Effects.                                                                *)

\* mutated: a ticket that is closed stays in the contexts of its members
Forget_Not(ts) == UNCHANGED <<selected, raced>>

\* Whoever closes a ticket clears the contexts of it.
Forget(ts) ==
  IF selected \in {t \in ts : status'[t] = "CLOSED"}
  THEN selected' = 0 /\ raced' = FALSE
  ELSE UNCHANGED <<selected, raced>>

\* The intent is executed on the tickets done, of those that were named.
Execute(i, named, done) ==
  /\ status' = [t \in Tickets |-> IF t \in done THEN After(i, status[t], role) ELSE status[t]]
  /\ Forget(done)
  /\ last' = IF named = {} \/ done = {} THEN Nothing
             ELSE [named |-> named, done |-> done, lacks |-> {}]

\* Every ticket has its transaction, which checks the version once more and
\* may be refused by itself: the tables of diagnoses and plans, for instance,
\* take one row of a message.
Outcomes(ts) == SUBSET (ts \ question.stale)

\* The executor builds tickets, the next k, unless the time to repair is
\* missing.  It is refused too when the bound of tickets is reached.
Builds(f) == "sla" \in f /\ Existing # Tickets

Build(f, k) ==
  /\ status' = [t \in Tickets |->
        IF t \notin Existing /\ t <= Cardinality(Existing) + k THEN "ACTIVE" ELSE status[t]]
  /\ last' = [Nothing EXCEPT !.lacks = Fields \ f]
  /\ UNCHANGED <<selected, raced>>

\* The message is answered in words only.
Answer == /\ last' = Nothing
          /\ UNCHANGED <<status, selected, raced>>

\* mutated: every write is noted in the question
Stale_Any(ts) == question' = [question EXCEPT !.stale = @ \cup ts]

\* A write moves the version, which an open question will notice.
Stale(ts) == question' = [question EXCEPT !.stale = @ \cup (ts \cap question.shown)]

\* The event loop of the bot is not in the middle of a selection.
NoSelection == picked = 0 /\ UNCHANGED <<role, picked>>

Ask(i, ts, f) == question' = [intent |-> i, shown |-> ts, stale |-> {}, fields |-> f]
----------------------------------------------------------------------------
(* Replies to the question.                                                *)

\* A message that adds to a report.  The draft is renewed when something is
\* still missing; the ticket is built before the draft is resolved.
Supplements(d) ==
  /\ question.intent = "create" /\ Permitted("create")
  /\ d.fields # {} \/ (d.intent = "create" /\ question.fields # {})

Supplement(d) ==
  LET merged == question.fields \cup d.fields IN
  /\ Supplements(d)
  /\ \/ /\ merged # Fields
        /\ Ask("create", {}, merged)
        /\ Answer
     \/ /\ merged = Fields /\ Existing # Tickets
        /\ question' = NoQuestion
        /\ Build(merged, 1)
     \/ /\ merged = Fields               \* the executor broke down
        /\ Ask("create", {}, merged)
        /\ Answer
  /\ NoSelection

\* "yes".  A question about several tickets, or about a ticket that has
\* changed, is only answered in words and goes on waiting; so does one whose
\* execution breaks down (it is asked again with the versions it had).
Confirm(d) ==
  /\ question # NoQuestion /\ d.intent = "yes" /\ ~Supplements(d)
  /\ \/ /\ question.intent = "create"
        /\ question' = NoQuestion
        /\ IF Builds(question.fields) THEN Build(question.fields, 1) ELSE Answer
     \/ /\ question.intent # "create" \/ Builds(question.fields)
        /\ UNCHANGED question
        /\ Answer
     \/ /\ question.intent # "create" /\ Cardinality(question.shown) = 1
        /\ question.stale = {}
        /\ question' = NoQuestion
        /\ Execute(question.intent, question.shown, question.shown)
  /\ NoSelection

Decline(d) ==
  /\ question # NoQuestion /\ d.intent = "no" /\ ~Supplements(d)
  /\ question' = NoQuestion
  /\ Answer
  /\ NoSelection

\* A corrected action is executed at once.  The version is checked by the
\* executor only, after the question is resolved.
Correct(d) ==
  /\ question # NoQuestion /\ d.intent = "correct" /\ ~Supplements(d)
  /\ \/ /\ Cardinality(question.shown) = 1
        /\ question' = NoQuestion
        /\ \/ Answer
           \/ question.intent # "create" /\ question.stale = {}
              /\ Execute(question.intent, question.shown, question.shown)
           \/ LET merged == question.fields \cup d.fields IN
              /\ question.intent = "create" /\ question.stale = {}
              /\ Builds(merged) /\ Build(merged, 1)
     \/ /\ Cardinality(question.shown) # 1
        /\ UNCHANGED question
        /\ Answer
  /\ NoSelection

Assigns(d) ==
  d.intent = "select" /\ Cardinality(question.shown) > 1 /\ ~Supplements(d)

\* A number is the end of the number of a ticket that was shown or else a
\* place in the list that was shown.
Nth(S, n) == {t \in S : Cardinality({u \in S : u <= t}) = n}
Chosen(d) ==
  IF d.target \in question.shown THEN {d.target}
  ELSE UNION {IF n \in question.shown THEN {n} ELSE Nth(question.shown, n) : n \in d.said}
Unknown(d) == \E n \in d.said : n \notin question.shown /\ Nth(question.shown, n) = {}

\* mutated: only the first of the chosen tickets is checked
Ready_First(ts) ==
  \E t \in ts : t \notin question.stale /\ status[t] \in AllowedStates(question.intent)

Ready(ts) ==
  \A t \in ts : t \notin question.stale /\ status[t] \in AllowedStates(question.intent)

\* The answer to "which ticket?".  All the numbers must be known and all the
\* tickets unchanged, or nothing is done and the question goes on waiting.  A
\* report that was asked about is built once for every ticket chosen.
Assign(d) ==
  /\ Assigns(d)
  /\ LET ts == Chosen(d) IN
     IF ts = {} \/ (d.target \notin ts /\ Unknown(d)) \/ ~Ready(ts)
     THEN UNCHANGED question /\ Answer
     ELSE /\ question' = NoQuestion
          /\ \/ question.intent # "create"
                /\ \E done \in Outcomes(ts) :
                     Execute(question.intent, ts, done)
             \/ question.intent = "create"
                /\ \/ Answer
                   \/ /\ Builds(question.fields)
                      /\ \E k \in 1..Cardinality(ts) : Build(question.fields, k)
  /\ NoSelection

IsReply(d) ==
  /\ question # NoQuestion
  /\ Supplements(d) \/ d.intent \in {"yes", "no", "correct"} \/ Assigns(d)
----------------------------------------------------------------------------
(* Any other message.                                                      *)

\* "switch to 007": the candidate of the number that was understood, or the only
\* one when no number was written.
Referred(d, C) ==
  IF d.target # 0 THEN {d.target} \cap C
  ELSE IF Cardinality(C) = 1 /\ d.said = {} THEN C ELSE {}

Select(d) ==
  /\ picked = 0 /\ d.intent = "select" /\ ~IsReply(d)
  /\ LET ts == Referred(d, In({"ACTIVE"}))
     IN IF ts = {} THEN UNCHANGED picked ELSE picked' \in ts
  /\ last' = Nothing
  /\ UNCHANGED <<role, status, question, selected, raced>>

\* The context is written, whatever has become of the ticket.
SelectWrites ==
  /\ picked # 0
  /\ selected' = picked /\ raced' = (status[picked] = "CLOSED")
  /\ picked' = 0
  /\ UNCHANGED <<role, status, question, last>>

Routed(how, t) == [how |-> how, ticket |-> t]
Clarify == Routed("clarify", 0)

\* The router, for an intent that needs a ticket: the number in the decision,
\* the quoted message, the number in the text, the context, the scores, the
\* only candidate.
Route(i, d, C) ==
  IF d.target \in C THEN Routed("explicit", d.target)
  ELSE IF d.quote \in C THEN Routed("quote", d.quote)
  ELSE IF d.said \cap C # {} THEN Routed("suffix", CHOOSE t \in d.said : t \in C)
  ELSE IF selected \in C THEN Routed("context", selected)
  ELSE IF d.best \in C THEN Routed("scores", d.best)
  ELSE IF Cardinality(C) = 1 THEN Routed("single", CHOOSE t \in C : TRUE)
  ELSE Clarify

\* A manager's "009 is repaired" that the router cannot place, or places only
\* for want of another candidate, confirms a report of that number.
ConfirmsReport(d, r) ==
  /\ d.intent = "complete" /\ role = "MANAGER" /\ r.how \in {"clarify", "single"}
  /\ Cardinality(d.said) = 1 /\ d.said \subseteq In({"PENDING_CONFIRM"})

\* A pause is not registered by context or for want of another candidate when
\* the text begins with a number that is no candidate.
WrongPause(d, r, C) ==
  d.intent = "special" /\ r.how \in {"context", "single"} /\ d.said \ C # {}

\* A number that exists and may be acted on, or none.
NumberHolds(d) ==
  d.target # 0 /\ d.intent # "reopen" => status[d.target] \in AllowedStates(d.intent)

\* mutated: the number of the decision is not looked up among the candidates
Valid_AnyNumber(i, target, t) ==
  Permitted(i) /\ status[t] \in AllowedStates(i)

\* validate_decision, for the candidate that the router has chosen.
Valid(i, target, t) ==
  Permitted(i) /\ target \in {0, t} /\ status[t] \in AllowedStates(i)

\* Asked, or executed; a break-down leaves no trace.
Act(i, named, target, t) ==
  IF ~Valid(i, target, t) THEN UNCHANGED question /\ Answer
  ELSE IF i \in AskedAlways THEN Ask(i, {t}, {}) /\ Answer
  ELSE Stale({t}) /\ Execute(i, named, {t})

\* The numbers a message insists on: that of the decision; for a pause that
\* has no better ground than the context, the one its text begins with.
Insists(d, r) ==
  IF d.target # 0 THEN {d.target}
  ELSE IF d.intent = "special" /\ r.how \in {"context", "single"} THEN d.said ELSE {}

Direct(d) ==
  /\ d.intent \in MustExist /\ ~IsReply(d)
  /\ LET C == In(RoutingStates(d.intent))
         r == Route(d.intent, d, C) IN
     IF ~NumberHolds(d) THEN UNCHANGED question /\ Answer
     ELSE IF ConfirmsReport(d, r)
     THEN \E t \in d.said : Act("confirm", {t}, t, t)
     ELSE IF WrongPause(d, r, C) \/ (r.how = "clarify" /\ C = {})
     THEN UNCHANGED question /\ Answer
     ELSE IF r.how = "clarify" THEN Ask(d.intent, C, {}) /\ Answer
     ELSE Act(d.intent, Insists(d, r), d.target, r.ticket)
  /\ NoSelection

\* A report.  One that resembles an active ticket is asked about, one that
\* names an active ticket is refused; the number of any other ticket is
\* dropped.  What is missing is asked for.
Report(d) ==
  /\ d.intent = "create" /\ ~IsReply(d)
  /\ LET C == In({"ACTIVE"}) IN
     \/ /\ d.target \in C
        /\ UNCHANGED question /\ Answer
     \/ /\ d.target \notin C /\ d.best \in C
        /\ Ask("create", C, d.fields) /\ Answer
     \/ /\ d.target \notin C /\ d.best \notin C
        /\ IF ~Permitted("create") THEN UNCHANGED question /\ Answer
           ELSE IF d.fields # Fields THEN Ask("create", {}, d.fields) /\ Answer
           ELSE Builds(Fields) /\ Build(Fields, 1) /\ UNCHANGED question
  /\ NoSelection
----------------------------------------------------------------------------
(* Everybody else.                                                         *)

\* Another member's command, through the same executor.
Others(t) ==
  /\ \E i \in Business, r \in Roles :
       /\ status[t] \in AllowedStates(i)
       /\ status' = [status EXCEPT ![t] = After(i, status[t], r)]
  /\ Stale({t})
  /\ Forget({t})
  /\ last' = Nothing
  /\ NoSelection

OthersReport ==
  /\ Builds(Fields) /\ Build(Fields, 1)
  /\ UNCHANGED question
  /\ NoSelection

\* The administration server sets a status, between two messages or between
\* the steps of a selection.  Where it closes the ticket it clears the contexts
\* of it too.  "ACTIVE" and "CLOSED" are several statuses each, so it may write
\* the one that the model knows as the same.
AdminSets(t) ==
  /\ status[t] # "NONE"
  /\ \E s \in AdminTo :
       /\ s # status[t] \/ s \in {"ACTIVE", "CLOSED"}
       /\ status' = [status EXCEPT ![t] = s]
  /\ Stale({t})
  /\ Forget({t})
  /\ last' = Nothing
  /\ UNCHANGED <<role, picked>>

\* expire_due: the scheduler ends a question, the clock a context.
QuestionExpires ==
  /\ question # NoQuestion
  /\ question' = NoQuestion
  /\ last' = Nothing
  /\ UNCHANGED <<status, selected, raced>>
  /\ NoSelection

ContextExpires ==
  /\ selected # 0
  /\ selected' = 0 /\ raced' = FALSE
  /\ last' = Nothing
  /\ UNCHANGED <<status, question>>
  /\ NoSelection

Next ==
  \/ \E d \in Answers : Supplement(d) \/ Confirm(d) \/ Decline(d) \/ Correct(d)
  \/ \E d \in Selections : Assign(d) \/ Select(d)
  \/ \E d \in Reports : Supplement(d) \/ Report(d)
  \/ \E d \in AboutTickets : \E e \in Wordings(d) : Direct(e)
  \/ \E t \in Tickets : Others(t) \/ AdminSets(t)
  \/ SelectWrites \/ OthersReport \/ QuestionExpires \/ ContextExpires

Spec == Init /\ [][Next]_vars
----------------------------------------------------------------------------
(* Properties.                                                             *)

\* A message that picks out tickets by number is executed on these or on
\* none, whichever of quote, context, scores, only candidate or open question
\* would lead elsewhere, and although the list that the recognition saw is old.
NumberIsObeyed == last.named # {} => last.done \subseteq last.named

\* An answer that chooses tickets from a list acts on all or none of them as
\* far as the list is concerned: one ticket that somebody changed since it
\* was shown keeps the answer from acting on the others too.
StaleChoiceActsOnNone ==
  [][question # NoQuestion /\ question' = NoQuestion
       => last'.done = {} \/ last'.named \cap question.stale = {}]_vars

\* The context never survives the ticket: after the bot or the administration
\* server closed it, a reopened ticket is not the default of the member's
\* messages.  Exempt is a context whose ticket the administration server closed
\* while the bot was about to write it.
SelectionEndsWithTicket ==
  selected # 0 /\ ~raced => status[selected] # "CLOSED"

\* The documents: a report without one of its required fields builds no
\* ticket, the member is asked to add it.  The code falsifies it.
TicketsAreComplete == last.lacks = {}
=============================================================================
