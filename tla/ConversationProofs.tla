------------------------- MODULE ConversationProofs -------------------------
(***************************************************************************)
(* Proofs about Conversation, for any number of tickets, any intents and   *)
(* whatever the administration server may set.  A message has one of three *)
(* effects (it is executed, it builds tickets, it is answered), and each   *)
(* keeps the invariant; what remains is what an action does to the         *)
(* question, and which tickets it may execute on.                          *)
(***************************************************************************)
EXTENDS Conversation, FiniteSetTheorems, TLAPS

\* The state without the role, the question and a selection under way.
Tables ==
  /\ status \in [Tickets -> Statuses]
  /\ selected \in Tickets \cup {0}
  /\ raced \in BOOLEAN
  /\ last \in [named : SUBSET Tickets, done : SUBSET Tickets, lacks : SUBSET Fields]
  /\ NumberIsObeyed
  /\ SelectionEndsWithTicket

Question == [intent : MustExist \cup {"create"}, shown : SUBSET Tickets,
             stale : SUBSET Tickets, fields : SUBSET Fields]
QuestionOK == question = NoQuestion \/ (question \in Question /\ question.stale \subseteq question.shown)

Inv == role \in Roles /\ picked \in Tickets \cup {0} /\ Tables /\ QuestionOK

LEMMA InvTypes == Inv => TypeOK
BY DEF Inv, Tables, QuestionOK, Question, TypeOK

LEMMA InitInv == Init => Inv
<1> SUFFICES ASSUME Init PROVE Inv
  OBVIOUS
<1>1. status \in [Tickets -> Statuses] /\ selected = 0 /\ raced = FALSE /\ last = Nothing
  BY DEF Init, Statuses
<1>2. Nothing \in [named : SUBSET Tickets, done : SUBSET Tickets, lacks : SUBSET Fields]
      /\ Nothing.named = {}
  BY DEF Nothing
<1>3. NumberIsObeyed /\ SelectionEndsWithTicket
  BY <1>1, <1>2 DEF NumberIsObeyed, SelectionEndsWithTicket
<1> QED
  BY <1>1, <1>2, <1>3 DEF Init, Inv, Tables, QuestionOK
----------------------------------------------------------------------------
(* The messages.                                                           *)

LEMMA AboutType ==
  ASSUME NEW d \in AboutTickets
  PROVE  /\ d \in [intent : MustExist, target : Maybe, said : SUBSET Tickets, quote : Maybe,
                  best : Maybe, fields : {{}}]
         /\ d.intent \in MustExist /\ d.target \in Maybe /\ d.said \in SUBSET Tickets
         /\ d.quote \in Maybe /\ d.best \in Maybe
<1>0. PICK n \in Numbers : d \in UNION {{Decision(i, t, n, h[1], h[2], {}) :
                                        i \in Business, h \in Hints(t)} : t \in Readings(n)}
  BY DEF AboutTickets
<1>9. PICK t \in Readings(n) : d \in {Decision(i, t, n, h[1], h[2], {}) : i \in Business, h \in Hints(t)}
  BY <1>0
<1>1. PICK h \in Hints(t), i \in Business : d = Decision(i, t, n, h[1], h[2], {})
  BY <1>9
<1>2. n \in SUBSET Tickets /\ t \in Maybe
  BY DEF Numbers, Readings, Maybe
<1>3. h[1] \in Maybe /\ h[2] \in Maybe
  BY DEF Hints, Quotes, Maybe
<1>4. i \in MustExist
  BY ConversationAssumption
<1> QED
  BY <1>1, <1>2, <1>3, <1>4 DEF Decision

LEMMA WordingType ==
  ASSUME NEW d \in AboutTickets, NEW e \in Wordings(d)
  PROVE  /\ e.intent \in MustExist /\ e.target \in Maybe /\ e.said \in SUBSET Tickets
         /\ e.quote \in Maybe /\ e.best \in Maybe
<1>1. CASE e = d
  BY <1>1, AboutType
<1>2. CASE e # d
  <2>1. e = [d EXCEPT !.intent = "confirm"]
    BY <1>2 DEF Wordings
  <2>3. /\ e.intent = "confirm" /\ e.target = d.target /\ e.said = d.said
        /\ e.quote = d.quote /\ e.best = d.best
    BY <2>1, AboutType
  <2> QED
    BY <2>3, AboutType DEF MustExist
<1> QED
  BY <1>1, <1>2

LEMMA ReportType ==
  ASSUME NEW d \in Reports \cup Answers
  PROVE  d.fields \in SUBSET Fields
BY DEF Reports, Answers, Decision

LEMMA SelectionType ==
  ASSUME NEW d \in Selections
  PROVE  d.target \in Maybe /\ d.said \in SUBSET Tickets /\ d.intent = "select"
BY DEF Selections, FastPicks, Pairs, Numbers, Readings, Maybe, Decision
----------------------------------------------------------------------------
(* The three effects.                                                      *)

LEMMA AnswerKeeps == Tables /\ Answer => Tables'
<1> SUFFICES ASSUME Tables, Answer PROVE Tables'
  OBVIOUS
<1>1. last' \in [named : SUBSET Tickets, done : SUBSET Tickets, lacks : SUBSET Fields]
      /\ last'.named = {}
  BY DEF Answer, Nothing
<1> QED
  BY <1>1 DEF Answer, Tables, NumberIsObeyed, SelectionEndsWithTicket

LEMMA BuildKeeps ==
  ASSUME Tables, NEW f \in SUBSET Fields, NEW k, Build(f, k)
  PROVE  Tables'
<1>1. last' \in [named : SUBSET Tickets, done : SUBSET Tickets, lacks : SUBSET Fields]
      /\ last'.named = {}
  BY DEF Build, Nothing
<1>2. status' \in [Tickets -> Statuses]
  BY DEF Build, Tables, Statuses
<1>3. \A t \in Tickets : status'[t] \in {"ACTIVE", status[t]}
  BY DEF Build
<1> QED
  BY <1>1, <1>2, <1>3 DEF Build, Tables, NumberIsObeyed, SelectionEndsWithTicket

LEMMA AfterType ==
  ASSUME NEW i, NEW s \in Statuses, NEW r
  PROVE  After(i, s, r) \in Statuses
BY DEF After, Statuses

\* Whatever is executed on which tickets: the context of a ticket that it
\* closes is cleared.
LEMMA ForgetKeeps ==
  ASSUME Tables, NEW ts \in SUBSET Tickets, Forget(ts),
         \A t \in Tickets : t \in ts \/ status'[t] = status[t]
  PROVE  /\ selected' \in Tickets \cup {0} /\ raced' \in BOOLEAN
         /\ SelectionEndsWithTicket'
<1>1. CASE selected \in {t \in ts : status'[t] = "CLOSED"}
  BY <1>1 DEF Forget, SelectionEndsWithTicket
<1>2. CASE selected \notin {t \in ts : status'[t] = "CLOSED"}
  <2>1. UNCHANGED <<selected, raced>>
    BY <1>2 DEF Forget
  <2>2. selected # 0 /\ ~raced => status'[selected] # "CLOSED"
    BY <1>2 DEF Tables, SelectionEndsWithTicket
  <2> QED
    BY <2>1, <2>2 DEF Tables, SelectionEndsWithTicket
<1> QED
  BY <1>1, <1>2

LEMMA ExecuteKeeps ==
  ASSUME Tables, NEW i, NEW named \in SUBSET Tickets, NEW done \in SUBSET Tickets,
         named # {} => done \subseteq named, Execute(i, named, done)
  PROVE  Tables'
<1>1. last' \in {Nothing, [named |-> named, done |-> done, lacks |-> {}]}
  BY DEF Execute, Nothing
<1>2. /\ last' \in [named : SUBSET Tickets, done : SUBSET Tickets, lacks : SUBSET Fields]
      /\ NumberIsObeyed'
  BY <1>1 DEF NumberIsObeyed, Nothing
<1>3. status' \in [Tickets -> Statuses]
  BY AfterType DEF Execute, Tables
<1>4. \A t \in Tickets : t \in done \/ status'[t] = status[t]
  BY DEF Execute
<1>5. selected' \in Tickets \cup {0} /\ raced' \in BOOLEAN /\ SelectionEndsWithTicket'
  BY <1>4, ForgetKeeps DEF Execute
<1> QED
  BY <1>2, <1>3, <1>5 DEF Tables
----------------------------------------------------------------------------
(* What may happen to the question.                                        *)

LEMMA AskKeeps ==
  ASSUME NEW i \in MustExist \cup {"create"}, NEW ts \in SUBSET Tickets,
         NEW f \in SUBSET Fields, Ask(i, ts, f)
  PROVE  QuestionOK' /\ question' # NoQuestion
BY DEF Ask, QuestionOK, Question, NoQuestion, MustExist

LEMMA StaleKeeps ==
  ASSUME QuestionOK, NEW ts \in SUBSET Tickets, Stale(ts)
  PROVE  QuestionOK' /\ (question # NoQuestion => question' # NoQuestion)
<1>1. CASE question = NoQuestion
  BY <1>1 DEF Stale, QuestionOK, NoQuestion
<1>2. CASE question # NoQuestion
  <2>1. question \in Question /\ question.stale \subseteq question.shown
    BY <1>2 DEF QuestionOK
  <2>2. question' \in Question /\ question'.stale \subseteq question'.shown
        /\ question'.intent = question.intent
    BY <2>1 DEF Stale, Question
  <2>3. question.intent # NoQuestion.intent
    BY <2>1 DEF Question, NoQuestion, MustExist
  <2> QED
    BY <2>2, <2>3 DEF QuestionOK
<1> QED
  BY <1>1, <1>2

\* What a step has to show.
Good == Tables' /\ QuestionOK'
        /\ (question # NoQuestion /\ question' = NoQuestion
              => last'.done = {} \/ last'.named \cap question.stale = {})

LEMMA Unasked == Tables /\ QuestionOK /\ UNCHANGED question /\ Answer => Good
BY AnswerKeeps DEF Good, QuestionOK

LEMMA Answered == Tables /\ Answer /\ QuestionOK' => Good
<1> SUFFICES ASSUME Tables, Answer, QuestionOK' PROVE Good
  OBVIOUS
<1>1. last'.done = {}
  BY DEF Answer, Nothing
<1> QED
  BY <1>1, AnswerKeeps DEF Good

LEMMA Built ==
  ASSUME Tables, QuestionOK', NEW f \in SUBSET Fields, NEW k, Build(f, k)
  PROVE  Good
<1>1. last'.done = {}
  BY DEF Build, Nothing
<1> QED
  BY <1>1, BuildKeeps DEF Good

LEMMA Ended == question' = NoQuestion => QuestionOK'
BY DEF QuestionOK
----------------------------------------------------------------------------
(* Replies.                                                                *)

LEMMA Asked ==
  ASSUME QuestionOK, question # NoQuestion
  PROVE  /\ question.intent \in MustExist \cup {"create"} /\ question.shown \in SUBSET Tickets
         /\ question.stale \subseteq question.shown /\ question.fields \in SUBSET Fields
BY DEF QuestionOK, Question

LEMMA SupplementGood ==
  ASSUME Inv, NEW d \in Reports \cup Answers, Supplement(d)
  PROVE  Good
<1> DEFINE merged == question.fields \cup d.fields
<1>1. question # NoQuestion
  BY DEF Supplement, Supplements, NoQuestion
<1>2. merged \in SUBSET Fields
  BY <1>1, Asked, ReportType DEF Inv
<1>3. CASE Ask("create", {}, merged) /\ Answer
  BY <1>2, <1>3, AskKeeps, Answered DEF Inv
<1>4. CASE question' = NoQuestion /\ Build(merged, 1)
  BY <1>2, <1>4, Ended, Built DEF Inv
<1> QED
  BY <1>3, <1>4 DEF Supplement

\* The tickets that a question showed are those it is answered for.
LEMMA ShownGood ==
  ASSUME Inv, question # NoQuestion, question' = NoQuestion, question.stale = {},
         Execute(question.intent, question.shown, question.shown)
  PROVE  Good
<1>1. Tables'
  BY Asked, ExecuteKeeps DEF Inv
<1> QED
  BY <1>1, Ended DEF Good

LEMMA ConfirmGood == ASSUME Inv, NEW d, Confirm(d) PROVE Good
<1>1. question # NoQuestion /\ question.fields \in SUBSET Fields
  BY Asked DEF Confirm, Inv
<1>2. CASE question' = NoQuestion /\ Build(question.fields, 1)
  BY <1>1, <1>2, Ended, Built DEF Inv
<1>3. CASE question' = NoQuestion /\ Answer
  BY <1>3, Ended, Answered DEF Inv
<1>4. CASE UNCHANGED question /\ Answer
  BY <1>4, Unasked DEF Inv
<1>5. CASE /\ question' = NoQuestion /\ question.stale = {}
           /\ Execute(question.intent, question.shown, question.shown)
  BY <1>1, <1>5, ShownGood
<1> QED
  BY <1>2, <1>3, <1>4, <1>5 DEF Confirm

LEMMA DeclineGood == ASSUME Inv, NEW d, Decline(d) PROVE Good
BY Ended, Answered DEF Decline, Inv

LEMMA CorrectGood == ASSUME Inv, NEW d \in Answers, Correct(d) PROVE Good
<1>1. question # NoQuestion /\ question.fields \cup d.fields \in SUBSET Fields
  BY Asked, ReportType DEF Correct, Inv
<1>2. CASE question' = NoQuestion /\ Build(question.fields \cup d.fields, 1)
  BY <1>1, <1>2, Ended, Built DEF Inv
<1>3. CASE question' = NoQuestion /\ Answer
  BY <1>3, Ended, Answered DEF Inv
<1>4. CASE UNCHANGED question /\ Answer
  BY <1>4, Unasked DEF Inv
<1>5. CASE /\ question' = NoQuestion /\ question.stale = {}
           /\ Execute(question.intent, question.shown, question.shown)
  BY <1>1, <1>5, ShownGood
<1> QED
  BY <1>2, <1>3, <1>4, <1>5 DEF Correct

LEMMA AssignGood == ASSUME Inv, NEW d \in Selections, Assign(d) PROVE Good
<1> DEFINE ts == Chosen(d)
<1>1. question # NoQuestion
  BY FS_EmptySet DEF Assign, Assigns, NoQuestion
<1>2. question.shown \in SUBSET Tickets /\ question.fields \in SUBSET Fields
  BY <1>1, Asked DEF Inv
<1>3. ts \in SUBSET Tickets
  BY <1>2, SelectionType DEF Chosen, Nth
<1>4. CASE UNCHANGED question /\ Answer
  BY <1>4, Unasked DEF Inv
<1>5. ASSUME Ready(ts), question' = NoQuestion, NEW done \in Outcomes(ts),
             Execute(question.intent, ts, done)
      PROVE  Good
  <2>1. done \in SUBSET ts /\ ts \cap question.stale = {}
    BY <1>5 DEF Outcomes, Ready
  <2>2. Tables'
    BY <1>3, <1>5, <2>1, ExecuteKeeps DEF Inv
  <2>3. last'.named \in {{}, ts}
    BY <1>5 DEF Execute, Nothing
  <2> QED
    BY <1>5, <2>1, <2>2, <2>3, Ended DEF Good
<1>6. CASE question' = NoQuestion /\ Answer
  BY <1>6, Ended, Answered DEF Inv
<1>7. ASSUME question' = NoQuestion, NEW k, Build(question.fields, k)
      PROVE  Good
  BY <1>2, <1>7, Ended, Built DEF Inv
<1> QED
  BY <1>4, <1>5, <1>6, <1>7 DEF Assign
----------------------------------------------------------------------------
(* Other messages.                                                         *)

LEMMA SelectGood ==
  ASSUME Inv, NEW d \in Selections, Select(d)
  PROVE  Good /\ picked' \in Tickets \cup {0}
<1>1. last' = Nothing /\ UNCHANGED <<status, question, selected, raced>>
  BY DEF Select
<1>2. /\ last' \in [named : SUBSET Tickets, done : SUBSET Tickets, lacks : SUBSET Fields]
      /\ last'.named = {} /\ last'.done = {}
  BY <1>1 DEF Nothing
<1>3. picked' \in Tickets \cup {0}
  BY DEF Select, Referred, In, Inv
<1> QED
  BY <1>1, <1>2, <1>3
     DEF Good, Inv, Tables, QuestionOK, NumberIsObeyed, SelectionEndsWithTicket

LEMMA WriteGood == Inv /\ SelectWrites => Good /\ picked' \in Tickets \cup {0}
BY DEF SelectWrites, Good, Inv, Tables, QuestionOK, NumberIsObeyed, SelectionEndsWithTicket

\* A message is executed on a ticket that it insists on, if it does on any.
LEMMA ActGood ==
  ASSUME Inv, NEW i \in MustExist, NEW named \in SUBSET Tickets, NEW target, NEW t \in Tickets,
         Valid(i, target, t) => named \in {{}, {t}},
         Act(i, named, target, t)
  PROVE  Good
<1>1. CASE UNCHANGED question /\ Answer
  BY <1>1, Unasked DEF Inv
<1>2. CASE Ask(i, {t}, {}) /\ Answer
  <2>1. {t} \in SUBSET Tickets /\ {} \in SUBSET Fields
    OBVIOUS
  <2> QED
    BY <1>2, <2>1, AskKeeps, Answered DEF Inv
<1>3. CASE Stale({t}) /\ Execute(i, named, {t}) /\ Valid(i, target, t)
  <2>1. {t} \in SUBSET Tickets /\ (named # {} => {t} \subseteq named)
    BY <1>3
  <2>2. Tables'
    BY <1>3, <2>1, ExecuteKeeps DEF Inv
  <2> QED
    BY <1>3, <2>1, <2>2, StaleKeeps DEF Good, Inv
<1> QED
  BY <1>1, <1>2, <1>3 DEF Act

\* Where the router sends a message it sends it to a candidate.
LEMMA RouteType ==
  ASSUME NEW i, NEW d, NEW C \in SUBSET Tickets
  PROVE  LET r == Route(i, d, C) IN
         /\ r.how # "clarify" => r.ticket \in C
         /\ r.how \in {"context", "single"} => d.said \cap C = {}
         /\ r.how \in {"clarify", "explicit", "quote", "suffix", "context", "scores", "single"}
<1>1. Cardinality(C) = 1 => (CHOOSE t \in C : TRUE) \in C
  BY FS_EmptySet
<1>2. d.said \cap C # {} => (CHOOSE t \in d.said : t \in C) \in C
  OBVIOUS
<1> QED
  BY <1>1, <1>2 DEF Route, Routed, Clarify

LEMMA DirectGood ==
  ASSUME Inv, NEW d, d.intent \in MustExist, d.target \in Maybe, d.said \in SUBSET Tickets,
         Direct(d)
  PROVE  Good
<1> DEFINE C == In(RoutingStates(d.intent))
           r == Route(d.intent, d, C)
<1>1. C \in SUBSET Tickets
  BY DEF In
<1>2. CASE UNCHANGED question /\ Answer
  BY <1>2, Unasked DEF Inv
<1>3. ASSUME NEW t \in d.said, Act("confirm", {t}, t, t) PROVE Good
  <2>1. "confirm" \in MustExist /\ {t} \in SUBSET Tickets /\ t \in Tickets
    BY DEF MustExist
  <2> QED
    BY <1>3, <2>1, ActGood
<1>4. CASE Ask(d.intent, C, {}) /\ Answer
  BY <1>1, <1>4, AskKeeps, Answered DEF Inv
<1>5. CASE /\ ~WrongPause(d, r, C) /\ r.how # "clarify"
           /\ Act(d.intent, Insists(d, r), d.target, r.ticket)
  <2>1. r.ticket \in Tickets
    BY <1>1, <1>5, RouteType
  <2>2. Insists(d, r) \in SUBSET Tickets
    BY DEF Insists, Maybe
  <2>3. Valid(d.intent, d.target, r.ticket) => Insists(d, r) \in {{}, {r.ticket}}
    <3>1. CASE d.target # 0
      BY <3>1 DEF Valid, Insists
    <3>2. CASE d.target = 0 /\ d.intent = "special" /\ r.how \in {"context", "single"}
      <4>1. d.said \ C = {} /\ d.said \cap C = {}
        BY <1>1, <1>5, <3>2, RouteType DEF WrongPause
      <4> QED
        BY <3>2, <4>1 DEF Insists
    <3>3. CASE d.target = 0 /\ ~(d.intent = "special" /\ r.how \in {"context", "single"})
      BY <3>3 DEF Insists
    <3> QED
      BY <3>1, <3>2, <3>3
  <2> QED
    BY <1>5, <2>1, <2>2, <2>3, ActGood
<1> QED
  BY <1>2, <1>3, <1>4, <1>5 DEF Direct

LEMMA ReportGood == ASSUME Inv, NEW d \in Reports, Report(d) PROVE Good
<1> DEFINE C == In({"ACTIVE"})
<1>1. C \in SUBSET Tickets /\ d.fields \in SUBSET Fields /\ Fields \in SUBSET Fields
  BY ReportType DEF In
<1>2. CASE UNCHANGED question /\ Answer
  BY <1>2, Unasked DEF Inv
<1>3. ASSUME NEW ts \in SUBSET Tickets, Ask("create", ts, d.fields), Answer PROVE Good
  BY <1>1, <1>3, AskKeeps, Answered DEF Inv
<1>4. CASE Build(Fields, 1) /\ UNCHANGED question
  BY <1>1, <1>4, Built DEF Inv, QuestionOK
<1> QED
  BY <1>1, <1>2, <1>3, <1>4 DEF Report
----------------------------------------------------------------------------
(* Everybody else.                                                         *)

LEMMA OthersGood == ASSUME Inv, NEW t \in Tickets, Others(t) PROVE Good
<1>1. PICK i \in Business, r \in Roles : status' = [status EXCEPT ![t] = After(i, status[t], r)]
  BY DEF Others
<1>2. Stale({t}) /\ Forget({t}) /\ last' = Nothing /\ {t} \in SUBSET Tickets
  BY DEF Others
<1>3. status' \in [Tickets -> Statuses] /\ \A u \in Tickets : u \in {t} \/ status'[u] = status[u]
  BY <1>1, AfterType DEF Inv, Tables
<1>4. selected' \in Tickets \cup {0} /\ raced' \in BOOLEAN /\ SelectionEndsWithTicket'
  BY <1>2, <1>3, ForgetKeeps DEF Inv
<1>5. /\ last' \in [named : SUBSET Tickets, done : SUBSET Tickets, lacks : SUBSET Fields]
      /\ last'.named = {} /\ last'.done = {}
  BY <1>2 DEF Nothing
<1> QED
  BY <1>2, <1>3, <1>4, <1>5, StaleKeeps DEF Good, Inv, Tables, NumberIsObeyed

LEMMA AdminGood == ASSUME Inv, NEW t \in Tickets, AdminSets(t) PROVE Good
<1>1. PICK s \in AdminTo : status' = [status EXCEPT ![t] = s]
  BY DEF AdminSets
<1>2. Stale({t}) /\ Forget({t}) /\ last' = Nothing /\ {t} \in SUBSET Tickets
  BY DEF AdminSets
<1>3. status' \in [Tickets -> Statuses] /\ \A u \in Tickets : u \in {t} \/ status'[u] = status[u]
  BY <1>1, ConversationAssumption DEF Inv, Tables
<1>4. selected' \in Tickets \cup {0} /\ raced' \in BOOLEAN /\ SelectionEndsWithTicket'
  BY <1>2, <1>3, ForgetKeeps DEF Inv
<1>5. /\ last' \in [named : SUBSET Tickets, done : SUBSET Tickets, lacks : SUBSET Fields]
      /\ last'.named = {} /\ last'.done = {}
  BY <1>2 DEF Nothing
<1> QED
  BY <1>2, <1>3, <1>4, <1>5, StaleKeeps DEF Good, Inv, Tables, NumberIsObeyed

LEMMA ExpiryGood == Inv /\ (QuestionExpires \/ ContextExpires) => Good
<1> SUFFICES ASSUME Inv, QuestionExpires \/ ContextExpires PROVE Good
  OBVIOUS
<1>1. /\ last' \in [named : SUBSET Tickets, done : SUBSET Tickets, lacks : SUBSET Fields]
      /\ last'.named = {} /\ last'.done = {}
  BY DEF QuestionExpires, ContextExpires, Nothing
<1>2. UNCHANGED status /\ SelectionEndsWithTicket' /\ selected' \in Tickets \cup {0}
      /\ raced' \in BOOLEAN
  BY DEF QuestionExpires, ContextExpires, Inv, Tables, SelectionEndsWithTicket
<1>3. QuestionOK'
  BY DEF QuestionExpires, ContextExpires, Inv, QuestionOK
<1> QED
  BY <1>1, <1>2, <1>3 DEF Good, Inv, Tables, NumberIsObeyed

\* What a message leaves alone.
Framed == role' = role /\ picked' \in Tickets \cup {0}

LEMMA Unpicked == Inv /\ NoSelection => Framed
BY DEF NoSelection, Framed, Inv

LEMMA StepGood == Inv /\ Next => Good /\ Framed
<1> SUFFICES ASSUME Inv, Next PROVE Good /\ Framed
  OBVIOUS
<1>1. ASSUME NEW d \in Answers, Supplement(d) \/ Confirm(d) \/ Decline(d) \/ Correct(d)
      PROVE  Good /\ Framed
  BY <1>1, Unpicked, SupplementGood, ConfirmGood, DeclineGood, CorrectGood
     DEF Supplement, Confirm, Decline, Correct
<1>2. ASSUME NEW d \in Selections, Assign(d) \/ Select(d) PROVE Good /\ Framed
  BY <1>2, Unpicked, AssignGood, SelectGood DEF Assign, Select, Framed
<1>3. ASSUME NEW d \in Reports, Supplement(d) \/ Report(d) PROVE Good /\ Framed
  BY <1>3, Unpicked, SupplementGood, ReportGood DEF Supplement, Report
<1>4. ASSUME NEW d \in AboutTickets, NEW e \in Wordings(d), Direct(e) PROVE Good /\ Framed
  BY <1>4, Unpicked, WordingType, DirectGood DEF Direct
<1>5. ASSUME NEW t \in Tickets, Others(t) \/ AdminSets(t) PROVE Good /\ Framed
  BY <1>5, Unpicked, OthersGood, AdminGood DEF Others, AdminSets, Framed, Inv
<1>6. CASE OthersReport
  <2>1. Fields \in SUBSET Fields /\ QuestionOK'
    BY <1>6 DEF OthersReport, Inv, QuestionOK
  <2> QED
    BY <1>6, <2>1, Unpicked, Built DEF OthersReport, Inv
<1>7. CASE QuestionExpires \/ ContextExpires
  BY <1>7, Unpicked, ExpiryGood DEF QuestionExpires, ContextExpires
<1>8. CASE SelectWrites
  BY <1>8, WriteGood DEF SelectWrites, Framed
<1> QED
  BY <1>1, <1>2, <1>3, <1>4, <1>5, <1>6, <1>7, <1>8 DEF Next

LEMMA NextInv == Inv /\ [Next]_vars => Inv'
<1>1. Inv /\ UNCHANGED vars => Inv'
  BY DEF vars, Inv, Tables, QuestionOK, NumberIsObeyed, SelectionEndsWithTicket
<1> QED
  BY <1>1, StepGood DEF Good, Framed, Inv
----------------------------------------------------------------------------
\* What a conversation keeps has its types.
THEOREM TypeCorrect == Spec => []TypeOK
  BY InitInv, NextInv, InvTypes, PTL DEF Spec

\* A message that names tickets acts on no other, whatever the router
\* (ticket_router.py) and the open question would choose.
THEOREM NumbersAreObeyed == Spec => []NumberIsObeyed
<1>1. Inv => NumberIsObeyed
  BY DEF Inv, Tables
<1> QED
  BY <1>1, InitInv, NextInv, PTL DEF Spec

\* Contexts are cleared wherever the bot (clear_contexts_by_ticket) or the
\* administration server closes a ticket, with any number of them.
THEOREM ContextsEndWithTheirTickets == Spec => []SelectionEndsWithTicket
<1>1. Inv => SelectionEndsWithTicket
  BY DEF Inv, Tables
<1> QED
  BY <1>1, InitInv, NextInv, PTL DEF Spec

\* The answer to "which ticket?" checks every chosen ticket before it acts on
\* the first (pipeline.py:984), for any number of tickets.
THEOREM StaleChoicesActOnNone == Spec => StaleChoiceActsOnNone
<1>1. Inv /\ [Next]_vars =>
        [question # NoQuestion /\ question' = NoQuestion
           => last'.done = {} \/ last'.named \cap question.stale = {}]_vars
  BY StepGood DEF Good
<1> QED
  BY <1>1, InitInv, NextInv, PTL DEF Spec, StaleChoiceActsOnNone
=============================================================================
