------------------------------ MODULE Reports ------------------------------
(***************************************************************************)
(* The teachers' reports over the tables of AppServer: get_user_marks,     *)
(* get_user_answers, get_users_list and set_quest_order_info of            *)
(* TestRestController.cpp and get of AttemptRestController.cpp, run by     *)
(* further threads of the same server, one action per database call.       *)
(***************************************************************************)
EXTENDS AppServer, Sequences

CONSTANTS
    Readers,        \* threads of the Crow server that run these handlers
    Lists,          \* the lists of questions a set_quest_order_info can name
    Options,        \* subscripts of questions.answers
    ReportGrants,   \* these handlers' permissions in each user's access token
    ReportRequests,
    ReportFaults    \* these handlers' calls may throw, the process may be killed;
                    \* Faults says the former of the other handlers

VARIABLES
    order,          \* quests_tests.order_id
    desk            \* the request each of the Readers is handling

rvars == <<vars, order, desk>>

NoOrder == 0
Positions == UNION {DOMAIN s : s \in Lists}

ReportPermissions == {"test:quest:update", "test:answer:read"}
Permission(op) == IF op = "order" THEN "test:quest:update" ELSE "test:answer:read"

OrderReq == [op : {"order"}, subject : Users, test : Tests, list : Lists]
TestReportReq == [op : {"takers", "marks", "answers"}, subject : Users, test : Tests]
GetReq == [op : {"get"}, subject : Users, user : Users, test : Tests]
ReportReq == OrderReq \cup TestReportReq \cup GetReq

ASSUME ReportsAssumption ==
    /\ Lists \subseteq Seq(Quests)
    /\ Options \in [Quests -> SUBSET Int] /\ \A q \in Quests : NoAnswer \notin Options[q]
    /\ ReportGrants \in [Users -> SUBSET ReportPermissions]
    /\ ReportRequests \subseteq ReportReq
    /\ Nil \notin ReportReq
    /\ ReportFaults \in BOOLEAN

Desk == [pc : {"idle", "auth", "place", "query", "sheets", "done"},
         req : ReportReq \cup {Nil},
         all : BOOLEAN,                  \* every student's rows, or the caller's
         next : Nat,                     \* element of the list to write
         kept : SUBSET LinkIds,          \* see OrderOkMeansPlaced
         todo : SUBSET AttemptIds,       \* attempts whose answers are still to read
         seen : SUBSET AttemptIds,       \* attempts in the response so far
         marks : [AttemptIds -> Marks \cup {NoMark}],
         sheets : [AttemptIds -> [LinkIds -> AnswerRow \cup {Nil}]],
         code : Codes]

IdleDesk == [pc |-> "idle", req |-> Nil, all |-> FALSE, next |-> 1, kept |-> {},
             todo |-> {}, seen |-> {}, marks |-> [a \in AttemptIds |-> NoMark],
             sheets |-> [a \in AttemptIds |-> NoAnswers], code |-> 0]

Doing(r, op, pc) == desk[r].pc = pc /\ desk[r].req.op = op

\* What a response shows is kept only where a property speaks of it.
Answer(r, code) ==
    desk' = [desk EXCEPT ![r] = [IdleDesk EXCEPT !.pc = "done", !.req = desk[r].req,
                                                 !.code = code]]

-----------------------------------------------------------------------------
(* Authorization.  A caller who is let in because the token or the course  *)
(* says so works on everybody's rows, a mere subscriber on his own.        *)

Admit(r, op, lesser, next) ==
    /\ Doing(r, op, "auth") /\ desk[r].req.test \notin Missing
    /\ LET q == desk[r].req
       IN  \E code \in ValidateWithBlockHandle(q.subject,
                            Permission(op) \in ReportGrants[q.subject]),
             owner \in MatchCourseIdOwner(CourseOf[q.test]), other \in lesser :
              IF code = 200 \/ (code = 403 /\ (owner \/ other))
              THEN desk' = [desk EXCEPT ![r].pc = next, ![r].all = code = 200 \/ owner,
                      ![r].kept = {l \in LinkIds : op = "order" /\ LinksOf(q.test)[l] # Nil}]
              ELSE Answer(r, code)
    /\ UNCHANGED <<vars, order>>

Subscribed(r) == MatchTestIdSubscriber(desk[r].req.subject, desk[r].req.test)

AdmitOrder(r) == Admit(r, "order", {FALSE}, "place")
AdmitTakers(r) == Admit(r, "takers", {FALSE}, "query")
AdmitMarks(r) == Admit(r, "marks", Subscribed(r), "query")
AdmitAnswers(r) == Admit(r, "answers", Subscribed(r), "query")
AdmitGet(r) == Admit(r, "get", MatchUserId(desk[r].req), "query")

\* Every request is gone.
ReportsDie ==
    /\ Die
    /\ desk' = [r \in Readers |-> IdleDesk]
    /\ UNCHANGED order

\* Whoever asks: the course of the test is looked up, by [0], before the answer
\* of the validation is used.
MissCourse(r) ==
    /\ desk[r].pc = "auth" /\ desk[r].req.test \in Missing
    /\ ReportsDie

-----------------------------------------------------------------------------
(* /api/tests/set_quest_order_info: one UPDATE per element of the list.    *)

Placed(r) ==
    {l \in LinkIds : LinksOf(desk[r].req.test)[l] # Nil
                     /\ links[l].quest = desk[r].req.list[desk[r].next]}

\* Faulty: places counted from 0.
PlaceQuestFromZero(r) ==
    /\ Doing(r, "order", "place")
    /\ desk[r].next \in DOMAIN desk[r].req.list
    /\ order' = [l \in LinkIds |-> IF l \in Placed(r) THEN desk[r].next - 1 ELSE order[l]]
    /\ desk' = [v \in Readers |->
                   IF v = r THEN [desk[r] EXCEPT !.next = @ + 1]
                   ELSE [desk[v] EXCEPT !.kept = @ \ Placed(r)]]
    /\ UNCHANGED vars

PlaceQuest(r) ==
    /\ Doing(r, "order", "place")
    /\ desk[r].next \in DOMAIN desk[r].req.list
    /\ order' = [l \in LinkIds |-> IF l \in Placed(r) THEN desk[r].next ELSE order[l]]
    /\ desk' = [v \in Readers |->
                   IF v = r THEN [desk[r] EXCEPT !.next = @ + 1]
                   ELSE [desk[v] EXCEPT !.kept = @ \ Placed(r)]]
    /\ UNCHANGED vars

OrderReply(r) ==
    /\ Doing(r, "order", "place")
    /\ desk[r].next \notin DOMAIN desk[r].req.list
    /\ desk' = [desk EXCEPT ![r].pc = "done", ![r].code = 200]
    /\ UNCHANGED <<vars, order>>

-----------------------------------------------------------------------------
(* A column that is NULL is left out of the row (DataAdapter), and asking  *)
(* for it throws (Data::operator[]): the whole report is answered 500.  So *)
(* it is with the mark of an attempt that has none, and with the text of   *)
(* an answer that is no subscript of questions.answers, -1 included.  A    *)
(* version that questions does not have (see MatchQuestIdOwner) leaves no  *)
(* row at all to take the text from.                                       *)

Listed(row) == row.version = ActualVersion[row.quest]

\* Faulty: -1 taken for an answer that can be shown, as attempts/get does.
TextlessGiven(row) ==
    row # Nil /\ Listed(row) /\ row.answer \notin Options[row.quest] \cup {NoAnswer}

Textless(row) == row # Nil /\ Listed(row) /\ row.answer \notin Options[row.quest]

Unlisted(sheet) == {l \in LinkIds : sheet[l] # Nil /\ ~Listed(sheet[l])}

Completed(t) == {a \in Rows(t) : attempts[a].completed}
InReport(r) ==
    LET q == desk[r].req
    IN  {a \in Completed(q.test) : desk[r].all \/ attempts[a].user = q.subject}

(* /api/tests/get_users_list                                               *)

ListTakers(r) ==
    /\ Doing(r, "takers", "query")
    /\ Answer(r, IF Rows(desk[r].req.test) = {} THEN 404 ELSE 200)
    /\ UNCHANGED <<vars, order>>

(* /api/tests/get_user_marks                                               *)

\* Faulty: an attempt without a mark is left out.
UnmarkedSkipped(rows) == {}

Unmarked(rows) == {a \in rows : attempts[a].mark = NoMark}

ReadMarks(r) ==
    /\ Doing(r, "marks", "query")
    /\ IF Unmarked(InReport(r)) # {} THEN Answer(r, 500)
       ELSE desk' = [desk EXCEPT
               ![r].pc = "done", ![r].code = 200, ![r].seen = InReport(r),
               ![r].marks = [a \in AttemptIds |-> IF a \in InReport(r)
                                                  THEN attempts[a].mark ELSE NoMark]]
    /\ UNCHANGED <<vars, order>>

(* /api/tests/get_user_answers: the attempts, then each one's answers.     *)
(* The mask of a caller who only sees his own rows lacks an AND, and the   *)
(* query fails.                                                            *)

ReadAttempts(r) ==
    /\ Doing(r, "answers", "query")
    /\ IF ~desk[r].all THEN Answer(r, 500)
       ELSE IF InReport(r) = {} THEN Answer(r, 404)
       ELSE desk' = [desk EXCEPT ![r].pc = "sheets", ![r].todo = InReport(r)]
    /\ UNCHANGED <<vars, order>>

\* An attempt without answers is left out of the report.
ReadSheet(r) ==
    /\ Doing(r, "answers", "sheets")
    /\ \E a \in desk[r].todo :
          \/ /\ \E l \in LinkIds : Textless(answers[a][l])
             /\ Answer(r, 500)
          \/ /\ \A l \in LinkIds : ~Textless(answers[a][l])
             /\ Unlisted(answers[a]) = {}
             /\ desk' = [desk EXCEPT ![r].todo = @ \ {a}, ![r].sheets[a] = answers[a],
                            ![r].seen = IF answers[a] = NoAnswers THEN @ ELSE @ \cup {a}]
    /\ UNCHANGED <<vars, order>>

\* The rows of a sheet come in any order: what is met first, a row without text
\* or one that is not listed, decides.
MissVersion(r) ==
    /\ desk[r].pc = "sheets"
    /\ \E a \in desk[r].todo : Unlisted(answers[a]) # {}
    /\ ReportsDie

SheetsReply(r) ==
    /\ Doing(r, "answers", "sheets")
    /\ desk[r].todo = {}
    /\ desk' = [desk EXCEPT ![r].pc = "done", ![r].code = 200]
    /\ UNCHANGED <<vars, order>>

(* /api/attempts/get: the first attempt the query returns, then its        *)
(* answers, where -1 is shown as not given yet.                            *)

FindAttempt(r) ==
    /\ Doing(r, "get", "query")
    /\ \E a \in RowsOf(desk[r].req.user, desk[r].req.test) :
          desk' = [desk EXCEPT ![r].pc = "sheets", ![r].todo = {a}]
    /\ UNCHANGED <<vars, order>>

\* attempt[0] of nobody's attempt.
MissAttempt(r) ==
    /\ Doing(r, "get", "query")
    /\ RowsOf(desk[r].req.user, desk[r].req.test) = {}
    /\ ReportsDie

GetSheet(r) ==
    /\ Doing(r, "get", "sheets")
    /\ \E a \in desk[r].todo :
          LET thrown == {l \in LinkIds : Textless(answers[a][l])
                                         /\ answers[a][l].answer # NoAnswer}
          IN  \/ answers[a] = NoAnswers /\ Answer(r, 404)
              \/ thrown # {} /\ Answer(r, 500)
              \/ /\ answers[a] # NoAnswers /\ thrown = {} /\ Unlisted(answers[a]) = {}
                 /\ Answer(r, 200)
    /\ UNCHANGED <<vars, order>>

-----------------------------------------------------------------------------
ReportInit ==
    /\ Init
    /\ order = [l \in LinkIds |-> NoOrder]
    /\ desk = [r \in Readers |-> IdleDesk]

\* A user whose client waits has no report in the works.
NoReportFor(u) == Pipelined \/ \A r \in Readers : desk[r].req # Nil => desk[r].req.subject # u

NoJobFor(u) == Pipelined \/ \A w \in Workers : job[w].req # Nil => job[w].req.subject # u

Take(r) ==
    /\ desk[r].pc = "idle"
    /\ \E q \in ReportRequests :
          /\ NoReportFor(q.subject) /\ NoJobFor(q.subject)
          /\ desk' = [desk EXCEPT ![r] = [IdleDesk EXCEPT !.pc = "auth", !.req = q]]
    /\ UNCHANGED <<vars, order>>

Release(r) ==
    /\ desk[r].pc = "done"
    /\ desk' = [desk EXCEPT ![r] = IdleDesk]
    /\ UNCHANGED <<vars, order>>

\* A database call outside the access checks throws.
Fail(r) ==
    /\ ReportFaults
    /\ desk[r].pc \in {"place", "query", "sheets"}
    /\ Answer(r, 500)
    /\ UNCHANGED <<vars, order>>

ReportStep(r) ==
    \/ AdmitOrder(r) \/ PlaceQuest(r) \/ OrderReply(r)
    \/ AdmitTakers(r) \/ ListTakers(r) \/ AdmitMarks(r) \/ ReadMarks(r)
    \/ AdmitAnswers(r) \/ ReadAttempts(r) \/ ReadSheet(r) \/ SheetsReply(r)
    \/ AdmitGet(r) \/ FindAttempt(r) \/ GetSheet(r)

\* A step of the other handlers: a row it adds to quests_tests has no place in
\* the order yet, and one it removes takes its place along.
ServerStep ==
    /\ \E w \in Workers :
          \/ Receive(w) /\ NoReportFor(job'[w].req.subject)
          \/ Step(w) \/ Abort(w) \/ Respond(w)
    /\ order' = [l \in LinkIds |-> IF links'[l] = links[l] THEN order[l] ELSE NoOrder]
    /\ desk' = [r \in Readers |->
                   [desk[r] EXCEPT !.kept = {l \in @ : links'[l] = links[l]}]]

Restart == ReportFaults /\ ReportsDie

\* The process goes down: it is killed, or dies of a test, an attempt, a question
\* or a question's version that is not there.
Death ==
    \/ Restart
    \/ (\E w \in Workers : Miss(w)) /\ ReportsDie
    \/ \E r \in Readers : MissCourse(r) \/ MissAttempt(r) \/ MissVersion(r)

ReportNext ==
    \/ \E r \in Readers : Take(r) \/ ReportStep(r) \/ Fail(r) \/ Release(r)
    \/ ServerStep
    \/ Death

ReportSpec == ReportInit /\ [][ReportNext]_rvars

-----------------------------------------------------------------------------
(* The type invariant: the desks, like the jobs, hold the state of one of  *)
(* the handlers, and a link has a place some list can give it.             *)
ReportTypeOK ==
    /\ TypeOK
    /\ order \in [LinkIds -> Positions \cup {NoOrder}]
    /\ desk \in [Readers -> Desk]

Replied(r, op) == desk[r].pc = "done" /\ desk[r].code = 200 /\ desk[r].req.op = op

-----------------------------------------------------------------------------
(* set_quest_order_info commits the list one question at a time            *)
(* (TestRestController.cpp:113).  When it answers 200, every row that was  *)
(* linked when it began, and that no other request has removed or placed   *)
(* since (kept), has the place of its question's last mention in the list; *)
(* another request, or a failure, may mix the order of the others.         *)
OrderOkMeansPlaced ==
    \A r \in Readers : Replied(r, "order") =>
        LET list == desk[r].req.list
        IN  \A l \in desk[r].kept, i \in DOMAIN list :
               /\ links[l].quest = list[i]
               /\ \A k \in DOMAIN list : k > i => list[k] # list[i]
               => order[l] = i

-----------------------------------------------------------------------------
(* An attempt that finish completed and did not mark makes get_user_marks  *)
(* throw.  Orphaned attempts stay so: once the answers already given are   *)
(* read, the marks of the test's other students cannot be reported again.  *)
MarksUnreportable(t) ==
    /\ \E a \in Rows(t) : Orphaned(a)
    /\ \A r \in Readers : Replied(r, "marks") /\ desk[r].all => desk[r].req.test # t

OrphanBlocksMarks ==
    [][\A t \in Tests : MarksUnreportable(t) => MarksUnreportable(t)']_rvars

(* So does an attempt handed in with a question unanswered, or answered    *)
(* with a number that is no option, with get_user_answers: once the set    *)
(* requests that read the attempt open have drained, nobody's answers can  *)
(* be reported again.                                                      *)
Blank(a) ==
    /\ attempts[a] # Nil /\ attempts[a].completed
    /\ \E l \in LinkIds : LET row == answers[a][l]
                           IN  row # Nil /\ row.answer \notin Options[row.quest]
    /\ \A w \in Workers :
          Busy(w) /\ job[w].req.op = "set" /\ job[w].req.attempt = a
          => job[w].pc = "row" \/ job[w].completed

\* No report of the test has read the attempt before it was blank.
AnswersUnreportable(t) ==
    \E a \in Rows(t) :
        /\ Blank(a)
        /\ \A r \in Readers :
              desk[r].req # Nil /\ desk[r].req.op = "answers" /\ desk[r].req.test = t
              => \/ desk[r].pc \in {"auth", "query"}
                 \/ desk[r].pc = "sheets" /\ a \in desk[r].todo
                 \/ desk[r].pc = "done" /\ desk[r].code # 200

BlankBlocksAnswers ==
    [][\A t \in Tests : AnswersUnreportable(t) => AnswersUnreportable(t)']_rvars

-----------------------------------------------------------------------------
(* What a report shows is final when each student waits for an answer      *)
(* before sending the next request (Pipelined = FALSE): the marks stay the *)
(* marks, and the answers, read attempt by attempt while others hand in,   *)
(* stay the answers.                                                       *)
ReportsAreFinal ==
    \A r \in Readers, a \in AttemptIds : a \in desk[r].seen =>
        /\ desk[r].req.op = "marks" => attempts[a].mark = desk[r].marks[a]
        /\ desk[r].req.op = "answers" => answers[a] = desk[r].sheets[a]

(* While the calls of finish do not fail an attempt is orphaned only when  *)
(* the whole server goes down: nothing another request does, or is         *)
(* answered, loses a mark, but a request that comes to a test, an attempt, *)
(* a question or a version that is not there does, whoever sends it        *)
(* (TestRestController.cpp:17, 259; AttemptRestController.cpp:154, 177,    *)
(* 192).                                                                   *)
OrphanedByDeathOnly ==
    [][\A a \in AttemptIds : ~Orphaned(a) /\ Orphaned(a)' => Death]_rvars
=============================================================================
