------------------------------- MODULE AppDb -------------------------------
(***************************************************************************)
(* The state of AppModuleRemake, the C++ application server: the           *)
(* PostgreSQL tables its REST handlers work on, and, for each thread of    *)
(* the multithreaded Crow server, the request it is handling.              *)
(*                                                                         *)
(* Every DataAdapter, DataUploader, DataModificator or DataRemover call    *)
(* opens, executes and commits a transaction of its own, so a handler is a *)
(* sequence of atomic database steps that the steps of other handlers, and *)
(* a failure, may come between.  The modules Attempts, TestAdmin and       *)
(* Membership hold the handlers; AppServer composes them.                  *)
(***************************************************************************)
EXTENDS Integers, FiniteSets

CONSTANTS
    Workers,        \* threads of the Crow server
    Users,          \* ids of registered users
    Courses,
    Tests,          \* test ids clients can name
    Missing,        \* those of them that have no row in tests
    Quests, Versions,
    Answers,        \* answer numbers a client can send
    AttemptIds,     \* bound: ids the attempts table can hand out
    LinkIds,        \* bound: row ids of quests_tests
    CourseOf,       \* tests.course_id, written once by add_test
    CorrectAnswer,  \* questions.correct_answer, never updated
    Author,         \* questions.author_id
    ActualVersion,  \* the database function get_actual_version; Nil for an id that
                    \* clients can name and questions does not have
    Taught,         \* courses whose row has a teacher_id
    Grants,         \* the permissions in each user's access token
    InitialLinks, InitialMembers,
    Requests,       \* the requests clients may send
    Pipelined,      \* one user's client may have several requests in flight
    Faults,         \* database calls may throw, the process may be killed
    Nil

VARIABLES
    blocked,        \* users.is_blocked
    members,        \* users_courses
    closedCourses,  \* courses whose is_deleted is set
    tests,          \* tests.is_active, tests.is_deleted
    links,          \* quests_tests
    attempts,       \* attempts
    answers,        \* answers; the row made from link l of attempt a
    job             \* the request each thread is handling

accessVars == <<blocked, members, closedCourses>>
testVars == <<tests, links>>
examVars == <<attempts, answers>>
dbVars == <<accessVars, testVars, examVars>>
vars == <<dbVars, job>>

-----------------------------------------------------------------------------
(* Rows.  create leaves the mark, is_completed and the answer to the       *)
(* columns' defaults: no mark, not completed, and the answer -1 that get   *)
(* takes for a question not answered yet.                                  *)

NoMark == -1
NoAnswer == -1

LinkRow == [test : Tests, quest : Quests, version : Versions]
AnswerRow == [quest : Quests, version : Versions, answer : Answers \cup {NoAnswer}]
Marks == 0 .. Cardinality(LinkIds)
AttemptRow == [user : Users, test : Tests, completed : BOOLEAN,
               mark : Marks \cup {NoMark}]

NoLinks == [l \in LinkIds |-> Nil]
NoAnswers == [l \in LinkIds |-> Nil]

(* The permission strings of ServerConfiguration.h the modelled handlers   *)
(* ask for.                                                                *)
Permissions == {"test:quest:add", "test:quest:del", "course:test:write",
                "course:test:del", "course:user:add", "course:user:del",
                "course:add", "user:block:write"}

-----------------------------------------------------------------------------
(* Requests: the operation, the user the access token names (subject), and *)
(* the parameters.                                                         *)

CreateReq == [op : {"create"}, subject : Users, user : Users, test : Tests]
SetReq == [op : {"set"}, subject : Users, attempt : AttemptIds,
           quest : Quests, answer : Answers]
FinishReq == [op : {"finish"}, subject : Users, attempt : AttemptIds]

AddQuestReq == [op : {"add_quest"}, subject : Users, test : Tests,
                quest : Quests, version : Versions]
DeleteQuestReq == [op : {"delete_quest"}, subject : Users, test : Tests,
                   quest : Quests]
SetTestStatusReq == [op : {"set_test_status"}, subject : Users, test : Tests,
                     status : BOOLEAN]
DeleteTestReq == [op : {"delete_test"}, subject : Users, test : Tests]

SetBlockReq == [op : {"set_block_status"}, subject : Users, user : Users,
                block : BOOLEAN]
AddUserReq == [op : {"add_user"}, subject : Users, user : Users, course : Courses]
DeleteUserReq == [op : {"delete_user"}, subject : Users, user : Users,
                  course : Courses]
DeleteCourseReq == [op : {"delete_course"}, subject : Users, course : Courses]

AttemptReq == CreateReq \cup SetReq \cup FinishReq
TestAdminReq == AddQuestReq \cup DeleteQuestReq \cup SetTestStatusReq
                \cup DeleteTestReq
MembershipReq == SetBlockReq \cup AddUserReq \cup DeleteUserReq
                 \cup DeleteCourseReq
Request == AttemptReq \cup TestAdminReq \cup MembershipReq

ASSUME ConstantsAssumption ==
    /\ IsFiniteSet(Workers) /\ IsFiniteSet(AttemptIds) /\ IsFiniteSet(LinkIds)
    /\ Answers \subseteq Int
    /\ Missing \subseteq Tests
    /\ CourseOf \in [Tests -> Courses]
    /\ CorrectAnswer \in [Quests -> Int] /\ \A q \in Quests : CorrectAnswer[q] # NoAnswer
    /\ Author \in [Quests -> Users]
    /\ ActualVersion \in [Quests -> Versions \cup {Nil}]
    /\ Taught \subseteq Courses
    /\ Grants \in [Users -> SUBSET Permissions]
    /\ Nil \notin LinkRow \cup AnswerRow \cup AttemptRow \cup Request \cup AttemptIds
                \cup (Users \X Tests) \cup Versions
    /\ InitialLinks \in [LinkIds -> LinkRow \cup {Nil}]
    /\ InitialMembers \subseteq Users \X Courses
    /\ Requests \subseteq Request
    /\ Pipelined \in BOOLEAN /\ Faults \in BOOLEAN

-----------------------------------------------------------------------------
(* Jobs: where a thread is in its handler, and the handler's locals.       *)

AttemptPcs == {"row", "member", "tcheck", "dup", "insert", "sheet", "answers",
               "write", "complete", "grade", "mark"}
TestAdminPcs == {"vacant", "link", "taken", "unlink", "status", "retire"}
MembershipPcs == {"block", "course", "join", "leave", "drop"}
Pcs == {"idle", "auth", "done"} \cup AttemptPcs \cup TestAdminPcs \cup MembershipPcs
Codes == {0, 200, 401, 403, 404, 413, 500}

Job == [pc : Pcs,
        req : Request \cup {Nil},
        attempt : AttemptIds \cup {Nil},          \* id the INSERT returned
        completed : BOOLEAN,                      \* is_completed as first read
        todo : [LinkIds -> LinkRow \cup {Nil}],   \* quests_tests rows still to copy
        mark : Marks,                             \* mark counted so far
        code : Codes]                             \* HTTP status, once replied

IdleJob == [pc |-> "idle", req |-> Nil, attempt |-> Nil, completed |-> FALSE,
            todo |-> NoLinks, mark |-> 0, code |-> 0]

At(w, op, pc) == job[w].pc = pc /\ job[w].req.op = op

Goto(w, pc) == job' = [job EXCEPT ![w].pc = pc]

\* The response is ready; the request and the id it reports stay visible.
Reply(w, code) ==
    job' = [job EXCEPT ![w] = [IdleJob EXCEPT !.pc = "done", !.req = job[w].req,
                                              !.attempt = job[w].attempt,
                                              !.code = code]]

\* A commit whose acknowledgement is lost throws although the write is in the
\* table, and the handler answers 500.
CommitCodes == IF Faults THEN {200, 500} ELSE {200}

\* Taking [0] of an empty result is undefined behaviour: it reads a Data at the
\* null pointer, and the process, with every request in it, is gone.
Die ==
    /\ job' = [w \in Workers |-> IdleJob]
    /\ UNCHANGED dbVars

\* Ids of questions that are not there; add_quest links them like others.
Phantoms == {q \in Quests : ActualVersion[q] = Nil}

\* Requests whose handler takes [0] of the row of a test that is not there.
Doomed == {r \in TestAdminReq : r.test \in Missing}

-----------------------------------------------------------------------------
(* Access checks (AccessRequestValidator.cpp).                             *)

\* A token may be valid, expired (401) or unreadable (the exception becomes 500).
ValidateWithBlockHandle(u, permitted) ==
    {500} \cup IF blocked[u] THEN {413}
               ELSE IF permitted THEN {200, 401} ELSE {403, 401}

\* The checks below swallow their exceptions: the first two then say FALSE, the
\* third says TRUE.  Each is the set of answers the check may give.
MatchCourseIdOwner(c) == {(c \in Taught)} \cup IF Faults THEN {FALSE} ELSE {}

MatchTestIdSubscriber(u, t) ==
    {t \notin Missing /\ <<u, CourseOf[t]>> \in members} \cup IF Faults THEN {FALSE} ELSE {}

\* Rows of questions all carry the version the database gave them at creation.
MatchQuestIdOwner(q, v, u) ==
    {v = ActualVersion[q] /\ Author[q] = u} \cup IF Faults THEN {TRUE} ELSE {}

\* The first step of the teachers' and administrators' handlers: a token with
\* the permission, or one without it that passes the handler's own check.
Authorize(w, op, permission, own, next) ==
    /\ At(w, op, "auth") /\ job[w].req \notin Doomed
    /\ LET u == job[w].req.subject
       IN  \E code \in ValidateWithBlockHandle(u, permission \in Grants[u]) :
           \E isOwn \in own :
              IF code = 200 \/ (code = 403 /\ isOwn)
              THEN Goto(w, next) ELSE Reply(w, code)
    /\ UNCHANGED dbVars

-----------------------------------------------------------------------------
(* Queries the handlers make.                                              *)

TestOpen(t) == tests[t].active /\ ~tests[t].deleted

Rows(t) == {a \in AttemptIds : attempts[a] # Nil /\ attempts[a].test = t}

RowsOf(u, t) == {a \in Rows(t) : attempts[a].user = u}

LinksOf(t) == [l \in LinkIds |-> IF links[l] # Nil /\ links[l].test = t
                                 THEN links[l] ELSE Nil]

Correct(row) == row # Nil /\ row.answer = CorrectAnswer[row.quest]

Score(sheet) == Cardinality({l \in LinkIds : Correct(sheet[l])})
=============================================================================
