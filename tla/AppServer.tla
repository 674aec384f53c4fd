----------------------------- MODULE AppServer -----------------------------
(***************************************************************************)
(* The application server: threads that take requests, run the handlers of *)
(* Attempts, TestAdmin and Membership step by step over the shared tables, *)
(* and answer.                                                             *)
(***************************************************************************)
EXTENDS Attempts, TestAdmin, Membership

Init ==
    /\ blocked = [u \in Users |-> FALSE]
    /\ members = InitialMembers
    /\ closedCourses = {}
    /\ tests \in [Tests -> [active : BOOLEAN, deleted : {FALSE}]]
    /\ \A t \in Missing : ~tests[t].active
    /\ links = InitialLinks
    /\ attempts = [a \in AttemptIds |-> Nil]
    /\ answers = [a \in AttemptIds |-> NoAnswers]
    /\ job = [w \in Workers |-> IdleJob]

\* set and finish read the attempt before they validate the caller.
Entry(r) == IF r.op \in {"set", "finish"} THEN "row" ELSE "auth"

Receive(w) ==
    /\ job[w].pc = "idle"
    /\ \E r \in Requests :
          /\ Pipelined \/ \A v \in Workers :
                             job[v].req # Nil => job[v].req.subject # r.subject
          /\ job' = [job EXCEPT ![w] = [IdleJob EXCEPT !.pc = Entry(r), !.req = r]]
    /\ UNCHANGED dbVars

Respond(w) ==
    /\ job[w].pc = "done"
    /\ job' = [job EXCEPT ![w] = IdleJob]
    /\ UNCHANGED dbVars

\* A database call outside the access checks throws: the handler's catch, or
\* Crow's own, answers 500 and what is committed stays.
Abort(w) ==
    /\ Faults
    /\ job[w].pc \notin {"idle", "auth", "member", "done"}
    /\ Reply(w, 500)
    /\ UNCHANGED dbVars

\* The process is killed and started again: nothing but the tables survives.
Crash == Faults /\ Die

Step(w) == AttemptStep(w) \/ TestAdminStep(w) \/ MembershipStep(w)

\* A handler takes [0] of an empty result.
Miss(w) == MissTest(w) \/ MissQuest(w)

Next ==
    \/ \E w \in Workers : Receive(w) \/ Step(w) \/ Miss(w) \/ Abort(w) \/ Respond(w)
    \/ Crash

Spec == Init /\ [][Next]_vars

\* Crow keeps running the threads it has given a request; nothing forces a
\* client to send one.
FairSpec == Spec /\ \A w \in Workers : WF_vars(Step(w) \/ Miss(w) \/ Respond(w))

-----------------------------------------------------------------------------
TablesTypeOK ==
    /\ blocked \in [Users -> BOOLEAN]
    /\ members \subseteq Users \X Courses
    /\ closedCourses \subseteq Courses
    /\ tests \in [Tests -> [active : BOOLEAN, deleted : BOOLEAN]]
    /\ links \in [LinkIds -> LinkRow \cup {Nil}]
    /\ attempts \in [AttemptIds -> AttemptRow \cup {Nil}]
    /\ answers \in [AttemptIds -> [LinkIds -> AnswerRow \cup {Nil}]]

(* Every column holds a value of its type, and every thread the state of   *)
(* one of the handlers; no handler step makes a row out of one that is not *)
(* there, or of another request's parameters.                              *)
TypeOK ==
    /\ TablesTypeOK
    /\ job \in [Workers -> Job]

-----------------------------------------------------------------------------
(* Where the jobs are.                                                     *)

Busy(w) == job[w].pc \notin {"idle", "done"}

\* The test a job of AttemptRestController works on.
TestOf(w) == IF job[w].req.op = "create" THEN job[w].req.test
             ELSE attempts[job[w].req.attempt].test

\* The job has passed the handler's check that the test is open.
Admitted(w) == job[w].pc \in {"dup", "insert", "sheet", "answers", "write",
                              "complete", "grade", "mark"}

\* The job has passed the check of the caller's token and block status.
Authorized(w) == Busy(w) /\ job[w].pc \notin {"row", "auth"}

\* The attempt a job works on: the one it names, or the one it has inserted.
AttemptOf(w) == IF job[w].req.op = "create" THEN job[w].attempt
                ELSE job[w].req.attempt

Marked(a) == attempts[a].completed /\ attempts[a].mark # NoMark

-----------------------------------------------------------------------------
(* Attempts: what holds however many requests of a user are in flight.     *)

(* create looks for an attempt and inserts one in two transactions, so two *)
(* requests can both find none (AttemptRestController.cpp:26-36).  No      *)
(* thread gets through twice: once a row exists every later look finds it, *)
(* and a student ends up with at most one attempt per thread.              *)
AttemptsBoundedByWorkers ==
    \A u \in Users, t \in Tests : Cardinality(RowsOf(u, t)) <= Cardinality(Workers)

(* finish answers 200 to the attempt's own student only when the attempt   *)
(* is completed and has a mark, although the two are saved in separate     *)
(* transactions and other finish requests may be anywhere in between.      *)
FinishOkMeansMarked ==
    \A w \in Workers :
        /\ job[w].pc = "done" /\ job[w].code = 200 /\ job[w].req.op = "finish"
        /\ attempts[job[w].req.attempt].user = job[w].req.subject
        => Marked(job[w].req.attempt)

(* As long as nobody sends add_quest, create answers 200 only when every   *)
(* question linked to the test has its row on the new attempt's sheet, in  *)
(* the linked version; a create that fails half-way has answered something *)
(* else.  (A question linked after create has read the links is missing.)  *)
CreateOkMeansFullSheet ==
    \A w \in Workers :
        job[w].pc = "done" /\ job[w].code = 200 /\ job[w].req.op = "create"
        => \A l \in LinkIds :
              links[l] # Nil /\ links[l].test = job[w].req.test
              => /\ answers[job[w].attempt][l] # Nil
                 /\ answers[job[w].attempt][l].quest = links[l].quest
                 /\ answers[job[w].attempt][l].version = links[l].version

(* add_quest takes any version number but set answers only the actual one  *)
(* (AttemptRestController.cpp:97-99): a question linked in another version *)
(* can never be answered, and no mark counts it.                           *)
MarkWithinAnswerable ==
    \A a \in AttemptIds :
        attempts[a] # Nil =>
            attempts[a].mark <= Cardinality({l \in LinkIds :
                /\ answers[a][l] # Nil
                /\ answers[a][l].version = ActualVersion[answers[a][l].quest]})

(* Every change of an attempt or of its sheet is a step of a request whose *)
(* token names the attempt's own student, whoever sends requests for it.   *)
OnlyOwnerWrites ==
    [][\A a \in AttemptIds :
          attempts'[a] # attempts[a] \/ answers'[a] # answers[a]
          => \E w \in Workers : /\ job'[w] # job[w] /\ Busy(w)
                                /\ job[w].req.subject = attempts'[a].user]_vars

(* An attempt is never removed, reassigned or reopened, a mark is never    *)
(* erased, and a mark appears only on an attempt already completed.        *)
AttemptsOnlyAdvance ==
    [][\A a \in AttemptIds :
          attempts[a] # Nil =>
              /\ attempts'[a] # Nil
              /\ attempts'[a].user = attempts[a].user
              /\ attempts'[a].test = attempts[a].test
              /\ attempts[a].completed => attempts'[a].completed
              /\ attempts[a].mark # NoMark => attempts'[a].mark # NoMark
              /\ attempts'[a].mark # attempts[a].mark => attempts[a].completed]_vars

(* A finish that dies after completing the attempt and before saving the   *)
(* mark leaves it completed without one.  Once no finish that read it open *)
(* is in flight, no request can ever mark it: a retry is refused.          *)
Orphaned(a) ==
    /\ attempts[a] # Nil /\ attempts[a].completed /\ attempts[a].mark = NoMark
    /\ \A w \in Workers :
          Busy(w) /\ job[w].req.op = "finish" /\ job[w].req.attempt = a
          => job[w].pc = "row" \/ job[w].completed

OrphanedForever == [][\A a \in AttemptIds : Orphaned(a) => Orphaned(a)']_vars

-----------------------------------------------------------------------------
(* Attempts, when each user waits for the answer to a request before       *)
(* sending the next one (Pipelined = FALSE).                               *)

SingleAttempt ==
    \A u \in Users, t \in Tests : Cardinality(RowsOf(u, t)) <= 1

(* The mark is the number of correct answers on the sheet as it stands: no *)
(* answer is accepted after the attempt was graded.                        *)
MarkMatchesAnswers ==
    \A a \in AttemptIds :
        attempts[a] # Nil /\ attempts[a].mark # NoMark
        => attempts[a].mark = Score(answers[a])

Lifecycle(a) == IF attempts[a] = Nil THEN "absent"
                ELSE IF ~attempts[a].completed THEN "open"
                ELSE IF attempts[a].mark = NoMark THEN "closed" ELSE "marked"

E == INSTANCE Exam WITH
        Slots <- LinkIds, Absent <- Nil, sheet <- answers,
        state <- [a \in AttemptIds |-> Lifecycle(a)],
        of <- [a \in AttemptIds |-> IF attempts[a] = Nil THEN Nil
                                    ELSE <<attempts[a].user, attempts[a].test>>],
        mark <- [a \in AttemptIds |-> IF attempts[a] = Nil THEN NoMark
                                      ELSE attempts[a].mark]

(* The handlers then implement the atomic examination of module Exam, even *)
(* when database calls fail and the server restarts.                       *)
ImplementsExam == E!Spec

-----------------------------------------------------------------------------
(* Test administration.                                                    *)

(* A question is unlinked only from a test that has an attempt, and        *)
(* add_quest wants one without (TestRestController.cpp:29-35, 72-75).  It  *)
(* looks for attempts and links in two transactions, so a question can be  *)
(* linked after the first attempt was opened; once such requests have      *)
(* drained, a taken test never gains a question.                           *)
QuestionsSettled(t) ==
    /\ Rows(t) # {}
    /\ \A w \in Workers : ~(job[w].pc = "link" /\ job[w].req.test = t)

QuestionsFollowAttempts ==
    [][\A t \in Tests :
          /\ Rows(t) = {} => \A l \in LinkIds : LinksOf(t)[l] # Nil => links'[l] = links[l]
          /\ QuestionsSettled(t) =>
                /\ QuestionsSettled(t)'
                /\ \A l \in LinkIds : links'[l] # Nil /\ links'[l].test = t
                                      => links'[l] = links[l]]_vars

(* Unlinking a question, or linking one, never touches a sheet that was    *)
(* handed out: rows are only added, by the create that opened the attempt, *)
(* and only their answer ever changes.                                     *)
SheetIsFixed ==
    [][\A a \in AttemptIds, l \in LinkIds :
          /\ answers[a][l] # Nil =>
                /\ answers'[a][l] # Nil
                /\ answers'[a][l].quest = answers[a][l].quest
                /\ answers'[a][l].version = answers[a][l].version
          /\ answers[a][l] = Nil /\ answers'[a][l] # Nil =>
                \E w \in Workers : /\ job[w].pc = "answers" /\ job[w].attempt = a
                                   /\ job'[w] # job[w]]_vars

(* A test that was closed, made inactive or deleted, still changes under  *)
(* the requests admitted before.  Once they have drained its attempts and  *)
(* sheets are frozen until it is opened again, and a deleted test is never *)
(* opened again.                                                           *)
Closed(t) ==
    /\ ~TestOpen(t)
    /\ \A w \in Workers : ~(Admitted(w) /\ TestOf(w) = t)

Frozen(t) ==
    /\ Rows(t)' = Rows(t)
    /\ \A a \in Rows(t) : attempts'[a] = attempts[a] /\ answers'[a] = answers[a]

ClosedTestIsFrozen ==
    [][\A t \in Tests : Closed(t) =>
          /\ Frozen(t)
          /\ Closed(t)' \/ (TestOpen(t)' /\ ~tests[t].deleted)]_vars

-----------------------------------------------------------------------------
(* Access.                                                                 *)

(* A request whose caller was blocked after the check still runs to its    *)
(* end.  Once those have drained a blocked user changes no table, until    *)
(* somebody else unblocks them.                                            *)
ShutOut(u) ==
    /\ blocked[u]
    /\ \A w \in Workers : ~(Authorized(w) /\ job[w].req.subject = u)

ShutOutUserChangesNothing ==
    [][\A u \in Users : ShutOut(u) =>
          /\ blocked'[u] => ShutOut(u)'
          /\ UNCHANGED dbVars \/ \E w \in Workers :
                /\ job'[w] # job[w] /\ job[w].req.subject # u
          /\ \A a \in AttemptIds :
                attempts[a] # Nil /\ attempts[a].user = u
                => attempts'[a] = attempts[a] /\ answers'[a] = answers[a]]_vars

(* add_user reads is_deleted and inserts in two transactions.  Once the    *)
(* additions in flight have drained, a deleted course gains no member.     *)
Disbanded(c) ==
    /\ c \in closedCourses
    /\ \A w \in Workers : ~(job[w].pc = "join" /\ job[w].req.course = c)

DisbandedCourseGainsNoMember ==
    [][\A c \in Courses : Disbanded(c) =>
          /\ Disbanded(c)'
          /\ \A u \in Users : <<u, c>> \in members' => <<u, c>> \in members]_vars

(* A user who is not (or no longer) a member of a course opens no attempt  *)
(* at its tests, except in a create that had already seen the membership;  *)
(* once those have drained only a new membership lets one through.         *)
Outsider(u, t) ==
    /\ <<u, CourseOf[t]>> \notin members
    /\ \A w \in Workers :
          Busy(w) /\ job[w].req.op = "create" /\ job[w].req.subject = u
          => job[w].pc \in {"auth", "member"} \/ job[w].req.test # t

OutsiderOpensNoAttempt ==
    [][\A u \in Users, t \in Tests : Outsider(u, t) =>
          /\ RowsOf(u, t)' = RowsOf(u, t)
          /\ Outsider(u, t)' \/ <<u, CourseOf[t]>> \in members']_vars

-----------------------------------------------------------------------------
(* Liveness, when database calls do not fail and every request names a     *)
(* test and a question that exist: another may end the process before the  *)
(* marks are in.                                                           *)

(* Every request is answered: no handler waits for another.                *)
EveryRequestAnswered == \A w \in Workers : job[w].pc # "idle" ~> job[w].pc = "idle"

(* An attempt that is completed gets its mark.                             *)
CompletedGetsMarked ==
    \A a \in AttemptIds :
        (attempts[a] # Nil /\ attempts[a].completed)
        ~> (attempts[a] # Nil /\ attempts[a].mark # NoMark)
=============================================================================
