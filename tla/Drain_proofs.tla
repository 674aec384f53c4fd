---------------------------- MODULE Drain_proofs ----------------------------
(***************************************************************************)
(* The handlers of the application server check and act in separate        *)
(* transactions.  What a check of a handler promises holds once the        *)
(* requests that were past it have drained: proved here for every number   *)
(* of threads and every choice of requests, failures and restarts.         *)
(***************************************************************************)
EXTENDS AttemptSafety_proofs

-----------------------------------------------------------------------------
(* What a step of thread w has checked to get where it goes.               *)

CreatePcs == {"dup", "insert", "sheet", "answers"}

Access(w) ==
    LET r == job[w].req
        p == job[w].pc
        n == job'[w].pc
    IN  /\ p \notin {"idle", "done"} /\ job'[w] # job[w] /\ n # "row"
        /\ p \in {"row", "auth"} /\ n \notin {"auth", "done"} => ~blocked[r.subject]
        /\ n = "auth" => p = "row"
        /\ n = "join" => r.op = "add_user" /\ r.course \notin closedCourses
        /\ r.op = "create" /\ p \in {"auth", "member"} =>
              n \in {"member", "done"} \/ <<r.subject, CourseOf[r.test]>> \in members

Editing(w) ==
    LET r == job[w].req
        n == job'[w].pc
    IN  /\ n = "link" => r.op = "add_quest" /\ Rows(r.test) = {}
        /\ n = "unlink" => r.op = "delete_quest" /\ Rows(r.test) # {}

Sitting(w) ==
    LET r == job[w].req
        p == job[w].pc
        n == job'[w].pc
    IN  /\ p = "row" => n \in {"auth", "done"}
        /\ p = "row" /\ n = "auth" => job'[w].completed = attempts[r.attempt].completed
        /\ p # "row" /\ n # "done" => job'[w].completed = job[w].completed
        /\ n \in CreatePcs => r.op = "create"
        /\ n = "dup" => TestOpen(r.test)
        /\ n \in CreatePcs \ {"dup"} => p \in CreatePcs
        /\ n = "answers" => job'[w].attempt = job[w].attempt /\ p \in {"sheet", "answers"}
        /\ n = "sheet" => attempts'[job'[w].attempt].test = r.test
        /\ n = "write" => r.op = "set"
        /\ n = "complete" => r.op = "finish"
        /\ n \in {"write", "complete"} => /\ p # "row" /\ ~job[w].completed
                                          /\ TestOpen(attempts[r.attempt].test)
        /\ n = "grade" => r.op = "finish" /\ p = "complete"
        /\ n = "mark" => r.op = "finish" /\ p = "grade"

Guarded(w) == Moves(w) /\ Access(w) /\ Editing(w) /\ Sitting(w)

LEMMA Goes ==
    ASSUME JobsInv, NEW w \in Workers, NEW pc \in Pcs, Goto(w, pc)
    PROVE  /\ Moves(w) /\ job'[w].pc = pc /\ job'[w].attempt = job[w].attempt
           /\ job'[w].completed = job[w].completed
  BY JobFacts, GotoJob DEF JobsInv, Moves

LEMMA Replies ==
    ASSUME JobsInv, NEW w \in Workers, NEW code \in Codes, Reply(w, code),
           job[w].pc \notin {"idle", "done"}
    PROVE  Guarded(w)
<1>1. Moves(w) /\ job'[w].pc = "done"
  BY ReplyMoves DEF JobsInv
<1> QED
  BY <1>1 DEF Guarded, Access, Editing, Sitting, CreatePcs

LEMMA AuthorizeGuarded ==
    ASSUME JobsInv, NEW w \in Workers, NEW op, NEW permission, NEW own,
           NEW next \in {"vacant", "taken", "status", "retire",
                         "block", "course", "leave", "drop"},
           Authorize(w, op, permission, own, next), op # "create"
    PROVE  Guarded(w)
<1> DEFINE u == job[w].req.subject
<1>1. PICK code \in ValidateWithBlockHandle(u, permission \in Grants[u]), isOwn \in own :
         IF code = 200 \/ (code = 403 /\ isOwn)
         THEN Goto(w, next) ELSE Reply(w, code)
  BY DEF Authorize
<1>2. code \in Codes
  BY ValidateCodes
<1>3. job[w].pc = "auth" /\ job[w].req.op = op
  BY DEF Authorize, At
<1>4. CASE code = 200 \/ (code = 403 /\ isOwn)
  <2>1. ~blocked[u]
    BY <1>4 DEF ValidateWithBlockHandle
  <2>2. Moves(w) /\ job'[w].pc = next /\ job'[w].completed = job[w].completed
    BY <1>1, <1>4, Goes DEF Pcs, TestAdminPcs, MembershipPcs
  <2> QED
    BY <1>3, <2>1, <2>2 DEF Guarded, Access, Editing, Sitting, CreatePcs
<1>5. CASE ~(code = 200 \/ (code = 403 /\ isOwn))
  BY <1>1, <1>2, <1>3, <1>5, Replies
<1> QED
  BY <1>4, <1>5

LEMMA TestAdminGuarded ==
    ASSUME JobsInv, NEW w \in Workers, TestAdminStep(w) PROVE Guarded(w)
<1> USE DEF At
<1>1. CASE AddQuestAuth(w)
  BY <1>1, AuthorizeGuarded DEF AddQuestAuth
<1>2. CASE AddQuestCheck(w)
  <2>1. CASE Rows(job[w].req.test) = {}
    <3>1. Goto(w, "link")
      BY <1>2, <2>1 DEF AddQuestCheck
    <3> QED
      BY <1>2, <2>1, <3>1, Goes DEF AddQuestCheck, Pcs, TestAdminPcs,
         Guarded, Access, Editing, Sitting, CreatePcs
  <2>2. CASE Rows(job[w].req.test) # {}
    BY <1>2, <2>2, Replies DEF AddQuestCheck, Codes
  <2> QED
    BY <2>1, <2>2
<1>3. CASE AddQuestLink(w)
  BY <1>3, CommitCodesType, Replies DEF AddQuestLink
<1>4. CASE DeleteQuestAuth(w)
  BY <1>4, AuthorizeGuarded DEF DeleteQuestAuth
<1>5. CASE DeleteQuestCheck(w)
  <2>1. CASE Rows(job[w].req.test) # {}
    <3>1. Goto(w, "unlink")
      BY <1>5, <2>1 DEF DeleteQuestCheck
    <3> QED
      BY <1>5, <2>1, <3>1, Goes DEF DeleteQuestCheck, Pcs, TestAdminPcs,
         Guarded, Access, Editing, Sitting, CreatePcs
  <2>2. CASE Rows(job[w].req.test) = {}
    BY <1>5, <2>2, Replies DEF DeleteQuestCheck, Codes
  <2> QED
    BY <2>1, <2>2
<1>6. CASE DeleteQuestUnlink(w)
  BY <1>6, CommitCodesType, Replies DEF DeleteQuestUnlink
<1>7. CASE SetTestStatusAuth(w)
  BY <1>7, AuthorizeGuarded DEF SetTestStatusAuth
<1>8. CASE SetTestStatusWrite(w)
  BY <1>8, CommitCodesType, Replies DEF SetTestStatusWrite
<1>9. CASE DeleteTestAuth(w)
  BY <1>9, AuthorizeGuarded DEF DeleteTestAuth
<1>10. CASE DeleteTestWrite(w)
  BY <1>10, CommitCodesType, Replies DEF DeleteTestWrite
<1> QED
  BY <1>1, <1>2, <1>3, <1>4, <1>5, <1>6, <1>7, <1>8, <1>9, <1>10 DEF TestAdminStep

LEMMA MembershipGuarded ==
    ASSUME JobsInv, NEW w \in Workers, MembershipStep(w) PROVE Guarded(w)
<1> USE DEF At
<1>1. CASE SetBlockAuth(w) \/ AddUserAuth(w) \/ DeleteUserAuth(w) \/ DeleteCourseAuth(w)
  BY <1>1, AuthorizeGuarded DEF SetBlockAuth, AddUserAuth, DeleteUserAuth, DeleteCourseAuth
<1>2. CASE AddUserCheck(w)
  <2>1. CASE job[w].req.course \notin closedCourses
    <3>1. Goto(w, "join")
      BY <1>2, <2>1 DEF AddUserCheck
    <3> QED
      BY <1>2, <2>1, <3>1, Goes DEF AddUserCheck, Pcs, MembershipPcs,
         Guarded, Access, Editing, Sitting, CreatePcs
  <2>2. CASE job[w].req.course \in closedCourses
    BY <1>2, <2>2, Replies DEF AddUserCheck, Codes
  <2> QED
    BY <2>1, <2>2
<1>3. CASE SetBlockWrite(w) \/ AddUserJoin(w) \/ DeleteUserLeave(w) \/ DeleteCourseDrop(w)
  BY <1>3, CommitCodesType, Replies
     DEF SetBlockWrite, AddUserJoin, DeleteUserLeave, DeleteCourseDrop
<1> QED
  BY <1>1, <1>2, <1>3 DEF MembershipStep

LEMMA CreateGuarded ==
    ASSUME JobsInv, NEW w \in Workers, CreateStep(w) PROVE Guarded(w)
<1> DEFINE r == job[w].req
<1> USE DEF At
<1>a. TypeOK /\ job[w] \in Job
  BY JobFacts DEF JobsInv
<1>b. ASSUME job[w].pc \notin {"idle", "done"}, Reply(w, 200) \/ Reply(w, 403)
      PROVE  Guarded(w)
  BY <1>b, Replies DEF Codes
<1>1. CASE CreateAuth(w)
  <2>1. CASE Goto(w, "member") /\ ~blocked[r.subject]
    BY <1>1, <2>1, Goes DEF CreateAuth, Pcs, AttemptPcs,
       Guarded, Access, Editing, Sitting, CreatePcs
  <2> QED
    BY <1>1, <1>b, <2>1 DEF CreateAuth, ValidateWithBlockHandle
<1>2. CASE CreateMember(w)
  <2>1. CASE Goto(w, "tcheck") /\ <<r.subject, CourseOf[r.test]>> \in members
    BY <1>2, <2>1, Goes DEF CreateMember, Pcs, AttemptPcs,
       Guarded, Access, Editing, Sitting, CreatePcs
  <2> QED
    BY <1>2, <1>b, <2>1 DEF CreateMember, MatchTestIdSubscriber
<1>3. CASE CreateCheckTest(w)
  <2>1. CASE Goto(w, "dup") /\ TestOpen(r.test)
    BY <1>3, <2>1, Goes DEF CreateCheckTest, Pcs, AttemptPcs,
       Guarded, Access, Editing, Sitting, CreatePcs
  <2> QED
    BY <1>3, <1>b, <2>1 DEF CreateCheckTest
<1>4. CASE CreateCheckDuplicate(w)
  <2>1. CASE Goto(w, "insert")
    BY <1>4, <2>1, Goes DEF CreateCheckDuplicate, Pcs, AttemptPcs,
       Guarded, Access, Editing, Sitting, CreatePcs
  <2> QED
    BY <1>4, <1>b, <2>1 DEF CreateCheckDuplicate
<1>5. CASE CreateInsert(w)
  <2>1. PICK a \in AttemptIds :
           /\ attempts' = [attempts EXCEPT ![a] =
                 [user |-> r.user, test |-> r.test,
                  completed |-> FALSE, mark |-> NoMark]]
           /\ job' = [job EXCEPT ![w].pc = "sheet", ![w].attempt = a]
    BY <1>5 DEF CreateInsert
  <2>2. /\ Moves(w) /\ job'[w].pc = "sheet" /\ job'[w].attempt = a
        /\ job'[w].completed = job[w].completed
    BY <1>a, <2>1 DEF Moves, TypeOK, Job
  <2>3. attempts'[a].test = r.test
    BY <1>a, <2>1 DEF TypeOK, TablesTypeOK
  <2> QED
    BY <1>5, <2>2, <2>3 DEF CreateInsert, Guarded, Access, Editing, Sitting, CreatePcs
<1>6. CASE CreateReadLinks(w)
  <2>1. /\ Moves(w) /\ job'[w].pc = "answers" /\ job'[w].attempt = job[w].attempt
        /\ job'[w].completed = job[w].completed
    BY <1>6, <1>a DEF CreateReadLinks, Moves, TypeOK, Job
  <2> QED
    BY <1>6, <2>1 DEF CreateReadLinks, Guarded, Access, Editing, Sitting, CreatePcs
<1>7. CASE CreateInsertAnswer(w)
  <2>1. PICK l \in LinkIds : job[w].todo[l] # Nil /\ job' = [job EXCEPT ![w].todo[l] = Nil]
    BY <1>7 DEF CreateInsertAnswer
  <2>2. /\ Moves(w) /\ job'[w].pc = "answers" /\ job'[w].attempt = job[w].attempt
        /\ job'[w].completed = job[w].completed /\ job'[w] # job[w]
    BY <1>7, <1>a, <2>1 DEF CreateInsertAnswer, Moves, TypeOK, Job
  <2> QED
    BY <1>7, <2>2 DEF CreateInsertAnswer, Guarded, Access, Editing, Sitting, CreatePcs
<1>8. CASE CreateReply(w)
  BY <1>8, <1>b DEF CreateReply
<1> QED
  BY <1>1, <1>2, <1>3, <1>4, <1>5, <1>6, <1>7, <1>8 DEF CreateStep

\* What set and finish have in common.
LEMMA SharedGuarded ==
    ASSUME JobsInv, NEW w \in Workers, NEW op \in {"set", "finish"},
           NEW missing \in Codes, NEW next,
           op = "set" => next = "write", op = "finish" => next = "complete",
           ReadAttempt(w, op, missing) \/ AuthAttempt(w, op) \/ CheckAttempt(w, op, next)
    PROVE  Guarded(w)
<1> DEFINE r == job[w].req
<1> USE DEF At
<1>a. TypeOK /\ job[w] \in Job
  BY JobFacts DEF JobsInv
<1>1. CASE ReadAttempt(w, op, missing)
  <2>1. CASE job' = [job EXCEPT ![w].pc = "auth", ![w].completed = attempts[r.attempt].completed]
    <3>1. /\ Moves(w) /\ job'[w].pc = "auth"
          /\ job'[w].completed = attempts[r.attempt].completed
      BY <1>a, <2>1 DEF Moves, TypeOK, Job
    <3> QED
      BY <1>1, <3>1 DEF ReadAttempt, Guarded, Access, Editing, Sitting, CreatePcs
  <2> QED
    BY <1>1, <2>1, Replies DEF ReadAttempt
<1>2. CASE AuthAttempt(w, op)
  <2>1. PICK code \in ValidateWithBlockHandle(r.subject, TRUE) :
           IF code = 200 /\ attempts[r.attempt].user = r.subject
           THEN Goto(w, "tcheck") ELSE Reply(w, code)
    BY <1>2 DEF AuthAttempt
  <2>2. CASE code = 200 /\ attempts[r.attempt].user = r.subject
    <3>1. ~blocked[r.subject]
      BY <2>2 DEF ValidateWithBlockHandle
    <3> QED
      BY <1>2, <2>1, <2>2, <3>1, Goes DEF AuthAttempt, Pcs, AttemptPcs,
         Guarded, Access, Editing, Sitting, CreatePcs
  <2>3. CASE ~(code = 200 /\ attempts[r.attempt].user = r.subject)
    BY <1>2, <2>1, <2>3, ValidateCodes, Replies DEF AuthAttempt
  <2> QED
    BY <2>2, <2>3
<1>3. CASE CheckAttempt(w, op, next)
  <2>1. CASE TestOpen(attempts[r.attempt].test) /\ ~job[w].completed
    <3>1. Goto(w, next) /\ next \in Pcs
      BY <1>3, <2>1 DEF CheckAttempt, Pcs, AttemptPcs
    <3>2. /\ Moves(w) /\ job'[w].pc = next /\ job'[w].completed = job[w].completed
      BY <3>1, Goes
    <3> QED
      BY <1>3, <2>1, <3>2 DEF CheckAttempt, Guarded, Access, Editing, Sitting, CreatePcs
  <2> QED
    BY <1>3, <2>1, Replies DEF CheckAttempt, Codes
<1> QED
  BY <1>1, <1>2, <1>3

LEMMA SetGuarded ==
    ASSUME JobsInv, NEW w \in Workers, SetStep(w) PROVE Guarded(w)
<1>1. CASE SetWrite(w)
  BY <1>1, SetCodesType, Replies DEF SetWrite, At
<1> QED
  BY <1>1, SharedGuarded DEF SetStep, Codes

LEMMA FinishGuarded ==
    ASSUME JobsInv, NEW w \in Workers, FinishStep(w) PROVE Guarded(w)
<1> USE DEF At
<1>a. TypeOK /\ job[w] \in Job
  BY JobFacts DEF JobsInv
<1>1. CASE FinishComplete(w)
  BY <1>1, Goes DEF FinishComplete, Pcs, AttemptPcs,
     Guarded, Access, Editing, Sitting, CreatePcs
<1>2. CASE FinishGrade(w)
  <2>1. Moves(w) /\ job'[w].pc = "mark" /\ job'[w].completed = job[w].completed
    BY <1>2, <1>a DEF FinishGrade, Moves, TypeOK, Job
  <2> QED
    BY <1>2, <2>1 DEF FinishGrade, Guarded, Access, Editing, Sitting, CreatePcs
<1>3. CASE FinishMark(w)
  BY <1>3, CommitCodesType, Replies DEF FinishMark
<1> QED
  BY <1>1, <1>2, <1>3, SharedGuarded DEF FinishStep, Codes

LEMMA StepsGuarded ==
    ASSUME JobsInv, NEW w \in Workers, Step(w) PROVE Guarded(w)
  BY TestAdminGuarded, MembershipGuarded, CreateGuarded, SetGuarded, FinishGuarded
     DEF Step, AttemptStep

\* The steps that change a table.
EditsTest(w) == AddQuestLink(w) \/ DeleteQuestUnlink(w)
                \/ SetTestStatusWrite(w) \/ DeleteTestWrite(w)
EditsAccess(w) == SetBlockWrite(w) \/ AddUserJoin(w) \/ DeleteUserLeave(w)
                  \/ DeleteCourseDrop(w)
EditsAttempt(w) == CreateInsert(w) \/ CreateInsertAnswer(w) \/ SetWrite(w)
                   \/ FinishComplete(w) \/ FinishMark(w)

LEMMA StepWrites ==
    ASSUME NEW w, Step(w)
    PROVE  UNCHANGED dbVars \/ EditsTest(w) \/ EditsAccess(w) \/ EditsAttempt(w)
<1>1. CASE CreateStep(w)
  BY <1>1 DEF CreateStep, EditsAttempt, CreateAuth, CreateMember, CreateCheckTest,
     CreateCheckDuplicate, CreateReadLinks, CreateReply
<1>2. CASE SetStep(w) \/ FinishStep(w)
  BY <1>2 DEF SetStep, FinishStep, EditsAttempt, ReadAttempt, AuthAttempt,
     CheckAttempt, FinishGrade
<1>3. CASE TestAdminStep(w)
  BY <1>3 DEF TestAdminStep, EditsTest, AddQuestAuth, AddQuestCheck, DeleteQuestAuth,
     DeleteQuestCheck, SetTestStatusAuth, DeleteTestAuth, Authorize
<1>4. CASE MembershipStep(w)
  BY <1>4 DEF MembershipStep, EditsAccess, SetBlockAuth, AddUserAuth,
     AddUserCheck, DeleteUserAuth, DeleteCourseAuth, Authorize
<1> QED
  BY <1>1, <1>2, <1>3, <1>4 DEF Step, AttemptStep

-----------------------------------------------------------------------------
(* The other steps change no table, and leave each thread where it is, at  *)
(* the beginning of a handler or at its end.                               *)

Fresh(v) == \/ job'[v].pc \in {"idle", "done"}
            \/ job'[v].pc = "row" /\ job'[v].req.op \in {"set", "finish"}
            \/ job'[v].pc = "auth" /\ job'[v].req.op \notin {"set", "finish"}

Calm == UNCHANGED dbVars /\ \A v \in Workers : job'[v] = job[v] \/ Fresh(v)

LEMMA NextCases ==
    ASSUME JobsInv, [MortalNext]_vars PROVE Calm \/ \E w \in Workers : Step(w)
<1>a. TypeOK
  BY DEF JobsInv, TypeInv
<1>1. ASSUME NEW w \in Workers, Receive(w) PROVE Calm
  <2>1. PICK r \in Requests :
           job' = [job EXCEPT ![w] = [IdleJob EXCEPT !.pc = Entry(r), !.req = r]]
    BY <1>1 DEF Receive
  <2>2. /\ job'[w] = [IdleJob EXCEPT !.pc = Entry(r), !.req = r]
        /\ \A v \in Workers : v # w => job'[v] = job[v]
    BY <1>a, <2>1 DEF TypeOK
  <2>3. Fresh(w)
    BY <2>2 DEF IdleJob, Entry, Fresh
  <2> QED
    BY <1>1, <2>2, <2>3 DEF Receive, Calm
<1>2. ASSUME NEW w \in Workers, Abort(w) PROVE Calm
  <2>1. Moves(w) /\ job'[w].pc = "done"
    BY <1>2, ReplyMoves DEF Abort, JobsInv, Codes
  <2> QED
    BY <1>2, <2>1 DEF Abort, Calm, Moves, Fresh
<1>3. ASSUME NEW w \in Workers, Respond(w) PROVE Calm
  BY <1>3, <1>a DEF Respond, Calm, Fresh, TypeOK, IdleJob
<1>4. CASE Stop
  BY <1>4 DEF Stop, Calm, Fresh, IdleJob
<1>5. CASE UNCHANGED vars
  BY <1>5 DEF vars, dbVars, accessVars, testVars, examVars, Calm
<1> QED
  BY <1>1, <1>2, <1>3, <1>4, <1>5, MortalCases

-----------------------------------------------------------------------------
(* The inductive invariant: past a check a handler is where the check      *)
(* leads, with what it has read.                                           *)

InOrder(w) ==
    LET r == job[w].req
        p == job[w].pc
    IN  /\ p \in CreatePcs => r.op = "create"
        /\ p \in {"sheet", "answers"} => attempts[job[w].attempt].test = r.test
        /\ p = "write" => r.op = "set"
        /\ p \in {"complete", "grade", "mark"} => r.op = "finish"
        /\ p \in {"write", "complete", "grade", "mark"} => ~job[w].completed
        /\ p = "unlink" => Rows(r.test) # {}

DrainInv == JobsInv /\ \A w \in Workers : InOrder(w)

LEMMA RowsStay ==
    ASSUME \A a \in AttemptIds : Advances(a)
    PROVE  \A t : Rows(t) \subseteq Rows(t)'
  BY DEF Rows, Advances

LEMMA OthersInOrder ==
    ASSUME DrainInv, NEW v \in Workers, job'[v] = job[v],
           \A a \in AttemptIds : Advances(a)
    PROVE  InOrder(v)'
<1>1. /\ JobWellFormed(v) /\ job[v] \in Job /\ InOrder(v)
      /\ job[v].pc # "idle" => job[v].req # Nil
  BY JobFacts DEF DrainInv, JobsInv
<1>2. job[v].pc \in {"sheet", "answers"} =>
         /\ job[v].attempt \in AttemptIds /\ attempts[job[v].attempt] # Nil
         /\ attempts'[job[v].attempt].test = attempts[job[v].attempt].test
  BY <1>1 DEF InOrder, CreatePcs, JobWellFormed, Job, Advances
<1> QED
  BY <1>1, <1>2, RowsStay DEF InOrder

LEMMA MoverInOrder ==
    ASSUME DrainInv, NEW w \in Workers, Guarded(w), \A a \in AttemptIds : Advances(a)
    PROVE  InOrder(w)'
<1>1. /\ JobWellFormed(w) /\ job[w] \in Job /\ InOrder(w) /\ job'[w].req = job[w].req
      /\ job[w].pc # "idle" => job[w].req # Nil
  BY JobFacts DEF DrainInv, JobsInv, Guarded, Moves
<1>2. job[w].pc \in {"sheet", "answers"} =>
         attempts'[job[w].attempt].test = job[w].req.test
  BY <1>1 DEF InOrder, CreatePcs, JobWellFormed, Job, Advances
<1>3. job'[w].pc = "unlink" => Rows(job[w].req.test)' # {}
  BY <1>1 DEF Guarded, Editing, Rows, Advances
<1>4. job'[w].pc \in {"sheet", "answers"} =>
         attempts'[job'[w].attempt].test = job[w].req.test
  BY <1>2 DEF Guarded, Sitting
<1>5. job'[w].pc \in {"complete", "grade", "mark"} => job[w].req.op = "finish"
  BY DEF Guarded, Sitting
<1>6. job'[w].pc \in {"write", "complete", "grade", "mark"} => ~job'[w].completed
  BY <1>1 DEF Guarded, Sitting, InOrder
<1> QED
  BY <1>1, <1>3, <1>4, <1>5, <1>6 DEF Guarded, Sitting, InOrder

LEMMA NextDrainInv == ASSUME DrainInv, [MortalNext]_vars PROVE DrainInv'
<1>1. JobsInv' /\ \A a \in AttemptIds : Advances(a)
  BY NextJobsInv DEF DrainInv
<1>2. CASE Calm
  <2> SUFFICES ASSUME NEW v \in Workers, Fresh(v) PROVE InOrder(v)'
    BY <1>1, <1>2, OthersInOrder DEF Calm, DrainInv
  <2> QED
    BY DEF Fresh, InOrder, CreatePcs
<1>3. ASSUME NEW w \in Workers, Step(w) PROVE DrainInv'
  <2>1. Guarded(w)
    BY <1>3, StepsGuarded DEF DrainInv
  <2> QED
    BY <1>1, <2>1, OthersInOrder, MoverInOrder DEF DrainInv, Guarded, Moves
<1> QED
  BY <1>2, <1>3, NextCases DEF DrainInv

LEMMA InitDrainInv == Init => DrainInv
<1> SUFFICES ASSUME Init PROVE \A w \in Workers : InOrder(w)
  BY InitJobsInv DEF DrainInv
<1> QED
  BY DEF Init, IdleJob, InOrder, CreatePcs

THEOREM DrainInvariant == MortalSpec => []DrainInv
<1>1. DrainInv /\ [MortalNext]_vars => DrainInv'
  BY NextDrainInv
<1> QED
  BY <1>1, InitDrainInv, PTL DEF MortalSpec

-----------------------------------------------------------------------------
(* Who changes an attempt or its sheet, seen from the attempt.             *)

Advanced == \A a \in AttemptIds : Advances(a)

LEMMA StepFacts ==
    ASSUME DrainInv, NEW w \in Workers, Step(w)
    PROVE  /\ JobsInv /\ TypeInv /\ TypeOK /\ JobSafe(w) /\ JobWellFormed(w) /\ InOrder(w)
           /\ job[w] \in Job /\ job[w].req \in Request /\ job[w].req # Nil
           /\ Guarded(w) /\ Advanced
<1>1. JobsInv /\ JobSafe(w) /\ InOrder(w)
  BY DEF DrainInv, JobsInv
<1>2. Guarded(w) /\ Advanced
  BY <1>1, StepsGuarded, StepsEffect DEF StepEffect, Advanced
<1>3. job[w].pc # "idle"
  BY <1>2 DEF Guarded, Access
<1> QED
  BY <1>1, <1>2, <1>3, JobFacts DEF JobsInv

LEMMA ChangeIsAdmitted ==
    ASSUME DrainInv, NEW w \in Workers, Step(w), NEW a \in AttemptIds, Changed(a)
    PROVE  /\ Admitted(w) /\ attempts'[a].test = TestOf(w) /\ attempts'[a] # Nil
           /\ attempts[a] # Nil /\ attempts'[a] # attempts[a] =>
                 job[w].pc \in {"complete", "mark"} /\ job[w].req.attempt = a
           /\ attempts[a] = Nil => job[w].pc = "insert"
<1> DEFINE r == job[w].req
<1> USE DEF At
<1>a. /\ TypeOK /\ InOrder(w) /\ JobWellFormed(w) /\ job[w] \in Job /\ Advances(a)
      /\ r \in Request /\ r # Nil /\ TypeInv'
  BY StepFacts, NextTypeInv DEF Advanced, MortalNext, Next
<1>b. attempts'[a] \in AttemptRow \cup {Nil}
  BY <1>a DEF TypeInv, TypeOK, TablesTypeOK
<1>1. CASE CreateInsert(w)
  <2>1. PICK b \in AttemptIds :
           /\ attempts[b] = Nil
           /\ attempts' = [attempts EXCEPT ![b] =
                 [user |-> r.user, test |-> r.test,
                  completed |-> FALSE, mark |-> NoMark]]
    BY <1>1 DEF CreateInsert
  <2>2. job[w].pc = "insert" /\ r.op = "create" /\ answers' = answers
    BY <1>1 DEF CreateInsert
  <2>3. a = b
    BY <1>a, <2>1, <2>2 DEF Changed, TypeOK, TablesTypeOK
  <2>4. attempts'[a] = [user |-> r.user, test |-> r.test,
                        completed |-> FALSE, mark |-> NoMark]
    BY <1>a, <2>1, <2>3 DEF TypeOK, TablesTypeOK
  <2>5. [user |-> r.user, test |-> r.test, completed |-> FALSE, mark |-> NoMark] # Nil
    <3>1. [user |-> r.user, test |-> r.test, completed |-> FALSE, mark |-> NoMark]
          \in AttemptRow
      BY <1>a, <2>2, RequestFields DEF AttemptRow
    <3> QED
      BY <3>1, ConstantsAssumption
  <2> QED
    BY <2>1, <2>2, <2>3, <2>4, <2>5 DEF Admitted, TestOf
<1>2. CASE CreateInsertAnswer(w)
  <2>1. job[w].pc = "answers" /\ r.op = "create" /\ attempts' = attempts
    BY <1>2 DEF CreateInsertAnswer
  <2>2. \A b \in AttemptIds : b # job[w].attempt => answers'[b] = answers[b]
    BY <1>a, <1>2 DEF CreateInsertAnswer, TypeOK, TablesTypeOK
  <2>3. a = job[w].attempt
    BY <2>1, <2>2 DEF Changed
  <2> QED
    BY <1>a, <2>1, <2>3 DEF Admitted, TestOf, InOrder, JobWellFormed
<1>3. CASE SetWrite(w) \/ FinishComplete(w) \/ FinishMark(w)
  <2>1. /\ job[w].pc \in {"write", "complete", "mark"} /\ r.op \in {"set", "finish"}
        /\ job[w].pc = "write" => attempts' = attempts
    BY <1>3 DEF SetWrite, FinishComplete, FinishMark
  <2>2. \A b \in AttemptIds : b # r.attempt =>
           attempts'[b] = attempts[b] /\ answers'[b] = answers[b]
    BY <1>3, <1>a DEF SetWrite, FinishComplete, FinishMark, TypeOK, TablesTypeOK
  <2>3. a = r.attempt
    BY <2>2 DEF Changed
  <2>4. attempts[a] # Nil
    BY <1>a, <2>1, <2>3 DEF JobWellFormed
  <2> QED
    BY <1>a, <2>1, <2>3, <2>4 DEF Admitted, TestOf, Advances
<1>4. CASE UNCHANGED dbVars \/ EditsTest(w) \/ EditsAccess(w)
  BY <1>4 DEF Changed, dbVars, examVars, EditsTest, EditsAccess, AddQuestLink,
     DeleteQuestUnlink, SetTestStatusWrite, DeleteTestWrite, SetBlockWrite,
     AddUserJoin, DeleteUserLeave, DeleteCourseDrop
<1> QED
  BY <1>1, <1>2, <1>3, <1>4, StepWrites DEF EditsAttempt

LEMMA CalmChangesNothing ==
    ASSUME Calm PROVE UNCHANGED dbVars /\ \A a \in AttemptIds : ~Changed(a)
  BY DEF Calm, Changed, dbVars, examVars

-----------------------------------------------------------------------------
(* Orphaned attempts.  A finish in flight may have read the attempt before *)
(* it was completed; the others have read that it is completed and are     *)
(* refused.                                                                *)

LEMMA OrphanedStep ==
    ASSUME DrainInv, NEW w \in Workers, Step(w), NEW a \in AttemptIds, Orphaned(a)
    PROVE  Orphaned(a)'
<1> DEFINE r == job[w].req
<1>a. /\ InOrder(w) /\ Guarded(w) /\ attempts[a] # Nil /\ Advances(a)
      /\ job'[w].req = r
  BY StepFacts DEF Orphaned, Advanced, Guarded, Moves
<1>1. attempts'[a] = attempts[a]
  <2> SUFFICES ASSUME attempts'[a] # attempts[a] PROVE FALSE
    OBVIOUS
  <2>1. job[w].pc \in {"complete", "mark"} /\ r.attempt = a
    BY <1>a, ChangeIsAdmitted DEF Changed
  <2> QED
    BY <1>a, <2>1 DEF InOrder, Orphaned, Busy
<1>2. ASSUME NEW v \in Workers, Busy(v)', job'[v].req.op = "finish",
             job'[v].req.attempt = a
      PROVE  job'[v].pc = "row" \/ job'[v].completed
  <2>1. CASE v # w
    BY <1>a, <1>2, <2>1 DEF Orphaned, Guarded, Moves, Busy
  <2>2. CASE v = w
    BY <1>a, <1>2, <2>2 DEF Orphaned, Guarded, Access, Sitting, Busy
  <2> QED
    BY <2>1, <2>2
<1> QED
  BY <1>a, <1>1, <1>2 DEF Orphaned, Busy

LEMMA CalmOrphaned ==
    ASSUME Calm, NEW a \in AttemptIds, Orphaned(a) PROVE Orphaned(a)'
<1>1. attempts' = attempts
  BY CalmChangesNothing DEF dbVars, examVars
<1>2. ASSUME NEW v \in Workers, Busy(v)', job'[v].req.op = "finish",
             job'[v].req.attempt = a
      PROVE  job'[v].pc = "row" \/ job'[v].completed
  BY <1>2 DEF Calm, Fresh, Orphaned, Busy
<1> QED
  BY <1>1, <1>2 DEF Orphaned, Busy

LEMMA MortalOrphansStay == MortalSpec => OrphanedForever
<1>1. ASSUME DrainInv, [MortalNext]_vars, NEW a \in AttemptIds, Orphaned(a)
      PROVE  Orphaned(a)'
  BY <1>1, NextCases, CalmOrphaned, OrphanedStep DEF DrainInv
<1>2. DrainInv /\ [MortalNext]_vars =>
         [\A a \in AttemptIds : Orphaned(a) => Orphaned(a)']_vars
  BY <1>1
<1> QED
  BY <1>2, DrainInvariant, PTL DEF MortalSpec, OrphanedForever

(* An attempt completed and not marked, with no finish in flight that read *)
(* it open (AttemptRestController.cpp:133), is never marked by any request *)
(* that follows: a retry cannot make up for a finish that failed.          *)
THEOREM OrphansStay == Spec => OrphanedForever
  BY MortalOrphansStay, SpecIsMortal, PTL

-----------------------------------------------------------------------------
(* Questions.                                                              *)

Linking(t) ==
    /\ Rows(t) = {} => \A l \in LinkIds : LinksOf(t)[l] # Nil => links'[l] = links[l]
    /\ QuestionsSettled(t) =>
          /\ QuestionsSettled(t)'
          /\ \A l \in LinkIds : links'[l] # Nil /\ links'[l].test = t
                                => links'[l] = links[l]

LEMMA LinkingStep ==
    ASSUME DrainInv, NEW w \in Workers, Step(w), NEW t \in Tests PROVE Linking(t)
<1> DEFINE r == job[w].req
<1> USE DEF At
<1>a. /\ TypeOK /\ InOrder(w) /\ Guarded(w) /\ Advanced /\ job'[w].req = r
  BY StepFacts DEF Guarded, Moves
<1>1. QuestionsSettled(t) => QuestionsSettled(t)'
  <2>1. Rows(t) # {} => Rows(t)' # {}
    BY <1>a, RowsStay DEF Advanced
  <2>2. ASSUME QuestionsSettled(t), NEW v \in Workers, job'[v].pc = "link", job'[v].req.test = t
        PROVE  FALSE
    BY <1>a, <2>2 DEF QuestionsSettled, Guarded, Moves, Editing
  <2> QED
    BY <2>1, <2>2 DEF QuestionsSettled
<1>2. CASE AddQuestLink(w)
  <2>1. PICK l \in LinkIds :
           /\ links[l] = Nil
           /\ links' = [links EXCEPT ![l] = [test |-> r.test, quest |-> r.quest,
                                             version |-> r.version]]
    BY <1>2 DEF AddQuestLink
  <2>2. links'[l].test = r.test /\ \A k \in LinkIds : k # l => links'[k] = links[k]
    BY <1>a, <2>1 DEF TypeOK, TablesTypeOK
  <2>3. QuestionsSettled(t) => r.test # t
    BY <1>2 DEF AddQuestLink, QuestionsSettled
  <2>4. \A k \in LinkIds : LinksOf(t)[k] # Nil => k # l
    BY <2>1 DEF LinksOf
  <2> QED
    BY <1>1, <2>2, <2>3, <2>4 DEF Linking
<1>3. CASE DeleteQuestUnlink(w)
  <2>1. \A l \in LinkIds : links'[l] = links[l] \/ (links'[l] = Nil /\ links[l].test = r.test)
    BY <1>3 DEF DeleteQuestUnlink
  <2>2. Rows(r.test) # {}
    BY <1>3, <1>a DEF DeleteQuestUnlink, InOrder
  <2>3. \A l \in LinkIds : LinksOf(t)[l] # Nil => links[l].test = t
    BY DEF LinksOf
  <2> QED
    BY <1>1, <2>1, <2>2, <2>3 DEF Linking
<1>4. CASE links' = links
  BY <1>1, <1>4 DEF Linking
<1> QED
  BY <1>2, <1>3, <1>4, StepWrites DEF EditsTest, EditsAccess, EditsAttempt, dbVars, testVars,
     SetTestStatusWrite, DeleteTestWrite, SetBlockWrite, AddUserJoin, DeleteUserLeave,
     DeleteCourseDrop, CreateInsert, CreateInsertAnswer, SetWrite, FinishComplete, FinishMark

LEMMA MortalQuestionsFollow == MortalSpec => QuestionsFollowAttempts
<1>1. ASSUME DrainInv, [MortalNext]_vars, NEW t \in Tests PROVE Linking(t)
  <2>1. CASE Calm
    <3>1. attempts' = attempts /\ links' = links
      BY <2>1 DEF Calm, dbVars, examVars, testVars
    <3> QED
      BY <2>1, <3>1 DEF Calm, Fresh, Linking, QuestionsSettled, Rows
  <2> QED
    BY <1>1, <2>1, NextCases, LinkingStep DEF DrainInv
<1>2. DrainInv /\ [MortalNext]_vars =>
         [\A t \in Tests :
             /\ Rows(t) = {} => \A l \in LinkIds : LinksOf(t)[l] # Nil => links'[l] = links[l]
             /\ QuestionsSettled(t) =>
                   /\ QuestionsSettled(t)'
                   /\ \A l \in LinkIds : links'[l] # Nil /\ links'[l].test = t
                                         => links'[l] = links[l]]_vars
  BY <1>1 DEF Linking
<1> QED
  BY <1>2, DrainInvariant, PTL DEF MortalSpec, QuestionsFollowAttempts

(* However many teachers edit and students begin: nothing is unlinked from *)
(* a test nobody has begun, and a test that has been begun gains questions *)
(* only from the add_quest requests that had looked before                 *)
(* (TestRestController.cpp:29-35, 72-84).                                  *)
THEOREM QuestionsFollow == Spec => QuestionsFollowAttempts
  BY MortalQuestionsFollow, SpecIsMortal, PTL

-----------------------------------------------------------------------------
(* Closed tests.                                                           *)

Closing(t) == Frozen(t) /\ (Closed(t)' \/ (TestOpen(t)' /\ ~tests[t].deleted))

\* A thread gets past the check of the test only when the test is open.
LEMMA AdmittedSteps ==
    ASSUME DrainInv, NEW w \in Workers, Step(w), Admitted(w)'
    PROVE  /\ TestOf(w)' = TestOf(w)
           /\ Admitted(w) \/ TestOpen(TestOf(w))
<1> DEFINE r == job[w].req
<1>a. /\ InOrder(w) /\ JobWellFormed(w) /\ Guarded(w) /\ Advanced /\ job'[w].req = r
      /\ r \in Request /\ r # Nil
  BY StepFacts DEF Guarded, Moves
<1>1. CASE job'[w].pc \in CreatePcs
  BY <1>a, <1>1 DEF Guarded, Sitting, Admitted, TestOf, CreatePcs
<1>2. CASE job'[w].pc \in {"write", "complete", "grade", "mark"}
  <2>1. r.op \in {"set", "finish"} /\ job[w].pc \notin {"row", "idle", "done"}
    <3>1. job[w].pc # "done"
      BY <1>a, <1>2 DEF Guarded, Sitting, Access
    <3> QED
      BY <1>a, <1>2, <3>1 DEF Guarded, Sitting, Access
  <2>2. attempts[r.attempt] # Nil /\ r.attempt \in AttemptIds
    BY <1>a, <2>1, RequestFields DEF JobWellFormed
  <2>3. attempts'[r.attempt].test = attempts[r.attempt].test
    BY <1>a, <2>2 DEF Advanced, Advances
  <2> QED
    BY <1>a, <1>2, <2>1, <2>3 DEF Guarded, Sitting, Admitted, TestOf
<1> QED
  BY <1>1, <1>2 DEF Admitted, CreatePcs

\* The threads that stay where they are stay with their test.
LEMMA OthersAdmitted ==
    ASSUME DrainInv, Advanced, NEW v \in Workers, job'[v] = job[v], Admitted(v)'
    PROVE  Admitted(v) /\ TestOf(v)' = TestOf(v)
<1>1. Admitted(v)
  BY DEF Admitted
<1>2. /\ JobWellFormed(v) /\ job[v] \in Job /\ InOrder(v) /\ job[v].pc # "idle"
      /\ job[v].req # Nil /\ job[v].req \in Request
  BY <1>1, JobFacts DEF DrainInv, JobsInv, Admitted
<1>3. job[v].req.op # "create" => job[v].req.op \in {"set", "finish"}
  BY <1>1, <1>2 DEF Admitted, InOrder, CreatePcs
<1>4. CASE job[v].req.op = "create"
  BY <1>1, <1>4 DEF TestOf
<1>5. CASE job[v].req.op \in {"set", "finish"}
  <2>1. attempts[job[v].req.attempt] # Nil /\ job[v].req.attempt \in AttemptIds
    BY <1>1, <1>2, <1>5, RequestFields DEF JobWellFormed, Admitted
  <2> QED
    BY <1>1, <1>5, <2>1 DEF TestOf, Advanced, Advances
<1> QED
  BY <1>3, <1>4, <1>5

LEMMA ClosingStep ==
    ASSUME DrainInv, NEW w \in Workers, Step(w), NEW t \in Tests, Closed(t)
    PROVE  Closing(t)
<1> DEFINE r == job[w].req
<1> USE DEF At
<1>a. /\ TypeOK /\ Guarded(w) /\ Advanced /\ r \in Request
  BY StepFacts
<1>1. \A a \in AttemptIds : Changed(a) => attempts'[a].test # t
  BY ChangeIsAdmitted DEF Closed
<1>2. Frozen(t)
  <2>1. \A a \in Rows(t) : attempts'[a] = attempts[a] /\ answers'[a] = answers[a]
    BY <1>a, <1>1 DEF Rows, Advanced, Advances, Changed
  <2>2. Rows(t)' \subseteq Rows(t)
    BY <1>1 DEF Rows, Changed
  <2>3. Rows(t) \subseteq Rows(t)'
    BY <1>a, RowsStay DEF Advanced
  <2> QED
    BY <2>1, <2>2, <2>3 DEF Frozen
<1>3. \A v \in Workers : ~(Admitted(v)' /\ TestOf(v)' = t)
  <2> SUFFICES ASSUME NEW v \in Workers, Admitted(v)', TestOf(v)' = t PROVE FALSE
    OBVIOUS
  <2>1. CASE v = w
    BY <2>1, AdmittedSteps DEF Closed
  <2>2. CASE v # w
    BY <1>a, <2>2, OthersAdmitted DEF Closed, Guarded, Moves
  <2> QED
    BY <2>1, <2>2
<1>4. ~TestOpen(t)' \/ (TestOpen(t)' /\ ~tests[t].deleted)
  <2>1. CASE SetTestStatusWrite(w)
    <3>1. tests' = [tests EXCEPT ![r.test].active = r.status]
      BY <2>1 DEF SetTestStatusWrite
    <3>2. tests'[t].deleted = tests[t].deleted
      BY <1>a, <3>1 DEF TypeOK, TablesTypeOK
    <3> QED
      BY <3>2 DEF TestOpen
  <2>2. CASE DeleteTestWrite(w)
    <3>1. tests' = [tests EXCEPT ![r.test].deleted = TRUE]
      BY <2>2 DEF DeleteTestWrite
    <3>2. /\ tests[t].deleted => tests'[t].deleted
          /\ tests'[t].active = tests[t].active
      BY <1>a, <3>1 DEF TypeOK, TablesTypeOK
    <3> QED
      BY <3>2 DEF TestOpen, Closed
  <2>3. CASE tests' = tests
    BY <2>3 DEF TestOpen, Closed
  <2> QED
    BY <2>1, <2>2, <2>3, StepWrites DEF EditsTest, EditsAccess, EditsAttempt, dbVars, testVars,
       AddQuestLink, DeleteQuestUnlink, SetBlockWrite, AddUserJoin, DeleteUserLeave,
       DeleteCourseDrop, CreateInsert, CreateInsertAnswer, SetWrite, FinishComplete, FinishMark
<1> QED
  BY <1>2, <1>3, <1>4 DEF Closing, Closed

LEMMA MortalClosedFreezes == MortalSpec => ClosedTestIsFrozen
<1>1. ASSUME DrainInv, [MortalNext]_vars, NEW t \in Tests, Closed(t) PROVE Closing(t)
  <2>1. CASE Calm
    <3>1. UNCHANGED <<attempts, answers, tests>>
      BY <2>1 DEF Calm, dbVars, examVars, testVars
    <3>2. \A v \in Workers : Admitted(v)' => job'[v] = job[v] /\ Admitted(v)
      BY <2>1 DEF Calm, Fresh, Admitted
    <3>3. \A v \in Workers : ~(Admitted(v)' /\ TestOf(v)' = t)
      BY <1>1, <3>1, <3>2 DEF Closed, TestOf
    <3> QED
      BY <1>1, <3>1, <3>3 DEF Closing, Closed, TestOpen, Frozen, Rows
  <2> QED
    BY <1>1, <2>1, NextCases, ClosingStep DEF DrainInv
<1>2. DrainInv /\ [MortalNext]_vars =>
         [\A t \in Tests : Closed(t) =>
             /\ Frozen(t)
             /\ Closed(t)' \/ (TestOpen(t)' /\ ~tests[t].deleted)]_vars
  BY <1>1 DEF Closing
<1> QED
  BY <1>2, DrainInvariant, PTL DEF MortalSpec, ClosedTestIsFrozen

(* A test that was made inactive or deleted stands still, attempts and     *)
(* sheets, once the requests that had found it open have drained, until it *)
(* is made active again; a deleted one for good                            *)
(* (AttemptRestController.cpp:22, 88, 131).                                *)
THEOREM ClosedFreezes == Spec => ClosedTestIsFrozen
  BY MortalClosedFreezes, SpecIsMortal, PTL

-----------------------------------------------------------------------------
(* Blocked users.                                                          *)

Shutting(u) ==
    /\ blocked'[u] => ShutOut(u)'
    /\ UNCHANGED dbVars \/ \E w \in Workers :
          job'[w] # job[w] /\ job[w].req.subject # u
    /\ \A a \in AttemptIds :
          attempts[a] # Nil /\ attempts[a].user = u
          => attempts'[a] = attempts[a] /\ answers'[a] = answers[a]

LEMMA ShuttingStep ==
    ASSUME DrainInv, NEW w \in Workers, Step(w), NEW u \in Users, ShutOut(u)
    PROVE  Shutting(u)
<1> DEFINE r == job[w].req
<1> USE DEF At
<1>a. /\ TypeOK /\ Guarded(w) /\ Advanced /\ r \in Request /\ job'[w].req = r /\ JobsInv
  BY StepFacts DEF Guarded, Moves
<1>1. \A v \in Workers : ~(Authorized(v)' /\ job'[v].req.subject = u)
  <2>1. Authorized(w)' => Authorized(w) \/ ~blocked[r.subject]
    BY <1>a DEF Guarded, Access, Authorized, Busy
  <2> QED
    BY <1>a, <2>1 DEF ShutOut, Guarded, Moves, Authorized, Busy
<1>2. UNCHANGED dbVars \/ Authorized(w)
  BY StepWrites DEF EditsTest, EditsAccess, EditsAttempt, Authorized, Busy,
     SetTestStatusWrite, DeleteTestWrite, AddQuestLink, DeleteQuestUnlink,
     SetBlockWrite, AddUserJoin, DeleteUserLeave, DeleteCourseDrop,
     CreateInsert, CreateInsertAnswer, SetWrite, FinishComplete, FinishMark
<1>3. job'[w] # job[w]
  BY <1>a DEF Guarded, Access
<1>4. ASSUME NEW a \in AttemptIds, attempts[a] # Nil, attempts[a].user = u
      PROVE  attempts'[a] = attempts[a] /\ answers'[a] = answers[a]
  <2> SUFFICES ASSUME Changed(a) PROVE FALSE
    BY DEF Changed
  <2>1. Admitted(w) /\ r.subject = attempts'[a].user
    BY <1>a, ChangeIsAdmitted, StepWritesOwn DEF WritesOwn
  <2>2. attempts'[a].user = u
    BY <1>a, <1>4 DEF Advanced, Advances
  <2> QED
    BY <2>1, <2>2 DEF Admitted, ShutOut, Authorized, Busy
<1> QED
  BY <1>1, <1>2, <1>3, <1>4 DEF Shutting, ShutOut

LEMMA MortalShutOutStays == MortalSpec => ShutOutUserChangesNothing
<1>1. ASSUME DrainInv, [MortalNext]_vars, NEW u \in Users, ShutOut(u) PROVE Shutting(u)
  <2>1. CASE Calm
    <3>1. UNCHANGED <<blocked, attempts, answers, dbVars>>
      BY <2>1 DEF Calm, dbVars, examVars, accessVars
    <3>2. \A v \in Workers : Authorized(v)' => job'[v] = job[v]
      BY <2>1 DEF Calm, Fresh, Authorized, Busy
    <3> QED
      BY <1>1, <3>1, <3>2 DEF Shutting, ShutOut, Authorized, Busy
  <2> QED
    BY <1>1, <2>1, NextCases, ShuttingStep DEF DrainInv
<1>2. DrainInv /\ [MortalNext]_vars =>
         [\A u \in Users : ShutOut(u) =>
             /\ blocked'[u] => ShutOut(u)'
             /\ UNCHANGED dbVars \/ \E w \in Workers :
                   /\ job'[w] # job[w] /\ job[w].req.subject # u
             /\ \A a \in AttemptIds :
                   attempts[a] # Nil /\ attempts[a].user = u
                   => attempts'[a] = attempts[a] /\ answers'[a] = answers[a]]_vars
  BY <1>1 DEF Shutting
<1> QED
  BY <1>2, DrainInvariant, PTL DEF MortalSpec, ShutOutUserChangesNothing

(* is_blocked is read once per request (AccessRequestValidator.cpp:29).    *)
(* Once the requests of a blocked user that had passed it have drained, he *)
(* changes nothing, and nobody changes his attempts, until he is unblocked *)
(* - by somebody else.                                                     *)
THEOREM ShutOutStays == Spec => ShutOutUserChangesNothing
  BY MortalShutOutStays, SpecIsMortal, PTL

-----------------------------------------------------------------------------
(* Courses.                                                                *)

Disbanding(c) ==
    /\ Disbanded(c)'
    /\ \A u \in Users : <<u, c>> \in members' => <<u, c>> \in members

LEMMA DisbandingStep ==
    ASSUME DrainInv, NEW w \in Workers, Step(w), NEW c \in Courses, Disbanded(c)
    PROVE  Disbanding(c)
<1> DEFINE r == job[w].req
<1> USE DEF At
<1>a. Guarded(w) /\ job'[w].req = r
  BY StepFacts DEF Guarded, Moves
<1>1. c \in closedCourses'
  BY StepWrites DEF Disbanded, EditsTest, EditsAccess, EditsAttempt, dbVars, accessVars,
     SetTestStatusWrite, DeleteTestWrite, AddQuestLink, DeleteQuestUnlink,
     SetBlockWrite, AddUserJoin, DeleteUserLeave, DeleteCourseDrop,
     CreateInsert, CreateInsertAnswer, SetWrite, FinishComplete, FinishMark
<1>2. \A v \in Workers : ~(job'[v].pc = "join" /\ job'[v].req.course = c)
  BY <1>a DEF Disbanded, Guarded, Moves, Access
<1>3. \A u \in Users : <<u, c>> \in members' => <<u, c>> \in members
  <2>1. CASE AddUserJoin(w)
    BY <2>1 DEF AddUserJoin, Disbanded
  <2>2. CASE members' \subseteq members
    BY <2>2
  <2> QED
    BY <2>1, <2>2, StepWrites DEF EditsTest, EditsAccess, EditsAttempt, dbVars, accessVars,
       SetTestStatusWrite, DeleteTestWrite, AddQuestLink, DeleteQuestUnlink,
       SetBlockWrite, DeleteUserLeave, DeleteCourseDrop,
       CreateInsert, CreateInsertAnswer, SetWrite, FinishComplete, FinishMark
<1> QED
  BY <1>1, <1>2, <1>3 DEF Disbanding, Disbanded

LEMMA MortalDisbandedStays == MortalSpec => DisbandedCourseGainsNoMember
<1>1. ASSUME DrainInv, [MortalNext]_vars, NEW c \in Courses, Disbanded(c) PROVE Disbanding(c)
  <2>1. CASE Calm
    BY <1>1, <2>1 DEF Calm, Fresh, dbVars, accessVars, Disbanding, Disbanded
  <2> QED
    BY <1>1, <2>1, NextCases, DisbandingStep DEF DrainInv
<1>2. DrainInv /\ [MortalNext]_vars =>
         [\A c \in Courses : Disbanded(c) =>
             /\ Disbanded(c)'
             /\ \A u \in Users : <<u, c>> \in members' => <<u, c>> \in members]_vars
  BY <1>1 DEF Disbanding
<1> QED
  BY <1>2, DrainInvariant, PTL DEF MortalSpec, DisbandedCourseGainsNoMember

(* add_user looks whether the course is deleted and inserts in two         *)
(* transactions (CourseRestController.cpp:279-287): a deleted course gains *)
(* members only from the requests that had looked before.                  *)
THEOREM DisbandedStays == Spec => DisbandedCourseGainsNoMember
  BY MortalDisbandedStays, SpecIsMortal, PTL

-----------------------------------------------------------------------------
(* Users outside a course.                                                 *)

Excluding(u, t) ==
    /\ RowsOf(u, t)' = RowsOf(u, t)
    /\ Outsider(u, t)' \/ <<u, CourseOf[t]>> \in members'

LEMMA ExcludingStep ==
    ASSUME DrainInv, NEW w \in Workers, Step(w), NEW u \in Users, NEW t \in Tests,
           Outsider(u, t)
    PROVE  Excluding(u, t)
<1> DEFINE r == job[w].req
<1>a. /\ InOrder(w) /\ JobSafe(w) /\ Guarded(w) /\ Advanced /\ r # Nil /\ job'[w].req = r
      /\ JobsInv
  BY StepFacts DEF Guarded, Moves
<1>1. RowsOf(u, t) \subseteq RowsOf(u, t)'
  BY <1>a DEF RowsOf, Rows, Advanced, Advances
<1>2. ASSUME NEW a \in AttemptIds, a \in RowsOf(u, t)' PROVE a \in RowsOf(u, t)
  <2>1. attempts'[a] # Nil /\ attempts'[a].user = u /\ attempts'[a].test = t
    BY <1>2 DEF RowsOf, Rows
  <2>2. CASE attempts[a] # Nil
    BY <1>a, <2>1, <2>2 DEF RowsOf, Rows, Advanced, Advances
  <2>3. CASE attempts[a] = Nil
    <3>1. Changed(a)
      BY <2>1, <2>3 DEF Changed
    <3>2. job[w].pc = "insert" /\ TestOf(w) = t
      BY <2>1, <2>3, <3>1, ChangeIsAdmitted
    <3>3. r.op = "create" /\ r.test = t
      BY <1>a, <3>2 DEF InOrder, CreatePcs, TestOf
    <3>4. r.subject = u
      BY <1>a, <2>1, <3>1, StepWritesOwn DEF WritesOwn
    <3> QED
      BY <3>2, <3>3, <3>4 DEF Outsider, Busy
  <2> QED
    BY <2>2, <2>3
<1>3. RowsOf(u, t)' \subseteq AttemptIds
  BY DEF RowsOf, Rows
<1>4. ASSUME NEW v \in Workers, Busy(v)', job'[v].req.op = "create",
             job'[v].req.subject = u, job'[v].req.test = t
      PROVE  job'[v].pc \in {"auth", "member"}
  <2>1. CASE v # w
    BY <1>a, <1>4, <2>1 DEF Guarded, Moves, Outsider, Busy
  <2>2. CASE v = w
    BY <1>a, <1>4, <2>2 DEF Guarded, Access, Outsider, Busy
  <2> QED
    BY <2>1, <2>2
<1> QED
  BY <1>1, <1>2, <1>3, <1>4 DEF Excluding, Outsider, Busy

LEMMA MortalOutsidersStayOut == MortalSpec => OutsiderOpensNoAttempt
<1>1. ASSUME DrainInv, [MortalNext]_vars, NEW u \in Users, NEW t \in Tests, Outsider(u, t)
      PROVE  Excluding(u, t)
  <2>1. CASE Calm
    <3>1. UNCHANGED <<attempts, members>>
      BY <2>1 DEF Calm, dbVars, examVars, accessVars
    <3>2. ASSUME NEW v \in Workers, Busy(v)', job'[v].req.op = "create",
                 job'[v].req.subject = u, job'[v].req.test = t
          PROVE  job'[v].pc \in {"auth", "member"}
      <4>1. CASE job'[v] = job[v]
        BY <1>1, <3>2, <4>1 DEF Outsider, Busy
      <4>2. CASE Fresh(v)
        BY <3>2, <4>2 DEF Fresh, Busy
      <4> QED
        BY <2>1, <4>1, <4>2 DEF Calm
    <3> QED
      BY <1>1, <3>1, <3>2 DEF Excluding, Outsider, RowsOf, Rows, Busy
  <2> QED
    BY <1>1, <2>1, NextCases, ExcludingStep DEF DrainInv
<1>2. DrainInv /\ [MortalNext]_vars =>
         [\A u \in Users, t \in Tests : Outsider(u, t) =>
             /\ RowsOf(u, t)' = RowsOf(u, t)
             /\ Outsider(u, t)' \/ <<u, CourseOf[t]>> \in members']_vars
  BY <1>1 DEF Excluding
<1> QED
  BY <1>2, DrainInvariant, PTL DEF MortalSpec, OutsiderOpensNoAttempt

(* The membership of a course is read once, at the beginning of create     *)
(* (AccessRequestValidator.cpp:54): a user who is not a member, or not any *)
(* more, opens an attempt only in a create that had seen the membership.   *)
THEOREM OutsidersStayOut == Spec => OutsiderOpensNoAttempt
  BY MortalOutsidersStayOut, SpecIsMortal, PTL

-----------------------------------------------------------------------------
(* That the requests past a check do drain: while what the check forbids   *)
(* holds, nobody else gets past it.                                        *)

PastTestCheck(t) == {w \in Workers : Admitted(w) /\ TestOf(w) = t}
PastBlockCheck(u) == {w \in Workers : Authorized(w) /\ job[w].req.subject = u}
PastVacantCheck(t) == {w \in Workers : job[w].pc = "link" /\ job[w].req.test = t}
PastCourseCheck(c) == {w \in Workers : job[w].pc = "join" /\ job[w].req.course = c}
PastMemberCheck(u, t) ==
    {w \in Workers : /\ Busy(w) /\ job[w].pc \notin {"auth", "member"}
                     /\ job[w].req.op = "create"
                     /\ job[w].req.subject = u /\ job[w].req.test = t}
ReadOpen(a) ==
    {w \in Workers : /\ Busy(w) /\ job[w].pc # "row" /\ ~job[w].completed
                     /\ job[w].req.op \in {"set", "finish"} /\ job[w].req.attempt = a}

Draining ==
    /\ \A t \in Tests : ~TestOpen(t) => PastTestCheck(t)' \subseteq PastTestCheck(t)
    /\ \A u \in Users : blocked[u] => PastBlockCheck(u)' \subseteq PastBlockCheck(u)
    /\ \A t \in Tests : Rows(t) # {} => PastVacantCheck(t)' \subseteq PastVacantCheck(t)
    /\ \A c \in closedCourses : PastCourseCheck(c)' \subseteq PastCourseCheck(c)
    /\ \A u \in Users, t \in Tests : <<u, CourseOf[t]>> \notin members =>
          PastMemberCheck(u, t)' \subseteq PastMemberCheck(u, t)
    /\ \A a \in AttemptIds : attempts[a] # Nil /\ attempts[a].completed =>
          ReadOpen(a)' \subseteq ReadOpen(a)

LEMMA DrainingStep ==
    ASSUME DrainInv, NEW w \in Workers, Step(w) PROVE Draining
<1> DEFINE r == job[w].req
<1>a. /\ Guarded(w) /\ Advanced /\ Access(w) /\ Editing(w) /\ Sitting(w) /\ job'[w].req = r
      /\ \A v \in Workers : v # w => job'[v] = job[v]
  BY StepFacts DEF Guarded, Moves
<1>1. ASSUME NEW t \in Tests, ~TestOpen(t), NEW v \in PastTestCheck(t)'
      PROVE  v \in PastTestCheck(t)
  <2>1. v \in Workers /\ Admitted(v)' /\ TestOf(v)' = t
    BY <1>1 DEF PastTestCheck
  <2>2. CASE v = w
    BY <1>1, <2>1, <2>2, AdmittedSteps DEF PastTestCheck
  <2>3. CASE v # w
    BY <1>a, <2>1, <2>3, OthersAdmitted DEF PastTestCheck
  <2> QED
    BY <2>2, <2>3
<1>2. ASSUME NEW u \in Users, blocked[u]
      PROVE  PastBlockCheck(u)' \subseteq PastBlockCheck(u)
  <2>1. Authorized(w)' => Authorized(w) \/ ~blocked[r.subject]
    BY <1>a DEF Access, Authorized, Busy
  <2> QED
    BY <1>a, <1>2, <2>1 DEF PastBlockCheck, Authorized, Busy
<1>3. ASSUME NEW t \in Tests, Rows(t) # {}
      PROVE  PastVacantCheck(t)' \subseteq PastVacantCheck(t)
  BY <1>a, <1>3 DEF Editing, PastVacantCheck
<1>4. ASSUME NEW c \in closedCourses
      PROVE  PastCourseCheck(c)' \subseteq PastCourseCheck(c)
  BY <1>a, <1>4 DEF Access, PastCourseCheck
<1>5. ASSUME NEW u \in Users, NEW t \in Tests, <<u, CourseOf[t]>> \notin members
      PROVE  PastMemberCheck(u, t)' \subseteq PastMemberCheck(u, t)
  <2>1. ASSUME w \in PastMemberCheck(u, t)' PROVE w \in PastMemberCheck(u, t)
    BY <1>a, <1>5, <2>1 DEF Access, Sitting, PastMemberCheck, Busy
  <2> QED
    BY <1>a, <2>1 DEF PastMemberCheck, Busy
<1>6. ASSUME NEW a \in AttemptIds, attempts[a].completed
      PROVE  ReadOpen(a)' \subseteq ReadOpen(a)
  <2>1. ASSUME w \in ReadOpen(a)' PROVE w \in ReadOpen(a)
    BY <1>a, <1>6, <2>1 DEF Access, Sitting, ReadOpen, Busy
  <2> QED
    BY <1>a, <2>1 DEF ReadOpen, Busy
<1> QED
  BY <1>1, <1>2, <1>3, <1>4, <1>5, <1>6 DEF Draining

LEMMA CalmDrains ==
    ASSUME DrainInv, Calm PROVE Draining
<1>1. UNCHANGED <<attempts, members, blocked, tests>>
  BY DEF Calm, dbVars, examVars, accessVars, testVars
<1>2. ASSUME NEW v \in Workers, ~Fresh(v) PROVE job'[v] = job[v]
  BY <1>2 DEF Calm
<1>3. ASSUME NEW v \in Workers, Fresh(v)
      PROVE  /\ ~Admitted(v)' /\ ~Authorized(v)' /\ job'[v].pc \notin {"link", "join"}
             /\ \/ ~Busy(v)'
                \/ job'[v].pc = "row"
                \/ job'[v].pc = "auth" /\ job'[v].req.op \notin {"set", "finish"}
  BY <1>3 DEF Fresh, Admitted, Authorized, Busy
<1>4. \A t \in Tests : PastTestCheck(t)' \subseteq PastTestCheck(t)
  BY <1>1, <1>2, <1>3 DEF PastTestCheck, Admitted, TestOf
<1>5. \A u \in Users : PastBlockCheck(u)' \subseteq PastBlockCheck(u)
  BY <1>2, <1>3 DEF PastBlockCheck, Authorized, Busy
<1>6. /\ \A t \in Tests : PastVacantCheck(t)' \subseteq PastVacantCheck(t)
      /\ \A c \in Courses : PastCourseCheck(c)' \subseteq PastCourseCheck(c)
  BY <1>2, <1>3 DEF PastVacantCheck, PastCourseCheck
<1>7. \A u \in Users, t \in Tests : PastMemberCheck(u, t)' \subseteq PastMemberCheck(u, t)
  <2> SUFFICES ASSUME NEW v \in Workers, Fresh(v), Busy(v)', job'[v].req.op = "create"
               PROVE  job'[v].pc \in {"auth", "member"}
    BY <1>2 DEF PastMemberCheck, Busy
  <2> QED
    BY DEF Fresh, Busy
<1>8. \A a \in AttemptIds : ReadOpen(a)' \subseteq ReadOpen(a)
  BY <1>2, <1>3 DEF ReadOpen, Busy
<1>9. closedCourses \subseteq Courses
  BY DEF DrainInv, JobsInv, TypeInv, TypeOK, TablesTypeOK
<1> QED
  BY <1>4, <1>5, <1>6, <1>7, <1>8, <1>9 DEF Draining

LEMMA MortalRequestsDrain == MortalSpec => [][Draining]_vars
<1>1. DrainInv /\ [MortalNext]_vars => Draining
  BY NextCases, DrainingStep, CalmDrains DEF DrainInv
<1> QED
  BY <1>1, DrainInvariant, PTL DEF MortalSpec

(* While a test is closed, a user blocked, a test taken, a course deleted, *)
(* a user no member, an attempt completed, no further request passes the   *)
(* handlers' check for it (AttemptRestController.cpp:16-22, 88, 131,       *)
(* AccessRequestValidator.cpp:29, TestRestController.cpp:29-35,            *)
(* CourseRestController.cpp add_user): the requests the properties of this *)
(* module wait for only get fewer, and by HandlersTerminate each of them   *)
(* ends.                                                                   *)
THEOREM RequestsDrain == Spec => [][Draining]_vars
  BY MortalRequestsDrain, SpecIsMortal, PTL

-----------------------------------------------------------------------------
(* That each of them ends.  How many steps a thread takes at most before   *)
(* its request is answered: the copy loop of create is the only one.       *)

StepsFrom(pc) ==
    LET loop == Cardinality(LinkIds)
    IN  IF pc \in {"idle", "done"} THEN 0 ELSE
        IF pc \in {"grade", "vacant", "taken", "course"} THEN 2 ELSE
        IF pc = "complete" THEN 3 ELSE
        IF pc = "sheet" THEN loop + 2 ELSE
        IF pc = "insert" THEN loop + 3 ELSE
        IF pc = "dup" THEN loop + 4 ELSE
        IF pc = "tcheck" THEN loop + 5 ELSE
        IF pc = "member" THEN loop + 6 ELSE
        IF pc = "auth" THEN loop + 7 ELSE
        IF pc = "row" THEN loop + 8 ELSE 1

ToCopy(w) == {l \in LinkIds : job[w].todo[l] # Nil}

StepsLeft(w) == IF job[w].pc = "answers" THEN Cardinality(ToCopy(w)) + 1
                ELSE StepsFrom(job[w].pc)

LEMMA StepsFromType ==
    ASSUME NEW pc \in Pcs, pc # "answers"
    PROVE  /\ StepsFrom(pc) \in 0 .. Cardinality(LinkIds) + 8
           /\ StepsFrom(pc) = 0 <=> pc \in {"idle", "done"}
<1> DEFINE loop == Cardinality(LinkIds)
<1>1. loop \in Nat
  BY MarksType
<1>2. StepsFrom(pc) = 0 <=> pc \in {"idle", "done"}
  BY <1>1 DEF StepsFrom
<1>3. StepsFrom(pc) \in Nat
  BY <1>1 DEF StepsFrom
<1>4. StepsFrom(pc) <= loop + 8
  BY <1>1 DEF StepsFrom
<1> QED
  BY <1>1, <1>2, <1>3, <1>4

LEMMA ToCopyFinite ==
    ASSUME NEW w
    PROVE  /\ IsFiniteSet(ToCopy(w)) /\ Cardinality(ToCopy(w)) \in Nat
           /\ Cardinality(ToCopy(w)) <= Cardinality(LinkIds)
<1>1. ToCopy(w) \subseteq LinkIds /\ IsFiniteSet(LinkIds)
  BY ConstantsAssumption DEF ToCopy
<1> QED
  BY <1>1, FS_Subset, FS_CardinalityType

LEMMA StepsLeftType ==
    ASSUME TypeOK, NEW w \in Workers
    PROVE  /\ StepsLeft(w) \in 0 .. Cardinality(LinkIds) + 8
           /\ StepsLeft(w) = 0 <=> ~Busy(w)
<1>1. job[w].pc \in Pcs
  BY DEF TypeOK, Job
<1>2. CASE job[w].pc = "answers"
  BY <1>2, ToCopyFinite, MarksType DEF StepsLeft, Busy
<1>3. CASE job[w].pc # "answers"
  BY <1>1, <1>3, StepsFromType DEF StepsLeft, Busy
<1> QED
  BY <1>2, <1>3

LEMMA GotoShrinks ==
    ASSUME JobsInv, NEW w \in Workers, NEW pc \in Pcs, Goto(w, pc), pc # "answers",
           job[w].pc # "answers", StepsFrom(pc) < StepsFrom(job[w].pc)
    PROVE  StepsLeft(w)' < StepsLeft(w)
<1>1. job'[w].pc = pc
  BY Goes
<1> QED
  BY <1>1 DEF StepsLeft

LEMMA EndShrinks ==
    ASSUME JobsInv, NEW w \in Workers, Busy(w), job'[w].pc \in {"idle", "done"}
    PROVE  StepsLeft(w)' < StepsLeft(w)
<1>1. StepsLeft(w) \in 0 .. Cardinality(LinkIds) + 8 /\ StepsLeft(w) # 0
  BY StepsLeftType DEF JobsInv, TypeInv
<1>2. StepsLeft(w)' = 0
  BY StepsFromType DEF StepsLeft, StepsFrom, Pcs
<1> QED
  BY <1>1, <1>2, MarksType

LEMMA ReplyShrinks ==
    ASSUME JobsInv, NEW w \in Workers, Busy(w), NEW code \in Codes, Reply(w, code)
    PROVE  StepsLeft(w)' < StepsLeft(w)
<1>1. job'[w].pc = "done"
  BY ReplyMoves DEF JobsInv
<1> QED
  BY <1>1, EndShrinks

LEMMA AuthorizeShrinks ==
    ASSUME JobsInv, NEW w \in Workers, NEW op, NEW permission, NEW own,
           NEW next \in {"vacant", "taken", "status", "retire",
                         "block", "course", "leave", "drop"},
           Authorize(w, op, permission, own, next)
    PROVE  StepsLeft(w)' < StepsLeft(w)
<1>1. PICK code \in ValidateWithBlockHandle(job[w].req.subject,
                                            permission \in Grants[job[w].req.subject]) :
         Goto(w, next) \/ Reply(w, code)
  BY DEF Authorize
<1>2. job[w].pc = "auth" /\ Busy(w) /\ code \in Codes
  BY ValidateCodes DEF Authorize, At, Busy
<1>3. StepsFrom(next) < StepsFrom("auth")
  BY MarksType DEF StepsFrom
<1>4. next \in Pcs /\ next # "answers"
  BY DEF Pcs, TestAdminPcs, MembershipPcs
<1> QED
  BY <1>1, <1>2, <1>3, <1>4, GotoShrinks, ReplyShrinks

LEMMA AdminShrinks ==
    ASSUME JobsInv, NEW w \in Workers, TestAdminStep(w) \/ MembershipStep(w)
    PROVE  StepsLeft(w)' < StepsLeft(w)
<1> USE DEF At
<1>1. CASE \/ AddQuestAuth(w) \/ DeleteQuestAuth(w) \/ SetTestStatusAuth(w)
           \/ DeleteTestAuth(w) \/ SetBlockAuth(w) \/ AddUserAuth(w)
           \/ DeleteUserAuth(w) \/ DeleteCourseAuth(w)
  BY <1>1, AuthorizeShrinks DEF AddQuestAuth, DeleteQuestAuth, SetTestStatusAuth,
     DeleteTestAuth, SetBlockAuth, AddUserAuth, DeleteUserAuth, DeleteCourseAuth
<1>2. CASE AddQuestCheck(w) \/ DeleteQuestCheck(w) \/ AddUserCheck(w)
  <2>1. /\ job[w].pc \in {"vacant", "taken", "course"} /\ Busy(w)
        /\ \/ Goto(w, "link") \/ Goto(w, "unlink") \/ Goto(w, "join")
           \/ Reply(w, 403) \/ Reply(w, 404)
    BY <1>2 DEF AddQuestCheck, DeleteQuestCheck, AddUserCheck, Busy
  <2>2. \A pc \in {"link", "unlink", "join"} :
           pc \in Pcs /\ pc # "answers" /\ StepsFrom(pc) < StepsFrom(job[w].pc)
    BY <2>1, MarksType DEF StepsFrom, Pcs, TestAdminPcs, MembershipPcs
  <2> QED
    BY <2>1, <2>2, GotoShrinks, ReplyShrinks DEF Codes
<1>3. CASE \/ AddQuestLink(w) \/ DeleteQuestUnlink(w) \/ SetTestStatusWrite(w)
           \/ DeleteTestWrite(w) \/ SetBlockWrite(w) \/ AddUserJoin(w)
           \/ DeleteUserLeave(w) \/ DeleteCourseDrop(w)
  <2>1. Busy(w) /\ \E code \in CommitCodes : Reply(w, code)
    BY <1>3 DEF AddQuestLink, DeleteQuestUnlink, SetTestStatusWrite, DeleteTestWrite,
       SetBlockWrite, AddUserJoin, DeleteUserLeave, DeleteCourseDrop, Busy
  <2> QED
    BY <2>1, CommitCodesType, ReplyShrinks
<1> QED
  BY <1>1, <1>2, <1>3 DEF TestAdminStep, MembershipStep

LEMMA CreateShrinks ==
    ASSUME JobsInv, NEW w \in Workers, CreateStep(w)
    PROVE  StepsLeft(w)' < StepsLeft(w)
<1> USE DEF At
<1>a. TypeOK /\ job[w] \in Job
  BY JobFacts DEF JobsInv
<1>1. CASE CreateAuth(w) \/ CreateMember(w) \/ CreateCheckTest(w)
           \/ CreateCheckDuplicate(w) \/ CreateReply(w)
  <2>1. ASSUME Reply(w, 200) \/ Reply(w, 403), Busy(w)
        PROVE  StepsLeft(w)' < StepsLeft(w)
    BY <2>1, ReplyShrinks DEF Codes
  <2>2. ASSUME NEW pc \in {"member", "tcheck", "dup", "insert"}, Goto(w, pc),
               job[w].pc # "answers", StepsFrom(pc) < StepsFrom(job[w].pc)
        PROVE  StepsLeft(w)' < StepsLeft(w)
    BY <2>2, GotoShrinks DEF Pcs, AttemptPcs
  <2>3. /\ StepsFrom("member") < StepsFrom("auth")
        /\ StepsFrom("tcheck") < StepsFrom("member")
        /\ StepsFrom("dup") < StepsFrom("tcheck")
        /\ StepsFrom("insert") < StepsFrom("dup")
    BY MarksType DEF StepsFrom
  <2> QED
    BY <1>1, <2>1, <2>2, <2>3 DEF CreateAuth, CreateMember, CreateCheckTest,
       CreateCheckDuplicate, CreateReply, Busy
<1>2. CASE CreateInsert(w)
  <2>1. job[w].pc = "insert" /\ job'[w].pc = "sheet"
    BY <1>a, <1>2 DEF CreateInsert, TypeOK, Job
  <2> QED
    BY <2>1, MarksType DEF StepsLeft, StepsFrom
<1>3. CASE CreateReadLinks(w)
  <2>1. job[w].pc = "sheet" /\ job'[w].pc = "answers"
    BY <1>a, <1>3 DEF CreateReadLinks, TypeOK, Job
  <2>2. /\ IsFiniteSet(ToCopy(w)') /\ Cardinality(ToCopy(w)') \in Nat
        /\ Cardinality(ToCopy(w)') <= Cardinality(LinkIds)
    <3>1. ToCopy(w)' \subseteq LinkIds /\ IsFiniteSet(LinkIds)
      BY ConstantsAssumption DEF ToCopy
    <3> QED
      BY <3>1, FS_Subset, FS_CardinalityType
  <2> QED
    BY <2>1, <2>2, MarksType DEF StepsLeft, StepsFrom
<1>4. CASE CreateInsertAnswer(w)
  <2>1. PICK l \in LinkIds : job[w].todo[l] # Nil /\ job' = [job EXCEPT ![w].todo[l] = Nil]
    BY <1>4 DEF CreateInsertAnswer
  <2>2. /\ job[w].pc = "answers" /\ job'[w].pc = "answers"
        /\ job'[w].todo = [job[w].todo EXCEPT ![l] = Nil]
    BY <1>a, <1>4, <2>1 DEF CreateInsertAnswer, TypeOK, Job
  <2>3. job[w].todo \in [LinkIds -> LinkRow \cup {Nil}]
    BY <1>a DEF Job
  <2>4. ToCopy(w)' = ToCopy(w) \ {l} /\ l \in ToCopy(w)
    BY <2>1, <2>2, <2>3 DEF ToCopy
  <2>5. Cardinality(ToCopy(w)') = Cardinality(ToCopy(w)) - 1
    BY <2>4, ToCopyFinite, FS_RemoveElement
  <2> QED
    BY <2>2, <2>5, ToCopyFinite DEF StepsLeft
<1> QED
  BY <1>1, <1>2, <1>3, <1>4 DEF CreateStep

LEMMA AnsweringShrinks ==
    ASSUME JobsInv, NEW w \in Workers, SetStep(w) \/ FinishStep(w)
    PROVE  StepsLeft(w)' < StepsLeft(w)
<1> USE DEF At
<1>a. TypeOK /\ job[w] \in Job
  BY JobFacts DEF JobsInv
<1>b. ASSUME NEW pc \in {"tcheck", "write", "complete", "grade"}, Goto(w, pc),
             job[w].pc # "answers", StepsFrom(pc) < StepsFrom(job[w].pc)
      PROVE  StepsLeft(w)' < StepsLeft(w)
  BY <1>b, GotoShrinks DEF Pcs, AttemptPcs
<1>1. ASSUME NEW op, NEW missing \in Codes, ReadAttempt(w, op, missing)
      PROVE  StepsLeft(w)' < StepsLeft(w)
  <2>1. job[w].pc = "row" /\ Busy(w)
    BY <1>1 DEF ReadAttempt, Busy
  <2>2. CASE Reply(w, missing)
    BY <2>1, <2>2, ReplyShrinks
  <2>3. CASE ~Reply(w, missing)
    <3>1. job'[w].pc = "auth"
      BY <1>a, <1>1, <2>3 DEF ReadAttempt, TypeOK, Job
    <3> QED
      BY <2>1, <3>1, MarksType DEF StepsLeft, StepsFrom
  <2> QED
    BY <2>2, <2>3
<1>2. ASSUME NEW op, AuthAttempt(w, op)
      PROVE  StepsLeft(w)' < StepsLeft(w)
  <2>1. PICK code \in ValidateWithBlockHandle(job[w].req.subject, TRUE) :
           Goto(w, "tcheck") \/ Reply(w, code)
    BY <1>2 DEF AuthAttempt
  <2>2. job[w].pc = "auth" /\ Busy(w) /\ code \in Codes
    BY <1>2, ValidateCodes DEF AuthAttempt, Busy
  <2>3. StepsFrom("tcheck") < StepsFrom("auth")
    BY MarksType DEF StepsFrom
  <2> QED
    BY <1>b, <2>1, <2>2, <2>3, ReplyShrinks
<1>3. ASSUME NEW op, NEW next \in {"write", "complete"}, CheckAttempt(w, op, next)
      PROVE  StepsLeft(w)' < StepsLeft(w)
  <2>1. job[w].pc = "tcheck" /\ Busy(w) /\ (Goto(w, next) \/ Reply(w, 403))
    BY <1>3 DEF CheckAttempt, Busy
  <2>2. StepsFrom(next) < StepsFrom("tcheck")
    BY MarksType DEF StepsFrom
  <2> QED
    BY <1>b, <2>1, <2>2, ReplyShrinks DEF Codes
<1>4. CASE FinishComplete(w)
  <2>1. StepsFrom("grade") < StepsFrom("complete")
    BY MarksType DEF StepsFrom
  <2> QED
    BY <1>4, <1>b, <2>1 DEF FinishComplete
<1>5. CASE FinishGrade(w)
  <2>1. job[w].pc = "grade" /\ job'[w].pc = "mark"
    BY <1>a, <1>5 DEF FinishGrade, TypeOK, Job
  <2> QED
    BY <2>1, MarksType DEF StepsLeft, StepsFrom
<1>6. CASE SetWrite(w) \/ FinishMark(w)
  <2>1. Busy(w) /\ \E code \in CommitCodes \cup SetCodes(job[w].req.quest) : Reply(w, code)
    BY <1>6 DEF SetWrite, FinishMark, Busy
  <2> QED
    BY <2>1, CommitCodesType, SetCodesType, ReplyShrinks
<1> QED
  BY <1>1, <1>2, <1>3, <1>4, <1>5, <1>6 DEF SetStep, FinishStep, Codes

StepsBounded ==
    \A w \in Workers : /\ StepsLeft(w) \in 0 .. Cardinality(LinkIds) + 8
                       /\ StepsLeft(w) = 0 <=> ~Busy(w)

EachStepCounts ==
    \A w \in Workers : Step(w) \/ (Busy(w) /\ job'[w] # job[w])
                       => StepsLeft(w)' < StepsLeft(w)

LEMMA MortalHandlersTerminate == MortalSpec => []StepsBounded /\ [][EachStepCounts]_vars
<1>1. ASSUME JobsInv, NEW w \in Workers, Step(w)
      PROVE  StepsLeft(w)' < StepsLeft(w)
  BY <1>1, AdminShrinks, CreateShrinks, AnsweringShrinks DEF Step, AttemptStep
<1>2. ASSUME JobsInv, MortalNext, NEW w \in Workers, Busy(w), job'[w] # job[w]
      PROVE  StepsLeft(w)' < StepsLeft(w)
  <2>1. CASE \E v \in Workers : Step(v)
    <3>1. PICK v \in Workers : Step(v)
      BY <2>1
    <3>2. v = w
      BY <1>2, <3>1, StepsGuarded DEF Guarded, Moves
    <3> QED
      BY <1>1, <1>2, <3>1, <3>2
  <2>2. CASE \E v \in Workers : Receive(v) \/ Respond(v)
    <3>1. job \in [Workers -> Job]
      BY <1>2 DEF JobsInv, TypeInv, TypeOK
    <3> QED
      BY <1>2, <2>2, <3>1 DEF Receive, Respond, Busy
  <2>3. CASE \E v \in Workers : Abort(v)
    <3>1. PICK v \in Workers : Abort(v)
      BY <2>3
    <3>2. Moves(v) /\ job'[v].pc = "done"
      BY <1>2, <3>1, ReplyMoves DEF Abort, JobsInv, Codes
    <3> QED
      BY <1>2, <3>2, EndShrinks DEF Moves
  <2>4. CASE Stop
    BY <1>2, <2>4, EndShrinks DEF Stop, IdleJob
  <2> QED
    BY <1>2, <2>1, <2>2, <2>3, <2>4, MortalCases
<1>3. JobsInv => StepsBounded
  BY StepsLeftType DEF JobsInv, TypeInv, StepsBounded
<1>4. JobsInv /\ [MortalNext]_vars => [EachStepCounts]_vars
  BY <1>1, <1>2 DEF EachStepCounts
<1> QED
  BY <1>3, <1>4, JobsInvariant, PTL DEF MortalSpec

(* Whatever the other threads do in between, a request is answered after   *)
(* at most eight calls and one more per linked question: each step of its  *)
(* handler leaves fewer, no step of another thread adds one, and what a    *)
(* thread has left is none exactly when it is not at work.  This is the    *)
(* part of EveryRequestAnswered that does not speak of fairness.           *)
THEOREM HandlersTerminate == Spec => []StepsBounded /\ [][EachStepCounts]_vars
  BY MortalHandlersTerminate, SpecIsMortal, PTL

-----------------------------------------------------------------------------
(* The mark that is on its way.                                            *)

\* A finish is between its two writes.
Grading(w, a) == /\ job[w].pc \in {"grade", "mark"} /\ job[w].req.attempt = a
                 /\ job[w].req.op = "finish"

Unfinished(a) == /\ attempts[a] # Nil /\ attempts[a].completed
                 /\ attempts[a].mark = NoMark

LEMMA GradingGoesOn ==
    ASSUME DrainInv, NEW v \in Workers, Receive(v) \/ Step(v) \/ Respond(v),
           NEW w \in Workers, NEW a \in AttemptIds, Grading(w, a), Unfinished(a)'
    PROVE  Grading(w, a)'
<1>a. TypeOK /\ JobsInv /\ job[w] \in Job
  BY JobFacts DEF DrainInv, JobsInv, TypeInv
<1>1. CASE v # w
  <2>1. job'[w] = job[w]
    <3>1. CASE Step(v)
      BY <1>a, <1>1, <3>1, StepsEffect DEF StepEffect, Moves
    <3>2. CASE Receive(v) \/ Respond(v)
      BY <1>a, <1>1, <3>2 DEF Receive, Respond, TypeOK
    <3> QED
      BY <3>1, <3>2
  <2> QED
    BY <2>1 DEF Grading
<1>2. CASE v = w
  <2>1. Step(w)
    BY <1>2 DEF Receive, Respond, Grading
  <2>2. FinishGrade(w) \/ FinishMark(w)
    <3>1. job[w].pc \in {"grade", "mark"} /\ job[w].req.op = "finish"
      BY DEF Grading
    <3>2. ~TestAdminStep(w)
      BY <3>1 DEF TestAdminStep, At, Authorize, AddQuestAuth, AddQuestCheck,
         AddQuestLink, DeleteQuestAuth, DeleteQuestCheck, DeleteQuestUnlink,
         SetTestStatusAuth, SetTestStatusWrite, DeleteTestAuth, DeleteTestWrite
    <3>3. ~MembershipStep(w)
      BY <3>1 DEF MembershipStep, At, Authorize, SetBlockAuth, SetBlockWrite,
         AddUserAuth, AddUserCheck, AddUserJoin, DeleteUserAuth, DeleteUserLeave,
         DeleteCourseAuth, DeleteCourseDrop
    <3>4. ~CreateStep(w)
      BY <3>1 DEF CreateStep, At, CreateAuth, CreateMember, CreateCheckTest,
         CreateCheckDuplicate, CreateInsert, CreateReadLinks, CreateInsertAnswer,
         CreateReply
    <3>5. ~SetStep(w)
      BY <3>1 DEF SetStep, At, ReadAttempt, AuthAttempt, CheckAttempt, SetWrite
    <3>6. FinishStep(w) => FinishGrade(w) \/ FinishMark(w)
      BY <3>1 DEF FinishStep, At, ReadAttempt, AuthAttempt, CheckAttempt,
         FinishComplete
    <3> QED
      BY <2>1, <3>2, <3>3, <3>4, <3>5, <3>6 DEF Step, AttemptStep
  <2>3. CASE FinishGrade(w)
    BY <1>a, <2>3 DEF FinishGrade, Grading, TypeOK, Job
  <2>4. CASE FinishMark(w)
    <3>1. job[w].mark \in Marks /\ attempts[a] \in AttemptRow \cup {Nil}
      BY <1>a, <2>4 DEF FinishMark, At, TypeOK, TablesTypeOK, Job
    <3>2. attempts'[a] = [attempts[a] EXCEPT !.mark = job[w].mark]
      BY <1>a, <2>4 DEF FinishMark, Grading, TypeOK, TablesTypeOK
    <3>3. attempts[a] # Nil
      BY <1>a, <2>4 DEF FinishMark, At, JobsInv, TypeInv, JobWellFormed, Grading
    <3> QED
      BY <3>1, <3>2, <3>3, MarksType DEF AttemptRow, Unfinished, Marks, NoMark
  <2> QED
    BY <2>2, <2>3, <2>4
<1> QED
  BY <1>1, <1>2

LEMMA BecomesUnfinished ==
    ASSUME DrainInv, NEW w \in Workers, Step(w), NEW a \in AttemptIds,
           Unfinished(a)', ~Unfinished(a)
    PROVE  Grading(w, a)'
<1>a. /\ TypeOK /\ JobsInv /\ job[w] \in Job /\ JobWellFormed(w)
      /\ job'[w].req = job[w].req /\ job[w].req \in Request /\ job[w].req # Nil
  BY StepFacts DEF Guarded, Moves
<1>b. attempts'[a] # attempts[a]
  BY DEF Unfinished
<1>1. CASE CreateInsert(w)
  <2>1. PICK b \in AttemptIds :
           attempts' = [attempts EXCEPT ![b] =
              [user |-> job[w].req.user, test |-> job[w].req.test,
               completed |-> FALSE, mark |-> NoMark]]
    BY <1>1 DEF CreateInsert
  <2> QED
    BY <1>a, <1>b, <2>1 DEF TypeOK, TablesTypeOK, Unfinished
<1>2. CASE FinishComplete(w)
  <2>1. /\ job[w].req.op = "finish"
        /\ attempts' = [attempts EXCEPT ![job[w].req.attempt].completed = TRUE]
        /\ Goto(w, "grade")
    BY <1>2 DEF FinishComplete, At
  <2>2. a = job[w].req.attempt
    BY <1>a, <1>b, <2>1 DEF TypeOK, TablesTypeOK
  <2>3. job'[w].pc = "grade"
    BY <1>a, <2>1 DEF Goto, TypeOK, Job
  <2> QED
    BY <1>a, <2>1, <2>2, <2>3 DEF Grading
<1>3. CASE FinishMark(w)
  <2>1. job[w].mark \in Marks /\ attempts[job[w].req.attempt] \in AttemptRow
    <3>1. job[w].req.op = "finish" /\ job[w].pc = "mark"
      BY <1>3 DEF FinishMark, At
    <3>2. job[w].req.attempt \in AttemptIds /\ attempts[job[w].req.attempt] # Nil
      BY <1>a, <3>1, RequestFields DEF JobWellFormed
    <3> QED
      BY <1>a, <3>2 DEF TypeOK, TablesTypeOK, Job
  <2>2. attempts' = [attempts EXCEPT ![job[w].req.attempt].mark = job[w].mark]
    BY <1>3 DEF FinishMark
  <2>3. attempts'[a] = [attempts[a] EXCEPT !.mark = job[w].mark]
        /\ a = job[w].req.attempt
    BY <1>a, <1>b, <2>2 DEF TypeOK, TablesTypeOK
  <2> QED
    BY <2>1, <2>3, MarksType DEF AttemptRow, Unfinished, Marks, NoMark
<1>4. CASE UNCHANGED attempts
  BY <1>4, <1>b
<1> QED
  BY <1>1, <1>2, <1>3, <1>4, StepWrites DEF EditsTest, EditsAccess, EditsAttempt,
     AddQuestLink, DeleteQuestUnlink, SetTestStatusWrite, DeleteTestWrite, SetBlockWrite,
     AddUserJoin, DeleteUserLeave, DeleteCourseDrop, CreateInsertAnswer, SetWrite, dbVars,
     examVars

(* While calls do not fail, requests name tests and questions that exist   *)
(* and nobody stops the server, an attempt that is completed and not marked has its   *)
(* finish between the two writes (AttemptRestController.cpp:133-160): none *)
(* is ever orphaned, and by HandlersTerminate the mark is at most two      *)
(* steps of that thread away.  This is the part of CompletedGetsMarked     *)
(* that does not speak of fairness.                                        *)
MarkOnItsWay ==
    \A a \in AttemptIds : Unfinished(a) =>
        ~Orphaned(a) /\ \E w \in Workers : Grading(w, a) /\ StepsLeft(w) <= 2

THEOREM MarksOnTheirWay ==
    ASSUME ~Faults, Missing = {}, Phantoms = {} PROVE Spec => []MarkOnItsWay
<1> DEFINE Graded == \A a \in AttemptIds : Unfinished(a) => \E w \in Workers : Grading(w, a)
<1>1. Init => Graded
  BY DEF Init, Unfinished
<1>2. ASSUME DrainInv, Graded, Next PROVE Graded'
  <2> SUFFICES ASSUME NEW a \in AttemptIds, Unfinished(a)'
               PROVE  \E w \in Workers : Grading(w, a)'
    OBVIOUS
  <2>1. PICK v \in Workers : Receive(v) \/ Step(v) \/ Respond(v)
    BY <1>2 DEF Next, Abort, Crash, Miss, MissTest, Doomed, MissQuest, Ungradable
  <2>2. CASE Unfinished(a)
    BY <1>2, <2>1, <2>2, GradingGoesOn
  <2>3. CASE ~Unfinished(a)
    <3>1. Step(v)
      BY <2>1, <2>3 DEF Receive, Respond, dbVars, examVars, Unfinished
    <3> QED
      BY <1>2, <2>3, <3>1, BecomesUnfinished
  <2> QED
    BY <2>2, <2>3
<1>3. ASSUME Graded, UNCHANGED vars PROVE Graded'
  BY <1>3 DEF vars, dbVars, examVars, Unfinished, Grading
<1>4. DrainInv /\ Graded /\ [Next]_vars => Graded'
  BY <1>2, <1>3
<1>5. ASSUME DrainInv, NEW a \in AttemptIds, NEW w \in Workers, Grading(w, a)
      PROVE  ~Orphaned(a) /\ StepsLeft(w) <= 2
  <2>1. ~Orphaned(a)
    BY <1>5 DEF DrainInv, InOrder, Grading, Orphaned, Busy
  <2>2. StepsLeft(w) <= 2
    BY <1>5 DEF Grading, StepsLeft, StepsFrom
  <2> QED
    BY <2>1, <2>2
<1>6. DrainInv /\ Graded => MarkOnItsWay
  BY <1>5 DEF MarkOnItsWay
<1> QED
  BY <1>1, <1>4, <1>6, DrainInvariant, SpecIsMortal, PTL DEF Spec
=============================================================================
