------------------------ MODULE AttemptSafety_proofs ------------------------
(***************************************************************************)
(* What the attempt handlers keep true however many requests of a student  *)
(* are in flight, for every value of the constants, failures and restarts  *)
(* included.                                                               *)
(***************************************************************************)
EXTENDS AppServer_proofs

-----------------------------------------------------------------------------
(* The inductive invariant.                                                *)

\* Past its checks, a handler works for the attempt's own student.
ActsForOwner(w) ==
    job[w].req # Nil =>
        /\ job[w].req.op = "create"
           /\ job[w].pc \in {"tcheck", "dup", "insert", "sheet", "answers"}
           => job[w].req.user = job[w].req.subject
        /\ job[w].req.op = "create" /\ job[w].pc \in {"sheet", "answers"}
           => attempts[job[w].attempt].user = job[w].req.subject
        /\ job[w].req.op \in {"set", "finish"}
           /\ job[w].pc \in {"tcheck", "write", "complete", "grade", "mark"}
           => attempts[job[w].req.attempt].user = job[w].req.subject

\* finish grades a completed attempt, and has marked it when it answers its
\* student 200.
FinishInOrder(w) ==
    job[w].req # Nil /\ job[w].req.op = "finish" =>
        LET a == job[w].req.attempt
        IN  /\ job[w].pc \in {"grade", "mark"} => attempts[a].completed
            /\ job[w].pc = "done" /\ job[w].code = 200 =>
                  /\ attempts[a] # Nil
                  /\ attempts[a].user = job[w].req.subject => Marked(a)

JobSafe(w) == ActsForOwner(w) /\ FinishInOrder(w)

JobsInv == TypeInv /\ \A w \in Workers : JobSafe(w)

\* What AttemptsOnlyAdvance says of one attempt and one step.
Advances(a) ==
    attempts[a] # Nil =>
        /\ attempts'[a] # Nil
        /\ attempts'[a].user = attempts[a].user
        /\ attempts'[a].test = attempts[a].test
        /\ attempts[a].completed => attempts'[a].completed
        /\ attempts[a].mark # NoMark => attempts'[a].mark # NoMark
        /\ attempts'[a].mark # attempts[a].mark => attempts[a].completed

\* Thread w goes on with its request; the other threads do not move.
Moves(w) ==
    /\ job'[w].req = job[w].req
    /\ \A v \in Workers : v # w => job'[v] = job[v]

-----------------------------------------------------------------------------
(* What the steps of the handlers do to the jobs and to the tables         *)
(* attempts and answers.                                                   *)

LEMMA JobFacts ==
    ASSUME TypeInv, NEW w \in Workers
    PROVE  /\ TypeOK /\ JobWellFormed(w) /\ job[w] \in Job
           /\ job[w].pc # "idle" => job[w].req \in Request /\ job[w].req # Nil
           /\ job[w].req # Nil => job[w].req \in Request
  BY DEF TypeInv, TypeOK, JobWellFormed, Job

LEMMA GotoMoves ==
    ASSUME TypeInv, NEW w \in Workers, NEW pc \in Pcs, Goto(w, pc)
    PROVE  Moves(w) /\ job'[w].pc = pc /\ job'[w].attempt = job[w].attempt
  BY JobFacts, GotoJob DEF Moves

LEMMA ReplyMoves ==
    ASSUME TypeInv, NEW w \in Workers, NEW code \in Codes, Reply(w, code)
    PROVE  Moves(w) /\ job'[w].pc = "done" /\ job'[w].code = code
  BY JobFacts, ReplyJob DEF Moves

LEMMA AuthorizeMoves ==
    ASSUME TypeInv, NEW w \in Workers, NEW op, NEW permission, NEW own,
           NEW next \in Pcs, Authorize(w, op, permission, own, next)
    PROVE  /\ Moves(w) /\ job[w].req.op = op /\ job[w].pc = "auth"
           /\ job'[w].pc \in {next, "done"} /\ UNCHANGED dbVars
<1>1. PICK code \in ValidateWithBlockHandle(job[w].req.subject,
                                           permission \in Grants[job[w].req.subject]) :
         Goto(w, next) \/ Reply(w, code)
  BY DEF Authorize
<1>2. code \in Codes
  BY ValidateCodes
<1> QED
  BY <1>1, <1>2, GotoMoves, ReplyMoves DEF Authorize, At

AdminEffect(w) ==
    /\ Moves(w) /\ UNCHANGED examVars
    /\ job[w].req.op \notin {"create", "set", "finish"}
    /\ job'[w].pc # "insert"

LEMMA TestAdminEffect ==
    ASSUME TypeInv, NEW w \in Workers, TestAdminStep(w) PROVE AdminEffect(w)
<1>1. CASE AddQuestAuth(w)
  BY <1>1, AuthorizeMoves DEF AddQuestAuth, AdminEffect, dbVars, Pcs, TestAdminPcs
<1>2. CASE AddQuestCheck(w)
  BY <1>2, GotoMoves, ReplyMoves
     DEF AddQuestCheck, At, AdminEffect, dbVars, Pcs, TestAdminPcs, Codes
<1>3. CASE AddQuestLink(w)
  BY <1>3, CommitCodesType, ReplyMoves DEF AddQuestLink, At, AdminEffect
<1>4. CASE DeleteQuestAuth(w)
  BY <1>4, AuthorizeMoves DEF DeleteQuestAuth, AdminEffect, dbVars, Pcs, TestAdminPcs
<1>5. CASE DeleteQuestCheck(w)
  BY <1>5, GotoMoves, ReplyMoves
     DEF DeleteQuestCheck, At, AdminEffect, dbVars, Pcs, TestAdminPcs, Codes
<1>6. CASE DeleteQuestUnlink(w)
  BY <1>6, CommitCodesType, ReplyMoves DEF DeleteQuestUnlink, At, AdminEffect
<1>7. CASE SetTestStatusAuth(w)
  BY <1>7, AuthorizeMoves DEF SetTestStatusAuth, AdminEffect, dbVars, Pcs, TestAdminPcs
<1>8. CASE SetTestStatusWrite(w)
  BY <1>8, CommitCodesType, ReplyMoves DEF SetTestStatusWrite, At, AdminEffect
<1>9. CASE DeleteTestAuth(w)
  BY <1>9, AuthorizeMoves DEF DeleteTestAuth, AdminEffect, dbVars, Pcs, TestAdminPcs
<1>10. CASE DeleteTestWrite(w)
  BY <1>10, CommitCodesType, ReplyMoves DEF DeleteTestWrite, At, AdminEffect
<1> QED
  BY <1>1, <1>2, <1>3, <1>4, <1>5, <1>6, <1>7, <1>8, <1>9, <1>10 DEF TestAdminStep

LEMMA MembershipEffect ==
    ASSUME TypeInv, NEW w \in Workers, MembershipStep(w) PROVE AdminEffect(w)
<1>1. CASE SetBlockAuth(w)
  BY <1>1, AuthorizeMoves DEF SetBlockAuth, AdminEffect, dbVars, Pcs, MembershipPcs
<1>2. CASE SetBlockWrite(w)
  BY <1>2, CommitCodesType, ReplyMoves DEF SetBlockWrite, At, AdminEffect
<1>3. CASE AddUserAuth(w)
  BY <1>3, AuthorizeMoves DEF AddUserAuth, AdminEffect, dbVars, Pcs, MembershipPcs
<1>4. CASE AddUserCheck(w)
  BY <1>4, GotoMoves, ReplyMoves
     DEF AddUserCheck, At, AdminEffect, dbVars, Pcs, MembershipPcs, Codes
<1>5. CASE AddUserJoin(w)
  BY <1>5, CommitCodesType, ReplyMoves DEF AddUserJoin, At, AdminEffect
<1>6. CASE DeleteUserAuth(w)
  BY <1>6, AuthorizeMoves DEF DeleteUserAuth, AdminEffect, dbVars, Pcs, MembershipPcs
<1>7. CASE DeleteUserLeave(w)
  BY <1>7, CommitCodesType, ReplyMoves DEF DeleteUserLeave, At, AdminEffect
<1>8. CASE DeleteCourseAuth(w)
  BY <1>8, AuthorizeMoves DEF DeleteCourseAuth, AdminEffect, dbVars, Pcs, MembershipPcs
<1>9. CASE DeleteCourseDrop(w)
  BY <1>9, CommitCodesType, ReplyMoves DEF DeleteCourseDrop, At, AdminEffect
<1> QED
  BY <1>1, <1>2, <1>3, <1>4, <1>5, <1>6, <1>7, <1>8, <1>9 DEF MembershipStep

-----------------------------------------------------------------------------
(* Preserving JobSafe.  A thread that does not move keeps it when attempts *)
(* only advance.                                                           *)

LEMMA OthersSafe ==
    ASSUME JobsInv, NEW w \in Workers, Moves(w),
           \A a \in AttemptIds : Advances(a)
    PROVE  \A v \in Workers : v # w => JobSafe(v)'
<1> SUFFICES ASSUME NEW v \in Workers, v # w PROVE JobSafe(v)'
  OBVIOUS
<1>1. JobSafe(v) /\ job'[v] = job[v] /\ JobWellFormed(v) /\ job[v] \in Job
  BY JobFacts DEF JobsInv, Moves
<1>2. job[v].req # Nil => job[v].req \in Request
  BY JobFacts DEF JobsInv
<1>3. job[v].req # Nil /\ job[v].req.op \in {"set", "finish"} =>
         Advances(job[v].req.attempt)
  BY <1>2, RequestFields
<1>4. job[v].attempt # Nil => Advances(job[v].attempt)
  BY <1>1 DEF Job
<1>5. ActsForOwner(v)'
  BY <1>1, <1>3, <1>4 DEF JobSafe, ActsForOwner, JobWellFormed, Advances
<1>6. FinishInOrder(v)'
  BY <1>1, <1>3 DEF JobSafe, FinishInOrder, JobWellFormed, Advances, Marked
<1> QED
  BY <1>5, <1>6 DEF JobSafe

LEMMA SameAttemptsAdvance ==
    ASSUME attempts' = attempts PROVE \A a \in AttemptIds : Advances(a)
  BY DEF Advances

\* An answer other than finish's own 200 asks nothing of the tables.
LEMMA ReplySafe ==
    ASSUME JobsInv, NEW w \in Workers, job[w].pc # "idle",
           NEW code \in Codes, Reply(w, code),
           job[w].req.op = "finish" => code # 200
    PROVE  Moves(w) /\ JobSafe(w)' /\ job'[w].pc = "done"
  BY ReplyMoves DEF JobsInv, JobSafe, ActsForOwner, FinishInOrder, Moves

LEMMA AdminSafe ==
    ASSUME JobsInv, NEW w \in Workers, AdminEffect(w) PROVE JobSafe(w)'
  BY DEF AdminEffect, Moves, JobSafe, ActsForOwner, FinishInOrder

StepEffect(w) ==
    /\ Moves(w) /\ JobSafe(w)'
    /\ \A a \in AttemptIds : Advances(a)

LEMMA CreateEffect ==
    ASSUME JobsInv, NEW w \in Workers, CreateStep(w) PROVE StepEffect(w)
<1> DEFINE r == job[w].req
<1>a. TypeInv /\ JobSafe(w) /\ TypeOK /\ JobWellFormed(w) /\ job[w] \in Job
  BY JobFacts DEF JobsInv
<1>b. UNCHANGED dbVars => attempts' = attempts
  BY DEF dbVars, examVars
<1>c. ASSUME r.op = "create", attempts' = attempts, job[w].pc # "idle",
             Reply(w, 200) \/ Reply(w, 403)
      PROVE  StepEffect(w)
  BY <1>c, ReplySafe, SameAttemptsAdvance DEF StepEffect, Codes
<1>1. CASE CreateAuth(w)
  <2>1. r.op = "create" /\ job[w].pc = "auth" /\ attempts' = attempts
    BY <1>1, <1>b DEF CreateAuth, At
  <2>2. CASE Goto(w, "member")
    <3>1. Moves(w) /\ job'[w].pc = "member"
      BY <1>a, <2>2, GotoMoves DEF Pcs, AttemptPcs
    <3> QED
      BY <2>1, <3>1, SameAttemptsAdvance
         DEF StepEffect, Moves, JobSafe, ActsForOwner, FinishInOrder
  <2> QED
    BY <1>1, <1>c, <2>1, <2>2 DEF CreateAuth
<1>2. CASE CreateMember(w)
  <2>1. r.op = "create" /\ job[w].pc = "member" /\ attempts' = attempts
    BY <1>2, <1>b DEF CreateMember, At
  <2>2. CASE Goto(w, "tcheck") /\ r.user = r.subject
    <3>1. Moves(w) /\ job'[w].pc = "tcheck"
      BY <1>a, <2>2, GotoMoves DEF Pcs, AttemptPcs
    <3> QED
      BY <2>1, <2>2, <3>1, SameAttemptsAdvance
         DEF StepEffect, Moves, JobSafe, ActsForOwner, FinishInOrder
  <2> QED
    BY <1>2, <1>c, <2>1, <2>2 DEF CreateMember
<1>3. CASE CreateCheckTest(w)
  <2>1. r.op = "create" /\ job[w].pc = "tcheck" /\ attempts' = attempts
    BY <1>3, <1>b DEF CreateCheckTest, At
  <2>2. CASE Goto(w, "dup")
    <3>1. Moves(w) /\ job'[w].pc = "dup"
      BY <1>a, <2>2, GotoMoves DEF Pcs, AttemptPcs
    <3> QED
      BY <1>a, <2>1, <3>1, SameAttemptsAdvance
         DEF StepEffect, Moves, JobSafe, ActsForOwner, FinishInOrder
  <2> QED
    BY <1>3, <1>c, <2>1, <2>2 DEF CreateCheckTest
<1>4. CASE CreateCheckDuplicate(w)
  <2>1. r.op = "create" /\ job[w].pc = "dup" /\ attempts' = attempts
    BY <1>4, <1>b DEF CreateCheckDuplicate, At
  <2>2. CASE Goto(w, "insert")
    <3>1. Moves(w) /\ job'[w].pc = "insert"
      BY <1>a, <2>2, GotoMoves DEF Pcs, AttemptPcs
    <3> QED
      BY <1>a, <2>1, <3>1, SameAttemptsAdvance
         DEF StepEffect, Moves, JobSafe, ActsForOwner, FinishInOrder
  <2> QED
    BY <1>4, <1>c, <2>1, <2>2 DEF CreateCheckDuplicate
<1>5. CASE CreateInsert(w)
  <2>1. r.op = "create" /\ job[w].pc = "insert" /\ r # Nil
    BY <1>5, <1>a DEF CreateInsert, At, JobWellFormed
  <2>2. PICK a \in AttemptIds :
           /\ attempts[a] = Nil
           /\ attempts' = [attempts EXCEPT ![a] =
                 [user |-> r.user, test |-> r.test,
                  completed |-> FALSE, mark |-> NoMark]]
           /\ job' = [job EXCEPT ![w].pc = "sheet", ![w].attempt = a]
    BY <1>5 DEF CreateInsert
  <2>3. \A b \in AttemptIds : Advances(b)
    BY <1>a, <2>2 DEF Advances, TypeOK, TablesTypeOK
  <2>4. /\ Moves(w) /\ job'[w].pc = "sheet" /\ job'[w].attempt = a
    BY <1>a, <2>2 DEF Moves, TypeOK, Job
  <2>5. attempts'[a].user = r.subject /\ r.user = r.subject
    BY <1>a, <2>1, <2>2 DEF TypeOK, TablesTypeOK, JobSafe, ActsForOwner
  <2> QED
    BY <2>1, <2>3, <2>4, <2>5
       DEF StepEffect, Moves, JobSafe, ActsForOwner, FinishInOrder
<1>6. CASE CreateReadLinks(w)
  <2>1. r.op = "create" /\ job[w].pc = "sheet" /\ r # Nil /\ attempts' = attempts
    BY <1>6, <1>a, <1>b DEF CreateReadLinks, At, JobWellFormed
  <2>2. Moves(w) /\ job'[w].pc = "answers" /\ job'[w].attempt = job[w].attempt
    BY <1>6, <1>a DEF CreateReadLinks, Moves, TypeOK, Job
  <2> QED
    BY <1>a, <2>1, <2>2, SameAttemptsAdvance
       DEF StepEffect, Moves, JobSafe, ActsForOwner, FinishInOrder
<1>7. CASE CreateInsertAnswer(w)
  <2>1. r.op = "create" /\ job[w].pc = "answers" /\ r # Nil /\ attempts' = attempts
    BY <1>7, <1>a DEF CreateInsertAnswer, At, JobWellFormed
  <2>2. Moves(w) /\ job'[w].pc = "answers" /\ job'[w].attempt = job[w].attempt
    BY <1>7, <1>a, <2>1 DEF CreateInsertAnswer, Moves, TypeOK, Job
  <2> QED
    BY <1>a, <2>1, <2>2, SameAttemptsAdvance
       DEF StepEffect, Moves, JobSafe, ActsForOwner, FinishInOrder
<1>8. CASE CreateReply(w)
  BY <1>8, <1>b, <1>c DEF CreateReply, At
<1> QED
  BY <1>1, <1>2, <1>3, <1>4, <1>5, <1>6, <1>7, <1>8 DEF CreateStep

LEMMA ReadAttemptEffect ==
    ASSUME JobsInv, NEW w \in Workers, NEW op \in {"set", "finish"},
           NEW missing \in Codes \ {200}, ReadAttempt(w, op, missing)
    PROVE  StepEffect(w)
<1> DEFINE row == attempts[job[w].req.attempt]
<1>a. TypeInv /\ TypeOK /\ job[w] \in Job
  BY JobFacts DEF JobsInv
<1>1. job[w].pc = "row" /\ job[w].req.op = op /\ attempts' = attempts
  BY DEF ReadAttempt, At, dbVars, examVars
<1>2. CASE Reply(w, missing)
  BY <1>1, <1>2, ReplySafe, SameAttemptsAdvance DEF StepEffect
<1>3. CASE job' = [job EXCEPT ![w].pc = "auth", ![w].completed = row.completed]
  <2>1. Moves(w) /\ job'[w].pc = "auth"
    BY <1>3, <1>a DEF Moves, TypeOK, Job
  <2> QED
    BY <1>1, <2>1, SameAttemptsAdvance
       DEF StepEffect, Moves, JobSafe, ActsForOwner, FinishInOrder
<1> QED
  BY <1>2, <1>3 DEF ReadAttempt

\* The 200 a caller who is not the attempt's student gets marks nothing.
LEMMA AuthAttemptEffect ==
    ASSUME JobsInv, NEW w \in Workers, NEW op \in {"set", "finish"},
           AuthAttempt(w, op)
    PROVE  StepEffect(w)
<1> DEFINE r == job[w].req
<1>a. TypeInv /\ TypeOK /\ JobWellFormed(w) /\ job[w] \in Job
  BY JobFacts DEF JobsInv
<1>1. /\ job[w].pc = "auth" /\ r.op = op /\ attempts' = attempts
      /\ attempts[r.attempt] # Nil
  BY <1>a DEF AuthAttempt, At, dbVars, examVars, JobWellFormed
<1>2. PICK code \in ValidateWithBlockHandle(r.subject, TRUE) :
         IF code = 200 /\ attempts[r.attempt].user = r.subject
         THEN Goto(w, "tcheck") ELSE Reply(w, code)
  BY DEF AuthAttempt
<1>3. CASE code = 200 /\ attempts[r.attempt].user = r.subject
  <2>1. Moves(w) /\ job'[w].pc = "tcheck"
    BY <1>2, <1>3, <1>a, GotoMoves DEF Pcs, AttemptPcs
  <2> QED
    BY <1>1, <1>3, <2>1, SameAttemptsAdvance
       DEF StepEffect, Moves, JobSafe, ActsForOwner, FinishInOrder
<1>4. CASE ~(code = 200 /\ attempts[r.attempt].user = r.subject)
  <2>1. Moves(w) /\ job'[w].pc = "done" /\ job'[w].code = code
    BY <1>2, <1>4, <1>a, ValidateCodes, ReplyMoves
  <2> QED
    BY <1>1, <1>4, <2>1, SameAttemptsAdvance
       DEF StepEffect, Moves, JobSafe, ActsForOwner, FinishInOrder
<1> QED
  BY <1>3, <1>4

LEMMA CheckAttemptEffect ==
    ASSUME JobsInv, NEW w \in Workers, NEW op \in {"set", "finish"},
           NEW next \in {"write", "complete"}, CheckAttempt(w, op, next)
    PROVE  StepEffect(w)
<1>a. TypeInv /\ JobSafe(w)
  BY DEF JobsInv
<1>1. job[w].pc = "tcheck" /\ job[w].req.op = op /\ attempts' = attempts
  BY DEF CheckAttempt, At, dbVars, examVars
<1>2. CASE Goto(w, next)
  <2>1. Moves(w) /\ job'[w].pc = next
    BY <1>2, <1>a, GotoMoves DEF Pcs, AttemptPcs
  <2> QED
    BY <1>a, <1>1, <2>1, SameAttemptsAdvance
       DEF StepEffect, Moves, JobSafe, ActsForOwner, FinishInOrder
<1>3. CASE Reply(w, 403)
  BY <1>1, <1>3, ReplySafe, SameAttemptsAdvance DEF StepEffect, Codes
<1> QED
  BY <1>2, <1>3 DEF CheckAttempt

LEMMA SetEffect ==
    ASSUME JobsInv, NEW w \in Workers, SetStep(w) PROVE StepEffect(w)
<1>1. CASE ReadAttempt(w, "set", 404)
  BY <1>1, ReadAttemptEffect DEF Codes
<1>2. CASE AuthAttempt(w, "set")
  BY <1>2, AuthAttemptEffect
<1>3. CASE CheckAttempt(w, "set", "write")
  BY <1>3, CheckAttemptEffect
<1>4. CASE SetWrite(w)
  <2>1. job[w].pc = "write" /\ job[w].req.op = "set" /\ attempts' = attempts
    BY <1>4 DEF SetWrite, At
  <2>2. PICK code \in SetCodes(job[w].req.quest) : Reply(w, code)
    BY <1>4 DEF SetWrite
  <2> QED
    BY <2>1, <2>2, SetCodesType, ReplySafe, SameAttemptsAdvance DEF StepEffect
<1> QED
  BY <1>1, <1>2, <1>3, <1>4 DEF SetStep

LEMMA FinishEffect ==
    ASSUME JobsInv, NEW w \in Workers, FinishStep(w) PROVE StepEffect(w)
<1> DEFINE r == job[w].req
<1>a. TypeInv /\ JobSafe(w) /\ TypeOK /\ JobWellFormed(w) /\ job[w] \in Job
  BY JobFacts DEF JobsInv
<1>b. job[w].pc \notin {"idle", "row", "done"} /\ r.op = "finish" =>
         /\ r # Nil /\ r.attempt \in AttemptIds
         /\ attempts[r.attempt] \in AttemptRow /\ attempts[r.attempt] # Nil
  BY <1>a, RequestFields DEF JobWellFormed, Job, TypeOK, TablesTypeOK
<1>1. CASE ReadAttempt(w, "finish", 500)
  BY <1>1, ReadAttemptEffect DEF Codes
<1>2. CASE AuthAttempt(w, "finish")
  BY <1>2, AuthAttemptEffect
<1>3. CASE CheckAttempt(w, "finish", "complete")
  BY <1>3, CheckAttemptEffect
<1>4. CASE FinishComplete(w)
  <2> DEFINE row == [attempts[r.attempt] EXCEPT !.completed = TRUE]
  <2>1. job[w].pc = "complete" /\ r.op = "finish"
    BY <1>4 DEF FinishComplete, At
  <2>2. attempts' = [attempts EXCEPT ![r.attempt] = row]
    BY <1>4 DEF FinishComplete
  <2>3. /\ row.user = attempts[r.attempt].user /\ row.test = attempts[r.attempt].test
        /\ row.mark = attempts[r.attempt].mark /\ row.completed = TRUE
    BY <1>b, <2>1 DEF AttemptRow
  <2>4. row # Nil
    <3>1. row \in AttemptRow
      BY <1>b, <2>1 DEF AttemptRow
    <3> QED
      BY <3>1, ConstantsAssumption
  <2>5. attempts'[r.attempt] = row
        /\ \A a \in AttemptIds : a # r.attempt => attempts'[a] = attempts[a]
    BY <1>a, <1>b, <2>1, <2>2 DEF TypeOK, TablesTypeOK
  <2>6. \A a \in AttemptIds : Advances(a)
    BY <2>3, <2>4, <2>5 DEF Advances
  <2>7. Moves(w) /\ job'[w].pc = "grade"
    BY <1>4, <1>a, GotoMoves DEF FinishComplete, Pcs, AttemptPcs
  <2> QED
    <3>1. /\ attempts'[r.attempt].completed
          /\ attempts'[r.attempt].user = attempts[r.attempt].user
      BY <2>3, <2>5
    <3>2. job'[w].req = r
      BY <2>7 DEF Moves
    <3>3. ActsForOwner(w)'
      BY <1>a, <1>b, <2>1, <2>7, <3>1, <3>2 DEF JobSafe, ActsForOwner
    <3>4. FinishInOrder(w)'
      BY <2>7, <3>1, <3>2 DEF FinishInOrder
    <3> QED
      BY <2>6, <2>7, <3>3, <3>4 DEF StepEffect, JobSafe
<1>5. CASE FinishGrade(w)
  <2>1. job[w].pc = "grade" /\ r.op = "finish" /\ attempts' = attempts
    BY <1>5 DEF FinishGrade, At, dbVars, examVars
  <2>2. Moves(w) /\ job'[w].pc = "mark"
    BY <1>5, <1>a DEF FinishGrade, Moves, TypeOK, Job
  <2> QED
    BY <1>a, <1>b, <2>1, <2>2, SameAttemptsAdvance
       DEF StepEffect, Moves, JobSafe, ActsForOwner, FinishInOrder
<1>6. CASE FinishMark(w)
  <2> DEFINE row == [attempts[r.attempt] EXCEPT !.mark = job[w].mark]
  <2>1. job[w].pc = "mark" /\ r.op = "finish"
    BY <1>6 DEF FinishMark, At
  <2>2. attempts' = [attempts EXCEPT ![r.attempt] = row]
    BY <1>6 DEF FinishMark
  <2>3. attempts[r.attempt].completed
    BY <1>a, <1>b, <2>1 DEF JobSafe, FinishInOrder
  <2>4. job[w].mark # NoMark
    BY <1>a, MarksType DEF Job, Marks, NoMark
  <2>5. /\ row.user = attempts[r.attempt].user /\ row.test = attempts[r.attempt].test
        /\ row.mark = job[w].mark /\ row.completed = attempts[r.attempt].completed
    BY <1>b, <2>1 DEF AttemptRow
  <2>6. row # Nil
    <3>1. row \in AttemptRow
      BY <1>a, <1>b, <2>1 DEF AttemptRow, Job
    <3> QED
      BY <3>1, ConstantsAssumption
  <2>7. attempts'[r.attempt] = row
        /\ \A a \in AttemptIds : a # r.attempt => attempts'[a] = attempts[a]
    BY <1>a, <1>b, <2>1, <2>2 DEF TypeOK, TablesTypeOK
  <2>8. \A a \in AttemptIds : Advances(a)
    BY <2>3, <2>4, <2>5, <2>6, <2>7 DEF Advances
  <2>9. Moves(w) /\ job'[w].pc = "done"
    BY <1>6, <1>a, CommitCodesType, ReplyMoves DEF FinishMark
  <2> QED
    <3>1. /\ attempts'[r.attempt] # Nil
          /\ attempts'[r.attempt].completed
          /\ attempts'[r.attempt].mark # NoMark
      BY <2>3, <2>4, <2>5, <2>6, <2>7
    <3>2. job'[w].req = r
      BY <2>9 DEF Moves
    <3>3. ActsForOwner(w)'
      BY <2>1, <2>9, <3>2 DEF ActsForOwner
    <3>4. FinishInOrder(w)'
      BY <2>9, <3>1, <3>2 DEF FinishInOrder, Marked
    <3> QED
      BY <2>8, <2>9, <3>3, <3>4 DEF StepEffect, JobSafe
<1> QED
  BY <1>1, <1>2, <1>3, <1>4, <1>5, <1>6 DEF FinishStep

LEMMA StepsEffect ==
    ASSUME JobsInv, NEW w \in Workers, Step(w) PROVE StepEffect(w)
<1>1. TypeInv
  BY DEF JobsInv
<1>2. CASE TestAdminStep(w) \/ MembershipStep(w)
  <2>1. AdminEffect(w)
    BY <1>1, <1>2, TestAdminEffect, MembershipEffect
  <2>2. attempts' = attempts
    BY <2>1 DEF AdminEffect, examVars
  <2> QED
    BY <2>1, <2>2, AdminSafe, SameAttemptsAdvance DEF StepEffect, AdminEffect
<1> QED
  BY <1>2, CreateEffect, SetEffect, FinishEffect DEF Step, AttemptStep

-----------------------------------------------------------------------------
LEMMA InitJobsInv == Init => JobsInv
<1> SUFFICES ASSUME Init PROVE JobsInv
  OBVIOUS
<1>1. \A w \in Workers : JobSafe(w)
  BY DEF Init, IdleJob, JobSafe, ActsForOwner, FinishInOrder
<1> QED
  BY <1>1, InitTypeInv DEF JobsInv

LEMMA NextJobsInv ==
    ASSUME JobsInv, [MortalNext]_vars
    PROVE  JobsInv' /\ \A a \in AttemptIds : Advances(a)
<1>a. TypeInv /\ TypeOK /\ TypeInv'
  BY NextTypeInv DEF JobsInv, TypeInv
<1>b. UNCHANGED dbVars => \A a \in AttemptIds : Advances(a)
  BY SameAttemptsAdvance DEF dbVars, examVars
<1>1. ASSUME NEW w \in Workers, Receive(w)
      PROVE  (\A v \in Workers : JobSafe(v)') /\ \A a \in AttemptIds : Advances(a)
  <2>1. PICK r \in Requests :
           job' = [job EXCEPT ![w] = [IdleJob EXCEPT !.pc = Entry(r), !.req = r]]
    BY <1>1 DEF Receive
  <2>2. /\ job'[w] = [IdleJob EXCEPT !.pc = Entry(r), !.req = r]
        /\ \A v \in Workers : v # w => job'[v] = job[v]
    BY <1>a, <2>1 DEF TypeOK
  <2>3. job'[w].pc \in {"row", "auth"}
    BY <2>2 DEF IdleJob, Entry
  <2>4. JobSafe(w)'
    BY <2>3 DEF JobSafe, ActsForOwner, FinishInOrder
  <2>5. attempts' = attempts
    BY <1>1 DEF Receive, dbVars, examVars
  <2>6. \A v \in Workers : v # w => JobSafe(v)'
    BY <2>2, <2>5 DEF JobsInv, JobSafe, ActsForOwner, FinishInOrder, Marked
  <2> QED
    BY <2>4, <2>5, <2>6, SameAttemptsAdvance
<1>2. ASSUME NEW w \in Workers, Step(w)
      PROVE  (\A v \in Workers : JobSafe(v)') /\ \A a \in AttemptIds : Advances(a)
  BY <1>2, StepsEffect, OthersSafe DEF StepEffect
<1>3. ASSUME NEW w \in Workers, Abort(w)
      PROVE  (\A v \in Workers : JobSafe(v)') /\ \A a \in AttemptIds : Advances(a)
  <2>1. Moves(w) /\ JobSafe(w)' /\ \A a \in AttemptIds : Advances(a)
    BY <1>3, <1>b, ReplySafe DEF Abort, Codes
  <2> QED
    BY <2>1, OthersSafe
<1>4. ASSUME NEW w \in Workers, Respond(w)
      PROVE  (\A v \in Workers : JobSafe(v)') /\ \A a \in AttemptIds : Advances(a)
  <2>1. /\ job'[w] = IdleJob /\ \A v \in Workers : v # w => job'[v] = job[v]
    BY <1>4, <1>a DEF Respond, TypeOK
  <2>2. JobSafe(w)'
    BY <2>1 DEF IdleJob, JobSafe, ActsForOwner, FinishInOrder
  <2>3. attempts' = attempts
    BY <1>4 DEF Respond, dbVars, examVars
  <2>4. \A v \in Workers : v # w => JobSafe(v)'
    BY <2>1, <2>3 DEF JobsInv, JobSafe, ActsForOwner, FinishInOrder, Marked
  <2> QED
    BY <2>2, <2>3, <2>4, SameAttemptsAdvance
<1>5. CASE Stop
  <2>1. \A v \in Workers : JobSafe(v)'
    BY <1>5 DEF Stop, IdleJob, JobSafe, ActsForOwner, FinishInOrder
  <2> QED
    BY <1>5, <1>a, <1>b, <2>1 DEF Stop, JobsInv
<1>6. CASE UNCHANGED vars
  <2>1. UNCHANGED <<attempts, job, dbVars>>
    BY <1>6 DEF vars, dbVars, examVars
  <2>2. \A v \in Workers : JobSafe(v)'
    BY <2>1 DEF JobsInv, JobSafe, ActsForOwner, FinishInOrder, Marked
  <2> QED
    BY <1>a, <1>b, <2>1, <2>2 DEF JobsInv
<1> QED
  BY <1>a, <1>1, <1>2, <1>3, <1>4, <1>5, <1>6, MortalCases DEF JobsInv

(* The handlers in flight never leave their order, on any state.           *)
THEOREM JobsInvariant == MortalSpec => []JobsInv
<1>1. JobsInv /\ [MortalNext]_vars => JobsInv'
  BY NextJobsInv
<1> QED
  BY <1>1, InitJobsInv, PTL DEF MortalSpec

LEMMA MortalFinishAcknowledged == MortalSpec => []FinishOkMeansMarked
<1>1. JobsInv => FinishOkMeansMarked
  <2> SUFFICES ASSUME JobsInv, NEW w \in Workers,
                      job[w].pc = "done" /\ job[w].code = 200,
                      job[w].req.op = "finish",
                      attempts[job[w].req.attempt].user = job[w].req.subject
               PROVE  Marked(job[w].req.attempt)
    BY DEF FinishOkMeansMarked
  <2>1. job[w].req # Nil
    BY DEF JobsInv, TypeInv, JobWellFormed
  <2> QED
    BY <2>1 DEF JobsInv, JobSafe, FinishInOrder
<1> QED
  BY <1>1, JobsInvariant, PTL

(* finish (AttemptRestController.cpp:127-171) answers its student 200 only *)
(* after both of its writes: no interleaving of finish requests, failure   *)
(* or restart leaves an acknowledged attempt without a mark.               *)
THEOREM FinishAcknowledged == Spec => []FinishOkMeansMarked
  BY MortalFinishAcknowledged, SpecIsMortal, PTL

LEMMA MortalAttemptsAdvance == MortalSpec => AttemptsOnlyAdvance
<1>1. JobsInv /\ [MortalNext]_vars =>
         [\A a \in AttemptIds :
             attempts[a] # Nil =>
                 /\ attempts'[a] # Nil
                 /\ attempts'[a].user = attempts[a].user
                 /\ attempts'[a].test = attempts[a].test
                 /\ attempts[a].completed => attempts'[a].completed
                 /\ attempts[a].mark # NoMark => attempts'[a].mark # NoMark
                 /\ attempts'[a].mark # attempts[a].mark => attempts[a].completed]_vars
  BY NextJobsInv DEF Advances
<1> QED
  BY <1>1, JobsInvariant, PTL DEF MortalSpec, AttemptsOnlyAdvance

(* The handlers only ever move an attempt forward: open, completed, marked *)
(* (and marked again), always of the same student and test.                *)
THEOREM AttemptsAdvance == Spec => AttemptsOnlyAdvance
  BY MortalAttemptsAdvance, SpecIsMortal, PTL

-----------------------------------------------------------------------------
(* Who writes in an attempt.                                               *)

Changed(a) == attempts'[a] # attempts[a] \/ answers'[a] # answers[a]

WritesOwn(w) ==
    \A a \in AttemptIds : Changed(a) =>
        /\ job'[w] # job[w] /\ Busy(w)
        /\ job[w].req.subject = attempts'[a].user

LEMMA NothingWritten ==
    ASSUME NEW w \in Workers, UNCHANGED dbVars \/ UNCHANGED examVars
    PROVE  \A a \in AttemptIds : ~Changed(a)
  BY DEF Changed, dbVars, examVars

LEMMA StepWritesOwn ==
    ASSUME JobsInv, NEW w \in Workers, Step(w) PROVE WritesOwn(w)
<1> DEFINE r == job[w].req
<1>a. TypeInv /\ JobSafe(w) /\ TypeOK /\ JobWellFormed(w) /\ job[w] \in Job
  BY JobFacts DEF JobsInv
<1>b. job[w].pc # "idle" => r \in Request /\ r # Nil
  BY <1>a, JobFacts
<1>1. CASE TestAdminStep(w) \/ MembershipStep(w)
  BY <1>1, <1>a, TestAdminEffect, MembershipEffect, NothingWritten
     DEF AdminEffect, WritesOwn
<1>2. CASE CreateInsert(w)
  <2>1. job[w].pc = "insert" /\ r.op = "create" /\ answers' = answers
    BY <1>2 DEF CreateInsert, At
  <2>2. PICK a \in AttemptIds :
           /\ attempts' = [attempts EXCEPT ![a] =
                 [user |-> r.user, test |-> r.test,
                  completed |-> FALSE, mark |-> NoMark]]
           /\ job' = [job EXCEPT ![w].pc = "sheet", ![w].attempt = a]
    BY <1>2 DEF CreateInsert
  <2>3. job'[w].pc = "sheet"
    BY <1>a, <2>2 DEF TypeOK, Job
  <2>4. r.user = r.subject
    BY <1>a, <1>b, <2>1 DEF JobSafe, ActsForOwner
  <2>5. /\ attempts'[a].user = r.user
        /\ \A b \in AttemptIds : b # a => attempts'[b] = attempts[b]
    BY <1>a, <2>2 DEF TypeOK, TablesTypeOK
  <2> QED
    BY <2>1, <2>3, <2>4, <2>5 DEF WritesOwn, Changed, Busy
<1>3. CASE CreateInsertAnswer(w)
  <2>1. job[w].pc = "answers" /\ r.op = "create" /\ attempts' = attempts
    BY <1>3 DEF CreateInsertAnswer, At
  <2>2. PICK l \in LinkIds :
           /\ job[w].todo[l] # Nil
           /\ answers' = [answers EXCEPT ![job[w].attempt][l] =
                 [quest |-> job[w].todo[l].quest,
                  version |-> job[w].todo[l].version, answer |-> NoAnswer]]
           /\ job' = [job EXCEPT ![w].todo[l] = Nil]
    BY <1>3 DEF CreateInsertAnswer
  <2>3. job'[w].todo[l] = Nil
    BY <1>a, <2>2 DEF TypeOK, Job
  <2>4. \A b \in AttemptIds : b # job[w].attempt => answers'[b] = answers[b]
    BY <1>a, <2>2 DEF TypeOK, TablesTypeOK
  <2>5. attempts[job[w].attempt].user = r.subject
    BY <1>a, <1>b, <2>1 DEF JobSafe, ActsForOwner
  <2> QED
    BY <2>1, <2>2, <2>3, <2>4, <2>5 DEF WritesOwn, Changed, Busy
<1>4. CASE SetWrite(w) \/ FinishComplete(w) \/ FinishMark(w)
  <2>1. /\ job[w].pc \in {"write", "complete", "mark"} /\ r.op \in {"set", "finish"}
        /\ r.attempt \in AttemptIds
    BY <1>4, <1>b, RequestFields DEF SetWrite, FinishComplete, FinishMark, At
  <2>2. \A b \in AttemptIds : b # r.attempt =>
           attempts'[b] = attempts[b] /\ answers'[b] = answers[b]
    BY <1>4, <1>a DEF SetWrite, FinishComplete, FinishMark, TypeOK, TablesTypeOK
  <2>3. attempts[r.attempt].user = r.subject /\ attempts[r.attempt] # Nil
    BY <1>a, <1>b, <2>1 DEF JobSafe, ActsForOwner, JobWellFormed
  <2>4. attempts'[r.attempt].user = attempts[r.attempt].user
    BY <2>1, <2>3, StepsEffect DEF StepEffect, Advances
  <2>5. job'[w].pc \in {"grade", "done"}
    BY <1>4, <1>a, CommitCodesType, SetCodesType, GotoMoves, ReplyMoves
       DEF SetWrite, FinishComplete, FinishMark, Pcs, AttemptPcs
  <2> QED
    BY <2>1, <2>2, <2>3, <2>4, <2>5 DEF WritesOwn, Changed, Busy
<1>5. ASSUME UNCHANGED dbVars PROVE WritesOwn(w)
  BY <1>5, NothingWritten DEF WritesOwn
<1>6. CASE CreateStep(w)
  BY <1>2, <1>3, <1>5, <1>6 DEF CreateStep, CreateAuth, CreateMember,
     CreateCheckTest, CreateCheckDuplicate, CreateReadLinks, CreateReply
<1>7. CASE SetStep(w) \/ FinishStep(w)
  BY <1>4, <1>5, <1>7 DEF SetStep, FinishStep, ReadAttempt, AuthAttempt,
     CheckAttempt, FinishGrade
<1> QED
  BY <1>1, <1>6, <1>7 DEF Step, AttemptStep

LEMMA MortalOwnerWrites == MortalSpec => OnlyOwnerWrites
<1>1. JobsInv /\ [MortalNext]_vars =>
         [\A a \in AttemptIds :
             attempts'[a] # attempts[a] \/ answers'[a] # answers[a]
             => \E w \in Workers : /\ job'[w] # job[w] /\ Busy(w)
                                   /\ job[w].req.subject = attempts'[a].user]_vars
  <2> SUFFICES ASSUME JobsInv, MortalNext, NEW a \in AttemptIds, Changed(a)
               PROVE  \E w \in Workers : /\ job'[w] # job[w] /\ Busy(w)
                                         /\ job[w].req.subject = attempts'[a].user
    BY DEF Changed
  <2>1. PICK w \in Workers : Step(w)
    BY NothingWritten, MortalCases DEF Receive, Abort, Respond, Stop, Changed, dbVars, examVars
  <2> QED
    BY <2>1, StepWritesOwn DEF WritesOwn
<1> QED
  BY <1>1, JobsInvariant, PTL DEF MortalSpec, OnlyOwnerWrites

(* Nobody but the attempt's student changes it or its sheet: neither a     *)
(* request that names somebody else's attempt nor a teacher's, in any      *)
(* interleaving of the handlers' checks and writes.                        *)
THEOREM OwnerWrites == Spec => OnlyOwnerWrites
  BY MortalOwnerWrites, SpecIsMortal, PTL

-----------------------------------------------------------------------------
(* How many attempts a student can get.  The bound is not inductive alone: *)
(* a thread that has seen no attempt and is about to insert one counts as  *)
(* the attempt it will insert.                                             *)

Inserting(u, t) == {w \in Workers : /\ job[w].pc = "insert"
                                    /\ job[w].req.user = u /\ job[w].req.test = t}

RowsBounded(u, t) ==
    Cardinality(RowsOf(u, t)) + Cardinality(Inserting(u, t)) <= Cardinality(Workers)

BoundInv == JobsInv /\ \A u \in Users, t \in Tests : RowsBounded(u, t)

NoNewRow == \A a \in AttemptIds : attempts[a] = Nil => attempts'[a] = Nil

LEMMA FiniteCounts ==
    ASSUME NEW u, NEW t
    PROVE  /\ IsFiniteSet(RowsOf(u, t)) /\ IsFiniteSet(Inserting(u, t))
           /\ Cardinality(RowsOf(u, t)) \in Nat
           /\ Cardinality(Inserting(u, t)) \in Nat
           /\ Cardinality(Inserting(u, t)) <= Cardinality(Workers)
           /\ Cardinality(Workers) \in Nat
<1>1. RowsOf(u, t) \in SUBSET AttemptIds /\ Inserting(u, t) \in SUBSET Workers
  BY DEF RowsOf, Rows, Inserting
<1> QED
  BY <1>1, ConstantsAssumption, FS_Subset, FS_CardinalityType

LEMMA FewerStayBounded ==
    ASSUME NEW u, NEW t, RowsBounded(u, t),
           RowsOf(u, t)' \subseteq RowsOf(u, t),
           Inserting(u, t)' \subseteq Inserting(u, t)
    PROVE  RowsBounded(u, t)'
<1>1. /\ Cardinality(RowsOf(u, t)') <= Cardinality(RowsOf(u, t))
      /\ Cardinality(Inserting(u, t)') <= Cardinality(Inserting(u, t))
      /\ Cardinality(RowsOf(u, t)') \in Nat /\ Cardinality(Inserting(u, t)') \in Nat
  BY FiniteCounts, FS_Subset, FS_CardinalityType
<1> QED
  BY <1>1, FiniteCounts DEF RowsBounded

LEMMA NoNewRowShrinks ==
    ASSUME NoNewRow, \A a \in AttemptIds : Advances(a), NEW u, NEW t
    PROVE  RowsOf(u, t)' \subseteq RowsOf(u, t)
  BY DEF NoNewRow, Advances, RowsOf, Rows

\* Only CreateInsert makes a row, and only CreateCheckDuplicate goes to it.
Quiet(w) == NoNewRow /\ Moves(w) /\ job'[w].pc # "insert"

LEMMA QuietSteps ==
    ASSUME JobsInv, NEW w \in Workers, Step(w),
           ~CreateInsert(w), ~(CreateCheckDuplicate(w) /\ Goto(w, "insert"))
    PROVE  Quiet(w)
<1>a. TypeInv /\ TypeOK /\ JobWellFormed(w) /\ job[w] \in Job
  BY JobFacts DEF JobsInv
<1>b. Moves(w)
  BY StepsEffect DEF StepEffect
<1>c. ASSUME NEW pc \in Pcs, pc # "insert", Goto(w, pc) PROVE job'[w].pc # "insert"
  BY <1>a, <1>c, GotoMoves
<1>d. ASSUME NEW code \in Codes, Reply(w, code) PROVE job'[w].pc # "insert"
  BY <1>a, <1>d, ReplyMoves
<1>e. UNCHANGED dbVars => attempts' = attempts
  BY DEF dbVars, examVars
<1>1. CASE TestAdminStep(w) \/ MembershipStep(w)
  BY <1>1, <1>a, <1>b, TestAdminEffect, MembershipEffect
     DEF Quiet, AdminEffect, NoNewRow, examVars
<1>2. CASE CreateStep(w)
  <2>1. attempts' = attempts
    BY <1>2, <1>e DEF CreateStep, CreateAuth, CreateMember, CreateCheckTest,
       CreateCheckDuplicate, CreateReadLinks, CreateInsertAnswer, CreateReply
  <2> SUFFICES job'[w].pc # "insert"
    BY <1>b, <2>1 DEF Quiet, NoNewRow
  <2>2. CASE CreateAuth(w)
    BY <2>2, <1>c, <1>d DEF CreateAuth, Pcs, AttemptPcs, Codes
  <2>3. CASE CreateMember(w)
    BY <2>3, <1>c, <1>d DEF CreateMember, Pcs, AttemptPcs, Codes
  <2>4. CASE CreateCheckTest(w)
    BY <2>4, <1>c, <1>d DEF CreateCheckTest, Pcs, AttemptPcs, Codes
  <2>5. CASE CreateCheckDuplicate(w)
    <3>1. Reply(w, 403)
      BY <2>5 DEF CreateCheckDuplicate
    <3> QED
      BY <3>1, <1>d DEF Codes
  <2>6. CASE CreateReadLinks(w)
    BY <2>6, <1>a DEF CreateReadLinks, TypeOK, Job
  <2>7. CASE CreateInsertAnswer(w)
    BY <2>7, <1>a DEF CreateInsertAnswer, At, TypeOK, Job
  <2>8. CASE CreateReply(w)
    BY <2>8, <1>d DEF CreateReply, Codes
  <2> QED
    BY <1>2, <2>2, <2>3, <2>4, <2>5, <2>6, <2>7, <2>8 DEF CreateStep
<1>3. CASE SetStep(w) \/ FinishStep(w)
  <2>1. job[w].req.op \in {"set", "finish"} /\ job[w].pc # "idle"
    BY <1>3 DEF SetStep, FinishStep, ReadAttempt, AuthAttempt, CheckAttempt,
       SetWrite, FinishComplete, FinishGrade, FinishMark, At
  <2>2. job'[w].pc # "insert"
    <3>1. CASE ReadAttempt(w, "set", 404) \/ ReadAttempt(w, "finish", 500)
      BY <3>1, <1>a, <1>d DEF ReadAttempt, TypeOK, Job, Codes
    <3>2. CASE AuthAttempt(w, "set") \/ AuthAttempt(w, "finish")
      BY <3>2, <1>c, <1>d, ValidateCodes DEF AuthAttempt, Pcs, AttemptPcs
    <3>3. CASE CheckAttempt(w, "set", "write") \/ CheckAttempt(w, "finish", "complete")
      BY <3>3, <1>c, <1>d DEF CheckAttempt, Pcs, AttemptPcs, Codes
    <3>4. CASE SetWrite(w) \/ FinishMark(w)
      BY <3>4, <1>d, CommitCodesType, SetCodesType DEF SetWrite, FinishMark
    <3>5. CASE FinishComplete(w)
      BY <3>5, <1>c DEF FinishComplete, Pcs, AttemptPcs
    <3>6. CASE FinishGrade(w)
      BY <3>6, <1>a DEF FinishGrade, TypeOK, Job
    <3> QED
      BY <1>3, <3>1, <3>2, <3>3, <3>4, <3>5, <3>6 DEF SetStep, FinishStep
  <2>3. NoNewRow
    <3>1. CASE attempts' = attempts
      BY <3>1 DEF NoNewRow
    <3>2. CASE FinishComplete(w) \/ FinishMark(w)
      <4>1. attempts[job[w].req.attempt] # Nil
        BY <3>2, <1>a, <2>1 DEF FinishComplete, FinishMark, At, JobWellFormed
      <4>2. \A a \in AttemptIds : a # job[w].req.attempt => attempts'[a] = attempts[a]
        BY <3>2, <1>a DEF FinishComplete, FinishMark, TypeOK, TablesTypeOK
      <4> QED
        BY <4>1, <4>2 DEF NoNewRow
    <3> QED
      BY <1>3, <1>e, <3>1, <3>2 DEF SetStep, FinishStep, ReadAttempt, AuthAttempt,
         CheckAttempt, SetWrite, FinishGrade
  <2> QED
    BY <1>b, <2>2, <2>3 DEF Quiet
<1> QED
  BY <1>1, <1>2, <1>3 DEF Step, AttemptStep

LEMMA QuietStaysBounded ==
    ASSUME BoundInv, NEW w \in Workers, NoNewRow, \A a \in AttemptIds : Advances(a),
           job'[w].pc # "insert", \A v \in Workers : v # w => job'[v] = job[v]
    PROVE  \A u \in Users, t \in Tests : RowsBounded(u, t)'
<1> TAKE u \in Users, t \in Tests
<1>1. Inserting(u, t)' \subseteq Inserting(u, t)
  BY DEF Inserting
<1> QED
  BY <1>1, NoNewRowShrinks, FewerStayBounded DEF BoundInv

\* The check found no attempt, so the threads now inserting are all there is.
LEMMA CheckStaysBounded ==
    ASSUME BoundInv, NEW w \in Workers, CreateCheckDuplicate(w), Goto(w, "insert")
    PROVE  \A u \in Users, t \in Tests : RowsBounded(u, t)'
<1> DEFINE r == job[w].req
<1>a. TypeInv /\ TypeOK /\ job[w] \in Job
  BY JobFacts DEF BoundInv, JobsInv
<1>1. attempts' = attempts /\ job[w].pc = "dup"
  BY DEF CreateCheckDuplicate, At, dbVars, examVars
<1>2. RowsOf(r.user, r.test) = {}
  <2>1. ~Reply(w, 403)
    BY <1>a, GotoMoves, ReplyMoves DEF Pcs, AttemptPcs, Codes
  <2> QED
    BY <2>1 DEF CreateCheckDuplicate
<1>3. Moves(w)
  BY <1>a, GotoMoves DEF Pcs, AttemptPcs
<1> TAKE u \in Users, t \in Tests
<1>4. RowsOf(u, t)' = RowsOf(u, t)
  BY <1>1 DEF RowsOf, Rows
<1>5. CASE u = r.user /\ t = r.test
  <2>1. RowsOf(u, t)' = {}
    BY <1>2, <1>4, <1>5
  <2>2. Inserting(u, t)' \in SUBSET Workers
    BY DEF Inserting
  <2>3. /\ Cardinality(RowsOf(u, t)') = 0
        /\ Cardinality(Inserting(u, t)') \in Nat
        /\ Cardinality(Inserting(u, t)') <= Cardinality(Workers)
    BY <2>1, <2>2, ConstantsAssumption, FS_EmptySet, FS_Subset, FS_CardinalityType
  <2> QED
    BY <2>3 DEF RowsBounded
<1>6. CASE ~(u = r.user /\ t = r.test)
  <2>1. Inserting(u, t)' \subseteq Inserting(u, t)
    BY <1>3, <1>6 DEF Inserting, Moves
  <2> QED
    BY <1>4, <2>1, FewerStayBounded DEF BoundInv
<1> QED
  BY <1>5, <1>6

\* The thread that inserts stops counting when its row starts to.
LEMMA InsertStaysBounded ==
    ASSUME BoundInv, NEW w \in Workers, CreateInsert(w)
    PROVE  \A u \in Users, t \in Tests : RowsBounded(u, t)'
<1> DEFINE r == job[w].req
<1>a. TypeInv /\ TypeOK /\ job[w] \in Job
  BY JobFacts DEF BoundInv, JobsInv
<1>1. PICK a \in AttemptIds :
         /\ attempts[a] = Nil
         /\ attempts' = [attempts EXCEPT ![a] =
               [user |-> r.user, test |-> r.test,
                completed |-> FALSE, mark |-> NoMark]]
         /\ job' = [job EXCEPT ![w].pc = "sheet", ![w].attempt = a]
  BY DEF CreateInsert
<1>2. job[w].pc = "insert"
  BY DEF CreateInsert, At
<1>3. Moves(w) /\ job'[w].pc = "sheet"
  BY <1>1, <1>a DEF Moves, TypeOK, Job
<1>4. /\ attempts'[a].user = r.user /\ attempts'[a].test = r.test
      /\ \A b \in AttemptIds : b # a => attempts'[b] = attempts[b]
  BY <1>1, <1>a DEF TypeOK, TablesTypeOK
<1> TAKE u \in Users, t \in Tests
<1>5. CASE u = r.user /\ t = r.test
  <2>1. RowsOf(u, t)' \subseteq RowsOf(u, t) \cup {a} /\ a \notin RowsOf(u, t)
    BY <1>1, <1>4 DEF RowsOf, Rows
  <2>2. Inserting(u, t)' \subseteq Inserting(u, t) \ {w} /\ w \in Inserting(u, t)
    BY <1>2, <1>3, <1>5 DEF Inserting, Moves
  <2>3. /\ Cardinality(RowsOf(u, t) \cup {a}) = Cardinality(RowsOf(u, t)) + 1
        /\ IsFiniteSet(RowsOf(u, t) \cup {a})
    BY <2>1, FiniteCounts, FS_AddElement
  <2>4. /\ Cardinality(Inserting(u, t) \ {w}) = Cardinality(Inserting(u, t)) - 1
        /\ IsFiniteSet(Inserting(u, t) \ {w})
    BY <2>2, FiniteCounts, FS_RemoveElement
  <2>5. /\ Cardinality(RowsOf(u, t)') \in Nat /\ Cardinality(Inserting(u, t)') \in Nat
        /\ Cardinality(RowsOf(u, t)') <= Cardinality(RowsOf(u, t)) + 1
        /\ Cardinality(Inserting(u, t)') <= Cardinality(Inserting(u, t)) - 1
    BY <2>1, <2>2, <2>3, <2>4, FS_Subset, FS_CardinalityType
  <2> QED
    BY <2>5, FiniteCounts DEF BoundInv, RowsBounded
<1>6. CASE ~(u = r.user /\ t = r.test)
  <2>1. RowsOf(u, t)' \subseteq RowsOf(u, t)
    BY <1>1, <1>4, <1>6 DEF RowsOf, Rows
  <2>2. Inserting(u, t)' \subseteq Inserting(u, t)
    BY <1>3 DEF Inserting, Moves
  <2> QED
    BY <2>1, <2>2, FewerStayBounded DEF BoundInv
<1> QED
  BY <1>5, <1>6

LEMMA InitBoundInv == Init => BoundInv
<1> SUFFICES ASSUME Init PROVE BoundInv
  OBVIOUS
<1>1. ASSUME NEW u \in Users, NEW t \in Tests PROVE RowsBounded(u, t)
  <2>1. RowsOf(u, t) = {}
    BY DEF Init, RowsOf, Rows
  <2>2. Cardinality(RowsOf(u, t)) = 0
    BY <2>1, FS_EmptySet
  <2> QED
    BY <2>2, FiniteCounts DEF RowsBounded
<1> QED
  BY <1>1, InitJobsInv DEF BoundInv

LEMMA NextBoundInv == ASSUME BoundInv, [MortalNext]_vars PROVE BoundInv'
<1>a. JobsInv /\ TypeInv /\ TypeOK
  BY DEF BoundInv, JobsInv, TypeInv
<1>b. JobsInv' /\ \A a \in AttemptIds : Advances(a)
  BY <1>a, NextJobsInv
<1>c. attempts' = attempts => NoNewRow
  BY DEF NoNewRow
<1>1. ASSUME NEW w \in Workers, Receive(w)
      PROVE  \A u \in Users, t \in Tests : RowsBounded(u, t)'
  <2>1. attempts' = attempts /\ \A v \in Workers : v # w => job'[v] = job[v]
    BY <1>1, <1>a DEF Receive, dbVars, examVars, TypeOK
  <2>2. job'[w].pc # "insert"
    BY <1>1, <1>a DEF Receive, TypeOK, IdleJob, Entry
  <2> QED
    BY <1>b, <1>c, <2>1, <2>2, QuietStaysBounded
<1>2. ASSUME NEW w \in Workers, Step(w)
      PROVE  \A u \in Users, t \in Tests : RowsBounded(u, t)'
  <2>1. CASE Quiet(w)
    BY <1>b, <2>1, QuietStaysBounded DEF Quiet, Moves
  <2> QED
    BY <1>2, <1>a, <2>1, QuietSteps, CheckStaysBounded, InsertStaysBounded
<1>3. ASSUME NEW w \in Workers, Abort(w)
      PROVE  \A u \in Users, t \in Tests : RowsBounded(u, t)'
  <2>1. attempts' = attempts /\ Moves(w) /\ job'[w].pc = "done"
    BY <1>3, <1>a, ReplyMoves DEF Abort, dbVars, examVars, Codes
  <2> QED
    BY <1>b, <1>c, <2>1, QuietStaysBounded DEF Moves
<1>4. ASSUME NEW w \in Workers, Respond(w)
      PROVE  \A u \in Users, t \in Tests : RowsBounded(u, t)'
  <2>1. attempts' = attempts /\ \A v \in Workers : v # w => job'[v] = job[v]
    BY <1>4, <1>a DEF Respond, dbVars, examVars, TypeOK
  <2>2. job'[w].pc # "insert"
    BY <1>4, <1>a DEF Respond, TypeOK, IdleJob
  <2> QED
    BY <1>b, <1>c, <2>1, <2>2, QuietStaysBounded
<1>5. ASSUME Stop \/ UNCHANGED vars, NEW u \in Users, NEW t \in Tests
      PROVE  RowsBounded(u, t)'
  <2>1. attempts' = attempts
    BY <1>5 DEF Stop, vars, dbVars, examVars
  <2>2. Inserting(u, t)' \subseteq Inserting(u, t)
    BY <1>5 DEF Stop, vars, Inserting, IdleJob
  <2> QED
    BY <1>b, <1>c, <2>1, <2>2, NoNewRowShrinks, FewerStayBounded DEF BoundInv
<1> QED
  BY <1>b, <1>1, <1>2, <1>3, <1>4, <1>5, MortalCases DEF BoundInv

LEMMA MortalAttemptsBounded == MortalSpec => []AttemptsBoundedByWorkers
<1>1. BoundInv => AttemptsBoundedByWorkers
  BY FiniteCounts DEF BoundInv, RowsBounded, AttemptsBoundedByWorkers
<1>2. BoundInv /\ [MortalNext]_vars => BoundInv'
  BY NextBoundInv
<1> QED
  BY <1>1, <1>2, InitBoundInv, PTL DEF MortalSpec

(* A student ends up with at most one attempt at a test per server thread, *)
(* although create looks and inserts in two transactions                   *)
(* (AttemptRestController.cpp:26-36).                                      *)
THEOREM AttemptsBounded == Spec => []AttemptsBoundedByWorkers
  BY MortalAttemptsBounded, SpecIsMortal, PTL
=============================================================================
