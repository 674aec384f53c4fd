-------------------------- MODULE AppServer_proofs --------------------------
(***************************************************************************)
(* Theorems about AppServer for every set of threads, users, tests and     *)
(* rows, every choice of requests, with or without pipelining and faults.  *)
(***************************************************************************)
EXTENDS AppServer, FiniteSetTheorems, TLAPS

-----------------------------------------------------------------------------
(* Type correctness is not inductive alone: a handler dereferences its     *)
(* request, the attempt it has read and the attempt it has inserted.       *)

JobWellFormed(w) ==
    /\ job[w].pc = "idle" <=> job[w].req = Nil
    /\ job[w].req # Nil /\ job[w].req.op \in {"set", "finish"}
       /\ job[w].pc \notin {"row", "done"}
       => attempts[job[w].req.attempt] # Nil
    /\ job[w].req # Nil /\ job[w].req.op = "create"
       /\ job[w].pc \in {"sheet", "answers"}
       => /\ job[w].attempt # Nil
          /\ attempts[job[w].attempt] # Nil

TypeInv == TypeOK /\ \A w \in Workers : JobWellFormed(w)

-----------------------------------------------------------------------------
(* AppServer lets the process stop where calls may fail (Faults) and where *)
(* a request comes to a test or a question that is not there.  Beside the  *)
(* report handlers it can stop in more cases (see Reports): what is safe   *)
(* is proved of a server whose process may stop at any time.               *)

Stop == /\ job' = [w \in Workers |-> IdleJob]
        /\ UNCHANGED dbVars

MortalNext == Next \/ Stop

MortalSpec == Init /\ [][MortalNext]_vars

LEMMA SpecIsMortal == Spec => MortalSpec
<1>1. [Next]_vars => [MortalNext]_vars
  BY DEF MortalNext
<1> QED
  BY <1>1, PTL DEF Spec, MortalSpec

LEMMA MortalCases ==
    MortalNext => \/ \E w \in Workers : Receive(w) \/ Step(w) \/ Abort(w) \/ Respond(w)
                  \/ Stop
  BY DEF MortalNext, Next, Crash, Miss, MissTest, MissQuest, Die, Stop

-----------------------------------------------------------------------------
(* What a request of each operation carries.                               *)
LEMMA RequestFields ==
    ASSUME NEW r \in Request
    PROVE  /\ r.subject \in Users
           /\ r.op = "create" => r.user \in Users /\ r.test \in Tests
           /\ r.op = "set" => /\ r.attempt \in AttemptIds /\ r.quest \in Quests
                              /\ r.answer \in Answers
           /\ r.op = "finish" => r.attempt \in AttemptIds
           /\ r.op = "add_quest" => /\ r.test \in Tests /\ r.quest \in Quests
                                    /\ r.version \in Versions
           /\ r.op = "delete_quest" => r.test \in Tests /\ r.quest \in Quests
           /\ r.op = "set_test_status" => r.test \in Tests /\ r.status \in BOOLEAN
           /\ r.op = "delete_test" => r.test \in Tests
           /\ r.op = "set_block_status" => r.user \in Users /\ r.block \in BOOLEAN
           /\ r.op = "add_user" => r.user \in Users /\ r.course \in Courses
           /\ r.op = "delete_user" => r.user \in Users /\ r.course \in Courses
           /\ r.op = "delete_course" => r.course \in Courses
  BY DEF Request, AttemptReq, TestAdminReq, MembershipReq, CreateReq, SetReq,
         FinishReq, AddQuestReq, DeleteQuestReq, SetTestStatusReq, DeleteTestReq,
         SetBlockReq, AddUserReq, DeleteUserReq, DeleteCourseReq

LEMMA MarksType == Cardinality(LinkIds) \in Nat /\ 0 \in Marks
  BY ConstantsAssumption, FS_CardinalityType DEF Marks

LEMMA IdleJobType == IdleJob \in Job
  BY MarksType DEF IdleJob, Job, Pcs, Codes, NoLinks

LEMMA GotoJob ==
    ASSUME TypeOK, NEW w \in Workers, NEW pc \in Pcs, Goto(w, pc)
    PROVE  /\ job' \in [Workers -> Job]
           /\ job'[w].pc = pc /\ job'[w].req = job[w].req
           /\ job'[w].attempt = job[w].attempt /\ job'[w].todo = job[w].todo
           /\ job'[w].completed = job[w].completed /\ job'[w].mark = job[w].mark
           /\ \A v \in Workers : v # w => job'[v] = job[v]
  BY DEF TypeOK, Goto, Job

LEMMA ReplyJob ==
    ASSUME TypeOK, NEW w \in Workers, NEW code \in Codes, Reply(w, code)
    PROVE  /\ job' \in [Workers -> Job]
           /\ job'[w].pc = "done" /\ job'[w].req = job[w].req
           /\ job'[w].attempt = job[w].attempt /\ job'[w].code = code
           /\ \A v \in Workers : v # w => job'[v] = job[v]
  BY IdleJobType DEF TypeOK, Reply, Job, IdleJob, Pcs

-----------------------------------------------------------------------------
(* A step of one thread that keeps the tables typed and removes no attempt *)
(* leaves the jobs of the other threads well formed.                       *)
LEMMA OneThread ==
    ASSUME TypeInv, NEW w \in Workers, TablesTypeOK', job' \in [Workers -> Job],
           \A v \in Workers : v # w => job'[v] = job[v],
           \A a \in AttemptIds : attempts[a] # Nil => attempts'[a] # Nil,
           JobWellFormed(w)'
    PROVE  TypeInv'
<1> SUFFICES ASSUME NEW v \in Workers, v # w PROVE JobWellFormed(v)'
  BY DEF TypeInv, TypeOK
<1>1. JobWellFormed(v) /\ job'[v] = job[v] /\ job[v] \in Job
  BY DEF TypeInv, TypeOK
<1>2. job[v].req # Nil => job[v].req \in Request
  BY <1>1 DEF Job
<1>3. job[v].attempt # Nil => job[v].attempt \in AttemptIds
  BY <1>1 DEF Job
<1> QED
  BY <1>1, <1>2, <1>3, RequestFields DEF JobWellFormed

LEMMA ReplyStep ==
    ASSUME TypeInv, NEW w \in Workers, job[w].pc # "idle",
           NEW code \in Codes, Reply(w, code), TablesTypeOK',
           \A a \in AttemptIds : attempts[a] # Nil => attempts'[a] # Nil
    PROVE  TypeInv'
<1>1. TypeOK /\ JobWellFormed(w)
  BY DEF TypeInv
<1>2. JobWellFormed(w)'
  BY <1>1, ReplyJob DEF JobWellFormed
<1> QED
  BY <1>1, <1>2, ReplyJob, OneThread

\* The handlers of TestAdmin and Membership keep no attempt in their locals.
LEMMA AdminGotoStep ==
    ASSUME TypeInv, NEW w \in Workers, job[w].pc # "idle",
           job[w].req.op \notin {"create", "set", "finish"},
           NEW pc \in Pcs \ {"idle"}, Goto(w, pc), TablesTypeOK',
           \A a \in AttemptIds : attempts[a] # Nil => attempts'[a] # Nil
    PROVE  TypeInv'
<1>1. TypeOK /\ JobWellFormed(w) /\ job[w] \in Job
  BY DEF TypeInv, TypeOK
<1>2. job'[w].pc = pc /\ job'[w].req = job[w].req
  BY <1>1, GotoJob DEF Job
<1>3. JobWellFormed(w)'
  BY <1>1, <1>2 DEF JobWellFormed
<1> QED
  BY <1>1, <1>3, GotoJob, OneThread

LEMMA TablesUnchanged == ASSUME TypeOK, UNCHANGED dbVars
                         PROVE  TablesTypeOK' /\ attempts' = attempts
  BY DEF TypeOK, TablesTypeOK, dbVars, accessVars, testVars, examVars

LEMMA ValidateCodes ==
    ASSUME NEW u, NEW permitted, NEW code \in ValidateWithBlockHandle(u, permitted)
    PROVE  code \in Codes
  BY DEF ValidateWithBlockHandle, Codes

LEMMA AuthorizeStep ==
    ASSUME TypeInv, NEW w \in Workers, NEW op, op \notin {"create", "set", "finish"},
           NEW permission, NEW own, NEW next \in Pcs \ {"idle"},
           Authorize(w, op, permission, own, next)
    PROVE  TypeInv'
<1>1. job[w].pc # "idle" /\ job[w].req.op \notin {"create", "set", "finish"}
  BY DEF Authorize, At
<1>2. TablesTypeOK' /\ attempts' = attempts
  BY TablesUnchanged DEF Authorize, TypeInv
<1>3. PICK code \in ValidateWithBlockHandle(job[w].req.subject,
                                           permission \in Grants[job[w].req.subject]) :
         Goto(w, next) \/ Reply(w, code)
  BY DEF Authorize
<1>4. code \in Codes
  BY ValidateCodes
<1>5. CASE Goto(w, next)
  BY <1>1, <1>2, <1>5, AdminGotoStep
<1>6. CASE Reply(w, code)
  BY <1>1, <1>2, <1>4, <1>6, ReplyStep
<1> QED
  BY <1>3, <1>5, <1>6

LEMMA CommitCodesType == CommitCodes \subseteq Codes
  BY DEF CommitCodes, Codes

LEMMA SetCodesType == ASSUME NEW q PROVE SetCodes(q) \subseteq Codes
  BY CommitCodesType DEF SetCodes, Codes

-----------------------------------------------------------------------------
LEMMA TestAdminTypeInv ==
    ASSUME TypeInv, NEW w \in Workers, TestAdminStep(w) PROVE TypeInv'
<1> DEFINE r == job[w].req
<1>a. TypeOK /\ JobWellFormed(w) /\ job[w] \in Job
  BY DEF TypeInv, TypeOK
<1>b. job[w].pc # "idle" => r \in Request
  BY <1>a DEF JobWellFormed, Job
<1>1. CASE AddQuestAuth(w)
  BY <1>1, AuthorizeStep DEF AddQuestAuth, Pcs, TestAdminPcs
<1>2. CASE AddQuestCheck(w)
  <2>1. job[w].pc # "idle" /\ r.op = "add_quest"
    BY <1>2 DEF AddQuestCheck, At
  <2>2. Goto(w, "link") \/ Reply(w, 403)
    BY <1>2 DEF AddQuestCheck
  <2> QED
    BY <1>2, <1>a, <2>1, <2>2, TablesUnchanged, AdminGotoStep, ReplyStep
       DEF AddQuestCheck, Pcs, TestAdminPcs, Codes
<1>3. CASE AddQuestLink(w)
  <2>1. job[w].pc # "idle" /\ r.op = "add_quest"
    BY <1>3 DEF AddQuestLink, At
  <2>2. [test |-> r.test, quest |-> r.quest, version |-> r.version] \in LinkRow
    BY <1>b, <2>1, RequestFields DEF LinkRow
  <2>3. TablesTypeOK' /\ attempts' = attempts
    BY <1>3, <1>a, <2>2
       DEF AddQuestLink, TypeOK, TablesTypeOK, accessVars, examVars
  <2> QED
    BY <1>3, <2>1, <2>3, CommitCodesType, ReplyStep DEF AddQuestLink
<1>4. CASE DeleteQuestAuth(w)
  BY <1>4, AuthorizeStep DEF DeleteQuestAuth, Pcs, TestAdminPcs
<1>5. CASE DeleteQuestCheck(w)
  <2>1. job[w].pc # "idle" /\ r.op = "delete_quest"
    BY <1>5 DEF DeleteQuestCheck, At
  <2>2. Goto(w, "unlink") \/ Reply(w, 404)
    BY <1>5 DEF DeleteQuestCheck
  <2> QED
    BY <1>5, <1>a, <2>1, <2>2, TablesUnchanged, AdminGotoStep, ReplyStep
       DEF DeleteQuestCheck, Pcs, TestAdminPcs, Codes
<1>6. CASE DeleteQuestUnlink(w)
  <2>1. job[w].pc # "idle"
    BY <1>6 DEF DeleteQuestUnlink, At
  <2>2. TablesTypeOK' /\ attempts' = attempts
    BY <1>6, <1>a DEF DeleteQuestUnlink, TypeOK, TablesTypeOK, accessVars, examVars
  <2> QED
    BY <1>6, <2>1, <2>2, CommitCodesType, ReplyStep DEF DeleteQuestUnlink
<1>7. CASE SetTestStatusAuth(w)
  BY <1>7, AuthorizeStep DEF SetTestStatusAuth, Pcs, TestAdminPcs
<1>8. CASE SetTestStatusWrite(w)
  <2>1. job[w].pc # "idle" /\ r.op = "set_test_status"
    BY <1>8 DEF SetTestStatusWrite, At
  <2>2. r.status \in BOOLEAN
    BY <1>b, <2>1, RequestFields
  <2>3. TablesTypeOK' /\ attempts' = attempts
    BY <1>8, <1>a, <2>2
       DEF SetTestStatusWrite, TypeOK, TablesTypeOK, accessVars, examVars
  <2> QED
    BY <1>8, <2>1, <2>3, CommitCodesType, ReplyStep DEF SetTestStatusWrite
<1>9. CASE DeleteTestAuth(w)
  BY <1>9, AuthorizeStep DEF DeleteTestAuth, Pcs, TestAdminPcs
<1>10. CASE DeleteTestWrite(w)
  <2>1. job[w].pc # "idle"
    BY <1>10 DEF DeleteTestWrite, At
  <2>2. TablesTypeOK' /\ attempts' = attempts
    BY <1>10, <1>a DEF DeleteTestWrite, TypeOK, TablesTypeOK, accessVars, examVars
  <2> QED
    BY <1>10, <2>1, <2>2, CommitCodesType, ReplyStep DEF DeleteTestWrite
<1> QED
  BY <1>1, <1>2, <1>3, <1>4, <1>5, <1>6, <1>7, <1>8, <1>9, <1>10 DEF TestAdminStep

LEMMA MembershipTypeInv ==
    ASSUME TypeInv, NEW w \in Workers, MembershipStep(w) PROVE TypeInv'
<1> DEFINE r == job[w].req
<1>a. TypeOK /\ JobWellFormed(w) /\ job[w] \in Job
  BY DEF TypeInv, TypeOK
<1>b. job[w].pc # "idle" => r \in Request
  BY <1>a DEF JobWellFormed, Job
<1>1. CASE SetBlockAuth(w)
  BY <1>1, AuthorizeStep DEF SetBlockAuth, Pcs, MembershipPcs
<1>2. CASE SetBlockWrite(w)
  <2>1. job[w].pc # "idle" /\ r.op = "set_block_status"
    BY <1>2 DEF SetBlockWrite, At
  <2>2. r.block \in BOOLEAN
    BY <1>b, <2>1, RequestFields
  <2>3. TablesTypeOK' /\ attempts' = attempts
    BY <1>2, <1>a, <2>2
       DEF SetBlockWrite, TypeOK, TablesTypeOK, testVars, examVars
  <2> QED
    BY <1>2, <2>1, <2>3, CommitCodesType, ReplyStep DEF SetBlockWrite
<1>3. CASE AddUserAuth(w)
  BY <1>3, AuthorizeStep DEF AddUserAuth, Pcs, MembershipPcs
<1>4. CASE AddUserCheck(w)
  <2>1. job[w].pc # "idle" /\ r.op = "add_user"
    BY <1>4 DEF AddUserCheck, At
  <2>2. Goto(w, "join") \/ Reply(w, 403)
    BY <1>4 DEF AddUserCheck
  <2> QED
    BY <1>4, <1>a, <2>1, <2>2, TablesUnchanged, AdminGotoStep, ReplyStep
       DEF AddUserCheck, Pcs, MembershipPcs, Codes
<1>5. CASE AddUserJoin(w)
  <2>1. job[w].pc # "idle" /\ r.op = "add_user"
    BY <1>5 DEF AddUserJoin, At
  <2>2. r.user \in Users /\ r.course \in Courses
    BY <1>b, <2>1, RequestFields
  <2>3. TablesTypeOK' /\ attempts' = attempts
    BY <1>5, <1>a, <2>2 DEF AddUserJoin, TypeOK, TablesTypeOK, testVars, examVars
  <2> QED
    BY <1>5, <2>1, <2>3, CommitCodesType, ReplyStep DEF AddUserJoin
<1>6. CASE DeleteUserAuth(w)
  BY <1>6, AuthorizeStep DEF DeleteUserAuth, Pcs, MembershipPcs
<1>7. CASE DeleteUserLeave(w)
  <2>1. job[w].pc # "idle"
    BY <1>7 DEF DeleteUserLeave, At
  <2>2. TablesTypeOK' /\ attempts' = attempts
    BY <1>7, <1>a DEF DeleteUserLeave, TypeOK, TablesTypeOK, testVars, examVars
  <2> QED
    BY <1>7, <2>1, <2>2, CommitCodesType, ReplyStep DEF DeleteUserLeave
<1>8. CASE DeleteCourseAuth(w)
  BY <1>8, AuthorizeStep DEF DeleteCourseAuth, Pcs, MembershipPcs
<1>9. CASE DeleteCourseDrop(w)
  <2>1. job[w].pc # "idle" /\ r.op = "delete_course"
    BY <1>9 DEF DeleteCourseDrop, At
  <2>2. r.course \in Courses
    BY <1>b, <2>1, RequestFields
  <2>3. TablesTypeOK' /\ attempts' = attempts
    BY <1>9, <1>a, <2>2
       DEF DeleteCourseDrop, TypeOK, TablesTypeOK, testVars, examVars
  <2> QED
    BY <1>9, <2>1, <2>3, CommitCodesType, ReplyStep DEF DeleteCourseDrop
<1> QED
  BY <1>1, <1>2, <1>3, <1>4, <1>5, <1>6, <1>7, <1>8, <1>9 DEF MembershipStep

-----------------------------------------------------------------------------
(* The handlers of Attempts.                                               *)

LEMMA AttemptGotoStep ==
    ASSUME TypeInv, NEW w \in Workers, job[w].pc # "idle",
           NEW pc \in Pcs \ {"idle"}, Goto(w, pc), TablesTypeOK',
           \A a \in AttemptIds : attempts[a] # Nil => attempts'[a] # Nil,
           job[w].req.op \in {"set", "finish"} =>
              attempts[job[w].req.attempt] # Nil,
           job[w].req.op = "create" => pc \notin {"sheet", "answers"}
    PROVE  TypeInv'
<1>1. TypeOK /\ JobWellFormed(w) /\ job[w] \in Job
  BY DEF TypeInv, TypeOK
<1>2. job[w].req \in Request
  BY <1>1 DEF JobWellFormed, Job
<1>3. job[w].req.op \in {"set", "finish"} => job[w].req.attempt \in AttemptIds
  BY <1>2, RequestFields
<1>4. JobWellFormed(w)'
  BY <1>1, <1>3, GotoJob DEF JobWellFormed
<1> QED
  BY <1>1, <1>4, GotoJob, OneThread

LEMMA ScoreType ==
    ASSUME NEW sheet PROVE Score(sheet) \in Marks
<1> DEFINE S == {l \in LinkIds : Correct(sheet[l])}
<1>1. IsFiniteSet(LinkIds) /\ S \in SUBSET LinkIds
  BY ConstantsAssumption
<1>2. Cardinality(S) \in Nat /\ Cardinality(S) <= Cardinality(LinkIds)
  BY <1>1, FS_Subset, FS_CardinalityType
<1> QED
  BY <1>2, MarksType DEF Score, Marks

LEMMA CreateTypeInv ==
    ASSUME TypeInv, NEW w \in Workers, CreateStep(w) PROVE TypeInv'
<1> DEFINE r == job[w].req
<1>a. TypeOK /\ JobWellFormed(w) /\ job[w] \in Job
  BY DEF TypeInv, TypeOK
<1>b. job[w].pc # "idle" => r \in Request /\ r # Nil
  BY <1>a DEF JobWellFormed, Job
<1>c. UNCHANGED dbVars => TablesTypeOK' /\ attempts' = attempts
  BY <1>a, TablesUnchanged
<1>1. CASE CreateAuth(w)
  <2>1. job[w].pc # "idle" /\ r.op = "create" /\ UNCHANGED dbVars
    BY <1>1 DEF CreateAuth, At
  <2>2. Goto(w, "member") \/ Reply(w, 403)
    BY <1>1 DEF CreateAuth
  <2> QED
    BY <1>c, <2>1, <2>2, AttemptGotoStep, ReplyStep DEF Pcs, AttemptPcs, Codes
<1>2. CASE CreateMember(w)
  <2>1. job[w].pc # "idle" /\ r.op = "create" /\ UNCHANGED dbVars
    BY <1>2 DEF CreateMember, At
  <2>2. Goto(w, "tcheck") \/ Reply(w, 403)
    BY <1>2 DEF CreateMember
  <2> QED
    BY <1>c, <2>1, <2>2, AttemptGotoStep, ReplyStep DEF Pcs, AttemptPcs, Codes
<1>3. CASE CreateCheckTest(w)
  <2>1. job[w].pc # "idle" /\ r.op = "create" /\ UNCHANGED dbVars
    BY <1>3 DEF CreateCheckTest, At
  <2>2. Goto(w, "dup") \/ Reply(w, 403)
    BY <1>3 DEF CreateCheckTest
  <2> QED
    BY <1>c, <2>1, <2>2, AttemptGotoStep, ReplyStep DEF Pcs, AttemptPcs, Codes
<1>4. CASE CreateCheckDuplicate(w)
  <2>1. job[w].pc # "idle" /\ r.op = "create" /\ UNCHANGED dbVars
    BY <1>4 DEF CreateCheckDuplicate, At
  <2>2. Goto(w, "insert") \/ Reply(w, 403)
    BY <1>4 DEF CreateCheckDuplicate
  <2> QED
    BY <1>c, <2>1, <2>2, AttemptGotoStep, ReplyStep DEF Pcs, AttemptPcs, Codes
<1>5. CASE CreateInsert(w)
  <2> DEFINE row == [user |-> r.user, test |-> r.test,
                     completed |-> FALSE, mark |-> NoMark]
  <2>1. job[w].pc = "insert" /\ r.op = "create"
    BY <1>5 DEF CreateInsert, At
  <2>2. PICK a \in AttemptIds :
           /\ attempts[a] = Nil
           /\ attempts' = [attempts EXCEPT ![a] = row]
           /\ job' = [job EXCEPT ![w].pc = "sheet", ![w].attempt = a]
    BY <1>5 DEF CreateInsert
  <2>3. row \in AttemptRow /\ row # Nil
    <3>1. r.user \in Users /\ r.test \in Tests
      BY <1>b, <2>1, RequestFields
    <3>2. row \in AttemptRow
      BY <3>1 DEF AttemptRow
    <3> QED
      BY <3>2, ConstantsAssumption
  <2>4. TablesTypeOK'
    BY <1>5, <1>a, <2>2, <2>3
       DEF CreateInsert, TypeOK, TablesTypeOK, accessVars, testVars
  <2>5. \A b \in AttemptIds : attempts[b] # Nil => attempts'[b] # Nil
    BY <1>a, <2>2, <2>3 DEF TypeOK, TablesTypeOK
  <2>6. /\ job' \in [Workers -> Job]
        /\ job'[w].pc = "sheet" /\ job'[w].req = r /\ job'[w].attempt = a
        /\ \A v \in Workers : v # w => job'[v] = job[v]
    BY <1>a, <2>2 DEF TypeOK, Job, Pcs, AttemptPcs
  <2>7. attempts'[a] # Nil /\ a # Nil
    BY <1>a, <2>2, <2>3, ConstantsAssumption DEF TypeOK, TablesTypeOK
  <2>8. JobWellFormed(w)'
    BY <1>b, <2>1, <2>6, <2>7 DEF JobWellFormed
  <2> QED
    BY <2>4, <2>5, <2>6, <2>8, OneThread
<1>6. CASE CreateReadLinks(w)
  <2>1. job[w].pc = "sheet" /\ r.op = "create" /\ UNCHANGED dbVars
    BY <1>6 DEF CreateReadLinks, At
  <2>2. LinksOf(r.test) \in [LinkIds -> LinkRow \cup {Nil}]
    BY <1>a DEF LinksOf, TypeOK, TablesTypeOK
  <2>3. /\ job' \in [Workers -> Job]
        /\ job'[w].pc = "answers" /\ job'[w].req = r
        /\ job'[w].attempt = job[w].attempt
        /\ \A v \in Workers : v # w => job'[v] = job[v]
    BY <1>6, <1>a, <2>2 DEF CreateReadLinks, TypeOK, Job, Pcs, AttemptPcs
  <2>4. JobWellFormed(w)'
    BY <1>a, <1>b, <1>c, <2>1, <2>3 DEF JobWellFormed
  <2> QED
    BY <1>c, <2>1, <2>3, <2>4, OneThread
<1>7. CASE CreateInsertAnswer(w)
  <2>1. job[w].pc = "answers" /\ r.op = "create" /\ attempts' = attempts
    BY <1>7 DEF CreateInsertAnswer, At
  <2>2. PICK l \in LinkIds :
           /\ job[w].todo[l] # Nil
           /\ answers' = [answers EXCEPT ![job[w].attempt][l] =
                 [quest |-> job[w].todo[l].quest,
                  version |-> job[w].todo[l].version, answer |-> NoAnswer]]
           /\ job' = [job EXCEPT ![w].todo[l] = Nil]
    BY <1>7 DEF CreateInsertAnswer
  <2>3. [quest |-> job[w].todo[l].quest, version |-> job[w].todo[l].version,
         answer |-> NoAnswer] \in AnswerRow
    BY <1>a, <2>2 DEF Job, LinkRow, AnswerRow
  <2>4. answers' \in [AttemptIds -> [LinkIds -> AnswerRow \cup {Nil}]]
    BY <1>a, <2>2, <2>3 DEF TypeOK, TablesTypeOK
  <2>5. TablesTypeOK'
    BY <1>7, <1>a, <2>4
       DEF CreateInsertAnswer, TypeOK, TablesTypeOK, accessVars, testVars
  <2>6. /\ job' \in [Workers -> Job]
        /\ job'[w].pc = job[w].pc /\ job'[w].req = r
        /\ job'[w].attempt = job[w].attempt
        /\ \A v \in Workers : v # w => job'[v] = job[v]
    BY <1>a, <2>2 DEF TypeOK, Job
  <2>7. JobWellFormed(w)'
    BY <1>a, <2>1, <2>6 DEF JobWellFormed
  <2> QED
    BY <2>1, <2>5, <2>6, <2>7, OneThread
<1>8. CASE CreateReply(w)
  <2>1. job[w].pc # "idle" /\ UNCHANGED dbVars /\ Reply(w, 200)
    BY <1>8 DEF CreateReply, At
  <2> QED
    BY <1>c, <2>1, ReplyStep DEF Codes
<1> QED
  BY <1>1, <1>2, <1>3, <1>4, <1>5, <1>6, <1>7, <1>8 DEF CreateStep

\* What set and finish share, for either operation.
LEMMA ReadAttemptTypeInv ==
    ASSUME TypeInv, NEW w \in Workers, NEW op \in {"set", "finish"},
           NEW missing \in Codes, ReadAttempt(w, op, missing)
    PROVE  TypeInv'
<1> DEFINE row == attempts[job[w].req.attempt]
<1>a. TypeOK /\ JobWellFormed(w) /\ job[w] \in Job
  BY DEF TypeInv, TypeOK
<1>1. job[w].pc = "row" /\ job[w].req.op = op /\ UNCHANGED dbVars
  BY DEF ReadAttempt, At
<1>2. job[w].req \in Request /\ job[w].req # Nil
  BY <1>a, <1>1 DEF JobWellFormed, Job
<1>3. job[w].req.attempt \in AttemptIds
  BY <1>1, <1>2, RequestFields
<1>4. TablesTypeOK' /\ attempts' = attempts
  BY <1>a, <1>1, TablesUnchanged
<1>5. CASE row = Nil
  BY <1>1, <1>4, <1>5, ReplyStep DEF ReadAttempt
<1>6. CASE row # Nil
  <2>1. job' = [job EXCEPT ![w].pc = "auth", ![w].completed = row.completed]
    BY <1>6 DEF ReadAttempt
  <2>2. row.completed \in BOOLEAN
    BY <1>a, <1>3, <1>6 DEF TypeOK, TablesTypeOK, AttemptRow
  <2>3. /\ job' \in [Workers -> Job]
        /\ job'[w].pc = "auth" /\ job'[w].req = job[w].req
        /\ \A v \in Workers : v # w => job'[v] = job[v]
    BY <1>a, <2>1, <2>2 DEF TypeOK, Job, Pcs
  <2>4. JobWellFormed(w)'
    BY <1>1, <1>2, <1>4, <1>6, <2>3 DEF JobWellFormed
  <2> QED
    BY <1>4, <2>3, <2>4, OneThread
<1> QED
  BY <1>5, <1>6

LEMMA AuthAttemptTypeInv ==
    ASSUME TypeInv, NEW w \in Workers, NEW op \in {"set", "finish"},
           AuthAttempt(w, op)
    PROVE  TypeInv'
<1>a. TypeOK /\ JobWellFormed(w) /\ job[w] \in Job
  BY DEF TypeInv, TypeOK
<1>1. job[w].pc = "auth" /\ job[w].req.op = op /\ UNCHANGED dbVars
  BY DEF AuthAttempt, At
<1>2. TablesTypeOK' /\ attempts' = attempts
  BY <1>a, <1>1, TablesUnchanged
<1>3. attempts[job[w].req.attempt] # Nil
  BY <1>a, <1>1 DEF JobWellFormed
<1>4. PICK code \in ValidateWithBlockHandle(job[w].req.subject, TRUE) :
         Goto(w, "tcheck") \/ Reply(w, code)
  BY DEF AuthAttempt
<1>5. CASE Goto(w, "tcheck")
  BY <1>1, <1>2, <1>3, <1>5, AttemptGotoStep DEF Pcs, AttemptPcs
<1>6. CASE Reply(w, code)
  BY <1>1, <1>2, <1>6, ValidateCodes, ReplyStep
<1> QED
  BY <1>4, <1>5, <1>6

LEMMA CheckAttemptTypeInv ==
    ASSUME TypeInv, NEW w \in Workers, NEW op \in {"set", "finish"},
           NEW next \in Pcs \ {"idle"}, CheckAttempt(w, op, next)
    PROVE  TypeInv'
<1>a. TypeOK /\ JobWellFormed(w) /\ job[w] \in Job
  BY DEF TypeInv, TypeOK
<1>1. job[w].pc = "tcheck" /\ job[w].req.op = op /\ UNCHANGED dbVars
  BY DEF CheckAttempt, At
<1>2. TablesTypeOK' /\ attempts' = attempts
  BY <1>a, <1>1, TablesUnchanged
<1>3. attempts[job[w].req.attempt] # Nil
  BY <1>a, <1>1 DEF JobWellFormed
<1>4. Goto(w, next) \/ Reply(w, 403)
  BY DEF CheckAttempt
<1> QED
  BY <1>1, <1>2, <1>3, <1>4, AttemptGotoStep, ReplyStep DEF Codes

LEMMA SetTypeInv ==
    ASSUME TypeInv, NEW w \in Workers, SetStep(w) PROVE TypeInv'
<1>a. TypeOK /\ JobWellFormed(w) /\ job[w] \in Job
  BY DEF TypeInv, TypeOK
<1>1. CASE ReadAttempt(w, "set", 404)
  BY <1>1, ReadAttemptTypeInv DEF Codes
<1>2. CASE AuthAttempt(w, "set")
  BY <1>2, AuthAttemptTypeInv
<1>3. CASE CheckAttempt(w, "set", "write")
  BY <1>3, CheckAttemptTypeInv DEF Pcs, AttemptPcs
<1>4. CASE SetWrite(w)
  <2> DEFINE r == job[w].req
  <2>1. job[w].pc = "write" /\ r.op = "set"
    BY <1>4 DEF SetWrite, At
  <2>2. r \in Request /\ r.attempt \in AttemptIds /\ r.answer \in Answers
    BY <1>a, <2>1, RequestFields DEF JobWellFormed, Job
  <2>3. \A row \in AnswerRow : [row EXCEPT !.answer = r.answer] \in AnswerRow
    BY <2>2 DEF AnswerRow
  <2>4. answers' = [answers EXCEPT ![r.attempt] =
           [l \in LinkIds |-> IF Matches(@[l], r.quest)
                              THEN [@[l] EXCEPT !.answer = r.answer] ELSE @[l]]]
    BY <1>4 DEF SetWrite
  <2>5. \A l \in LinkIds : Matches(answers[r.attempt][l], r.quest)
                           => answers[r.attempt][l] \in AnswerRow
    BY <1>a, <2>2 DEF Matches, TypeOK, TablesTypeOK
  <2>6. answers' \in [AttemptIds -> [LinkIds -> AnswerRow \cup {Nil}]]
    BY <1>a, <2>2, <2>3, <2>4, <2>5 DEF TypeOK, TablesTypeOK
  <2>7. TablesTypeOK' /\ attempts' = attempts
    BY <1>4, <1>a, <2>6 DEF SetWrite, TypeOK, TablesTypeOK, accessVars, testVars
  <2> QED
    BY <1>4, <2>1, <2>7, SetCodesType, ReplyStep DEF SetWrite
<1> QED
  BY <1>1, <1>2, <1>3, <1>4 DEF SetStep

LEMMA FinishTypeInv ==
    ASSUME TypeInv, NEW w \in Workers, FinishStep(w) PROVE TypeInv'
<1> DEFINE r == job[w].req
<1>a. TypeOK /\ JobWellFormed(w) /\ job[w] \in Job
  BY DEF TypeInv, TypeOK
<1>b. job[w].pc \notin {"idle", "row", "done"} /\ r.op = "finish" =>
         r.attempt \in AttemptIds /\ attempts[r.attempt] \in AttemptRow
  BY <1>a, RequestFields DEF JobWellFormed, Job, TypeOK, TablesTypeOK
<1>1. CASE ReadAttempt(w, "finish", 500)
  BY <1>1, ReadAttemptTypeInv DEF Codes
<1>2. CASE AuthAttempt(w, "finish")
  BY <1>2, AuthAttemptTypeInv
<1>3. CASE CheckAttempt(w, "finish", "complete")
  BY <1>3, CheckAttemptTypeInv DEF Pcs, AttemptPcs
<1>4. CASE FinishComplete(w)
  <2> DEFINE row == [attempts[r.attempt] EXCEPT !.completed = TRUE]
  <2>1. job[w].pc = "complete" /\ r.op = "finish"
    BY <1>4 DEF FinishComplete, At
  <2>2. attempts' = [attempts EXCEPT ![r.attempt] = row]
    BY <1>4 DEF FinishComplete
  <2>3. row \in AttemptRow /\ row # Nil
    <3>1. row \in AttemptRow
      BY <1>b, <2>1 DEF AttemptRow
    <3> QED
      BY <3>1, ConstantsAssumption
  <2>4. TablesTypeOK'
    BY <1>4, <1>a, <2>2, <2>3
       DEF FinishComplete, TypeOK, TablesTypeOK, accessVars, testVars
  <2>5. \A a \in AttemptIds : attempts[a] # Nil => attempts'[a] # Nil
    BY <1>a, <2>2, <2>3 DEF TypeOK, TablesTypeOK
  <2>6. attempts[r.attempt] # Nil
    BY <1>a, <2>1 DEF JobWellFormed
  <2> QED
    BY <1>4, <2>1, <2>4, <2>5, <2>6, AttemptGotoStep
       DEF FinishComplete, Pcs, AttemptPcs
<1>5. CASE FinishGrade(w)
  <2>1. job[w].pc = "grade" /\ r.op = "finish" /\ UNCHANGED dbVars
    BY <1>5 DEF FinishGrade, At
  <2>2. TablesTypeOK' /\ attempts' = attempts
    BY <1>a, <2>1, TablesUnchanged
  <2>3. /\ job' \in [Workers -> Job]
        /\ job'[w].pc = "mark" /\ job'[w].req = r
        /\ \A v \in Workers : v # w => job'[v] = job[v]
    BY <1>5, <1>a, ScoreType DEF FinishGrade, TypeOK, Job, Pcs, AttemptPcs
  <2>4. JobWellFormed(w)'
    BY <1>a, <2>1, <2>2, <2>3 DEF JobWellFormed
  <2> QED
    BY <2>2, <2>3, <2>4, OneThread
<1>6. CASE FinishMark(w)
  <2> DEFINE row == [attempts[r.attempt] EXCEPT !.mark = job[w].mark]
  <2>1. job[w].pc = "mark" /\ r.op = "finish"
    BY <1>6 DEF FinishMark, At
  <2>2. attempts' = [attempts EXCEPT ![r.attempt] = row]
    BY <1>6 DEF FinishMark
  <2>3. row \in AttemptRow /\ row # Nil
    <3>1. job[w].mark \in Marks
      BY <1>a DEF Job
    <3>2. row \in AttemptRow
      BY <1>b, <2>1, <3>1 DEF AttemptRow
    <3> QED
      BY <3>2, ConstantsAssumption
  <2>4. TablesTypeOK'
    BY <1>6, <1>a, <2>2, <2>3
       DEF FinishMark, TypeOK, TablesTypeOK, accessVars, testVars
  <2>5. \A a \in AttemptIds : attempts[a] # Nil => attempts'[a] # Nil
    BY <1>a, <2>2, <2>3 DEF TypeOK, TablesTypeOK
  <2> QED
    BY <1>6, <2>1, <2>4, <2>5, CommitCodesType, ReplyStep DEF FinishMark
<1> QED
  BY <1>1, <1>2, <1>3, <1>4, <1>5, <1>6 DEF FinishStep

-----------------------------------------------------------------------------
LEMMA InitTypeInv == Init => TypeInv
<1> SUFFICES ASSUME Init PROVE TypeInv
  OBVIOUS
<1>1. IdleJob \in Job /\ job = [w \in Workers |-> IdleJob]
  BY IdleJobType DEF Init
<1>2. TypeOK
  <2>1. /\ InitialMembers \subseteq Users \X Courses
        /\ InitialLinks \in [LinkIds -> LinkRow \cup {Nil}]
    BY ConstantsAssumption
  <2>2. /\ members \subseteq Users \X Courses
        /\ links \in [LinkIds -> LinkRow \cup {Nil}]
    BY <2>1 DEF Init
  <2>3. /\ attempts \in [AttemptIds -> AttemptRow \cup {Nil}]
        /\ answers \in [AttemptIds -> [LinkIds -> AnswerRow \cup {Nil}]]
    BY DEF Init, NoAnswers
  <2>4. /\ blocked \in [Users -> BOOLEAN]
        /\ closedCourses \subseteq Courses
    BY DEF Init
  <2>5. tests \in [Tests -> [active : BOOLEAN, deleted : BOOLEAN]]
    BY DEF Init
  <2>6. job \in [Workers -> Job]
    BY <1>1
  <2> QED
    BY <2>2, <2>3, <2>4, <2>5, <2>6 DEF TypeOK, TablesTypeOK
<1>3. \A w \in Workers : JobWellFormed(w)
  BY <1>1 DEF JobWellFormed, IdleJob
<1> QED
  BY <1>2, <1>3 DEF TypeInv

LEMMA NextTypeInv == TypeInv /\ [MortalNext]_vars => TypeInv'
<1> SUFFICES ASSUME TypeInv, [MortalNext]_vars PROVE TypeInv'
  OBVIOUS
<1>a. TypeOK
  BY DEF TypeInv
<1>1. ASSUME NEW w \in Workers, Receive(w) PROVE TypeInv'
  <2>1. PICK r \in Requests :
           job' = [job EXCEPT ![w] = [IdleJob EXCEPT !.pc = Entry(r), !.req = r]]
    BY <1>1 DEF Receive
  <2>2. r \in Request /\ r # Nil
    BY ConstantsAssumption
  <2>3. [IdleJob EXCEPT !.pc = Entry(r), !.req = r] \in Job
    BY <2>2, IdleJobType DEF Job, Entry, Pcs, AttemptPcs
  <2>4. /\ job' \in [Workers -> Job]
        /\ job'[w] = [IdleJob EXCEPT !.pc = Entry(r), !.req = r]
        /\ \A v \in Workers : v # w => job'[v] = job[v]
    BY <1>a, <2>1, <2>3 DEF TypeOK
  <2>5. /\ job'[w].req = r /\ job'[w].pc = Entry(r)
    BY <2>4 DEF IdleJob
  <2>6. JobWellFormed(w)'
    BY <2>2, <2>5 DEF JobWellFormed, Entry
  <2>7. TablesTypeOK' /\ attempts' = attempts
    BY <1>1, <1>a, TablesUnchanged DEF Receive
  <2> QED
    BY <2>4, <2>6, <2>7, OneThread
<1>2. ASSUME NEW w \in Workers, Step(w) PROVE TypeInv'
  BY <1>2, CreateTypeInv, SetTypeInv, FinishTypeInv, TestAdminTypeInv,
     MembershipTypeInv DEF Step, AttemptStep
<1>3. ASSUME NEW w \in Workers, Abort(w) PROVE TypeInv'
  <2>1. job[w].pc # "idle" /\ Reply(w, 500) /\ UNCHANGED dbVars
    BY <1>3 DEF Abort
  <2> QED
    BY <1>a, <2>1, TablesUnchanged, ReplyStep DEF Codes
<1>4. ASSUME NEW w \in Workers, Respond(w) PROVE TypeInv'
  <2>1. TablesTypeOK' /\ attempts' = attempts
    BY <1>4, <1>a, TablesUnchanged DEF Respond
  <2>2. /\ job' \in [Workers -> Job] /\ job'[w] = IdleJob
        /\ \A v \in Workers : v # w => job'[v] = job[v]
    BY <1>4, <1>a, IdleJobType DEF Respond, TypeOK
  <2>3. JobWellFormed(w)'
    BY <2>2 DEF JobWellFormed, IdleJob
  <2> QED
    BY <2>1, <2>2, <2>3, OneThread
<1>5. CASE Stop
  <2>1. TablesTypeOK' /\ attempts' = attempts
    BY <1>5, <1>a, TablesUnchanged DEF Stop
  <2>2. job' = [w \in Workers |-> IdleJob]
    BY <1>5 DEF Stop
  <2>3. TypeOK'
    BY <2>1, <2>2, IdleJobType DEF TypeOK
  <2>4. \A w \in Workers : JobWellFormed(w)'
    BY <2>2 DEF JobWellFormed, IdleJob
  <2> QED
    BY <2>3, <2>4 DEF TypeInv
<1>6. CASE UNCHANGED vars
  <2>1. TablesTypeOK' /\ attempts' = attempts /\ job' = job
    BY <1>6, <1>a, TablesUnchanged DEF vars
  <2> QED
    BY <2>1 DEF TypeInv, TypeOK, JobWellFormed
<1> QED
  BY <1>1, <1>2, <1>3, <1>4, <1>5, <1>6, MortalCases

(* The inductive form of TypeCorrectness: besides, the row each handler in *)
(* flight has read or inserted is still there.                             *)
THEOREM TypeInvariant == MortalSpec => []TypeInv
  BY InitTypeInv, NextTypeInv, PTL DEF MortalSpec

LEMMA MortalTypeCorrectness == MortalSpec => []TypeOK
  BY TypeInvariant, PTL DEF TypeInv

(* Every reachable state of the application server is well typed: the      *)
(* handlers of AttemptRestController.cpp, TestRestController.cpp,          *)
(* CourseRestController.cpp and UserRestController.cpp never use a row     *)
(* that is not there.                                                      *)
THEOREM TypeCorrectness == Spec => []TypeOK
  BY MortalTypeCorrectness, SpecIsMortal, PTL
=============================================================================
