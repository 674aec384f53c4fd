---------------------------- MODULE Exam_proofs ----------------------------
(***************************************************************************)
(* Sheets and marks.  Whatever a student's requests do in parallel, a      *)
(* sheet keeps its rows and a mark counts only rows that can be answered.  *)
(* When every user waits for an answer before sending the next request,    *)
(* the handlers implement the examination of module Exam.                  *)
(***************************************************************************)
EXTENDS Drain_proofs

-----------------------------------------------------------------------------
(* The steps that work on a sheet; the rest leave attempts and answers     *)
(* alone.                                                                  *)

Resting(w) ==
    LET r == job[w].req
        p == job[w].pc
        n == job'[w].pc
    IN  /\ UNCHANGED examVars /\ Moves(w)
        /\ n \notin {"sheet", "answers", "grade", "mark"}
        /\ r.op \in {"set", "finish"} /\ n \in {"tcheck", "write", "complete"}
           => p \in {"auth", "tcheck"}
        /\ n = "insert" => RowsOf(r.user, r.test) = {}
        /\ n = "done" /\ job'[w].code = 200 /\ r.op = "create"
           => /\ p = "answers" /\ job[w].todo = NoLinks
              /\ job'[w].attempt = job[w].attempt /\ links' = links

LEMMA ReplyRests ==
    ASSUME JobsInv, NEW w \in Workers, NEW code \in Codes, Reply(w, code),
           UNCHANGED examVars, job[w].req.op = "create" => code # 200
    PROVE  Resting(w)
  BY ReplyMoves DEF JobsInv, Resting

LEMMA CreateSheetCases ==
    ASSUME JobsInv, NEW w \in Workers, CreateStep(w)
    PROVE  CreateInsert(w) \/ CreateInsertAnswer(w) \/ CreateReadLinks(w) \/ Resting(w)
<1> USE DEF At
<1>a. TypeInv /\ TypeOK
  BY JobFacts DEF JobsInv
<1>b. UNCHANGED dbVars => UNCHANGED examVars /\ links' = links
  BY DEF dbVars, testVars
<1>c. ASSUME Reply(w, 403), UNCHANGED dbVars PROVE Resting(w)
  BY <1>b, <1>c, ReplyRests DEF Codes
<1>d. ASSUME NEW pc \in {"member", "tcheck", "dup"}, Goto(w, pc), UNCHANGED dbVars,
             job[w].req.op = "create"
      PROVE  Resting(w)
  BY <1>a, <1>b, <1>d, GotoMoves DEF Resting, Pcs, AttemptPcs
<1>1. CASE CreateAuth(w)
  BY <1>1, <1>c, <1>d DEF CreateAuth
<1>2. CASE CreateMember(w)
  BY <1>2, <1>c, <1>d DEF CreateMember
<1>3. CASE CreateCheckTest(w)
  BY <1>3, <1>c, <1>d DEF CreateCheckTest
<1>4. CASE CreateCheckDuplicate(w)
  <2>1. CASE Goto(w, "insert") /\ RowsOf(job[w].req.user, job[w].req.test) = {}
    BY <1>4, <1>a, <1>b, <2>1, GotoMoves DEF CreateCheckDuplicate, Resting, Pcs, AttemptPcs
  <2> QED
    BY <1>4, <1>c, <2>1 DEF CreateCheckDuplicate
<1>5. CASE CreateReply(w)
  <2>1. /\ Moves(w) /\ job'[w].pc = "done" /\ job'[w].attempt = job[w].attempt
        /\ job[w].pc = "answers" /\ job[w].todo = NoLinks
    BY <1>5, <1>a, ReplyMoves, ReplyJob DEF CreateReply, Codes
  <2> QED
    BY <1>5, <1>b, <2>1 DEF CreateReply, Resting
<1> QED
  BY <1>1, <1>2, <1>3, <1>4, <1>5 DEF CreateStep

LEMMA SharedSheetCases ==
    ASSUME JobsInv, NEW w \in Workers, NEW op \in {"set", "finish"},
           NEW missing \in Codes, NEW next \in {"write", "complete"},
           ReadAttempt(w, op, missing) \/ AuthAttempt(w, op) \/ CheckAttempt(w, op, next)
    PROVE  Resting(w)
<1> USE DEF At
<1>a. TypeInv /\ TypeOK /\ job[w] \in Job
  BY JobFacts DEF JobsInv
<1>b. UNCHANGED examVars /\ job[w].req.op = op
  BY DEF ReadAttempt, AuthAttempt, CheckAttempt, dbVars
<1>c. ASSUME NEW code \in Codes, Reply(w, code) PROVE Resting(w)
  BY <1>b, <1>c, ReplyRests
<1>1. CASE ReadAttempt(w, op, missing)
  <2>1. CASE job' = [job EXCEPT ![w].pc = "auth",
                                ![w].completed = attempts[job[w].req.attempt].completed]
    <3>1. Moves(w) /\ job'[w].pc = "auth"
      BY <1>a, <2>1 DEF Moves, TypeOK, Job
    <3> QED
      BY <1>b, <3>1 DEF Resting
  <2> QED
    BY <1>1, <1>c, <2>1 DEF ReadAttempt
<1>2. CASE AuthAttempt(w, op)
  <2>1. CASE Goto(w, "tcheck")
    BY <1>2, <1>a, <1>b, <2>1, GotoMoves DEF AuthAttempt, Resting, Pcs, AttemptPcs
  <2> QED
    BY <1>2, <1>c, <2>1, ValidateCodes DEF AuthAttempt
<1>3. CASE CheckAttempt(w, op, next)
  <2>1. CASE Goto(w, next)
    BY <1>3, <1>a, <1>b, <2>1, GotoMoves DEF CheckAttempt, Resting, Pcs, AttemptPcs
  <2> QED
    BY <1>3, <1>c, <2>1 DEF CheckAttempt, Codes
<1> QED
  BY <1>1, <1>2, <1>3

LEMMA SheetCases ==
    ASSUME JobsInv, NEW w \in Workers, Step(w)
    PROVE  EditsAttempt(w) \/ CreateReadLinks(w) \/ FinishGrade(w) \/ Resting(w)
<1>1. CASE TestAdminStep(w) \/ MembershipStep(w)
  <2>1. AdminEffect(w)
    BY <1>1, TestAdminEffect, MembershipEffect DEF JobsInv
  <2>2. Guarded(w)
    BY StepsGuarded
  <2> QED
    BY <2>1, <2>2 DEF AdminEffect, Guarded, Sitting, CreatePcs, Resting
<1>2. CASE CreateStep(w)
  BY <1>2, CreateSheetCases DEF EditsAttempt
<1>3. CASE SetStep(w)
  BY <1>3, SharedSheetCases DEF SetStep, EditsAttempt, Codes
<1>4. CASE FinishStep(w)
  BY <1>4, SharedSheetCases DEF FinishStep, EditsAttempt, Codes
<1> QED
  BY <1>1, <1>2, <1>3, <1>4 DEF Step, AttemptStep

-----------------------------------------------------------------------------
(* The inductive invariant of the sheets: each is filled by one thread,    *)
(* row by row, and a row that can never be answered never is.              *)

Filling(w) == job[w].pc \in {"sheet", "answers"}

AnswerableRows(a) ==
    {l \in LinkIds : /\ answers[a][l] # Nil
                     /\ answers[a][l].version = ActualVersion[answers[a][l].quest]}

FillsOwnSheet(w) ==
    /\ \A v \in Workers : v # w /\ Filling(v) /\ Filling(w)
                          => job[v].attempt # job[w].attempt
    /\ job[w].pc = "sheet" => \A l \in LinkIds : answers[job[w].attempt][l] = Nil
    /\ job[w].pc = "answers" =>
          \A l \in LinkIds : job[w].todo[l] # Nil => answers[job[w].attempt][l] = Nil

MarksAnswerable(w) ==
    job[w].pc = "mark" => job[w].mark <= Cardinality(AnswerableRows(job[w].req.attempt))

SheetSound(a) ==
    /\ attempts[a] = Nil => \A l \in LinkIds : answers[a][l] = Nil
    /\ \A l \in LinkIds : answers[a][l] # Nil /\ answers[a][l].answer # NoAnswer
                          => answers[a][l].version = ActualVersion[answers[a][l].quest]
    /\ attempts[a] # Nil => attempts[a].mark <= Cardinality(AnswerableRows(a))

SheetInv ==
    /\ DrainInv
    /\ \A w \in Workers : FillsOwnSheet(w) /\ MarksAnswerable(w)
    /\ \A a \in AttemptIds : SheetSound(a)

\* What SheetIsFixed says of a step, by thread w if it adds a row.
RowKept(a, l) ==
    answers[a][l] # Nil =>
        /\ answers'[a][l] # Nil
        /\ answers'[a][l].quest = answers[a][l].quest
        /\ answers'[a][l].version = answers[a][l].version

RowAddedBy(w, a, l) ==
    answers[a][l] = Nil /\ answers'[a][l] # Nil =>
        job[w].pc = "answers" /\ job[w].attempt = a /\ job'[w] # job[w]

SheetsFixed(w) == \A a \in AttemptIds, l \in LinkIds : RowKept(a, l) /\ RowAddedBy(w, a, l)

LEMMA AnswerRowNotNil ==
    ASSUME NEW q \in Quests, NEW v \in Versions, NEW n \in Answers \cup {NoAnswer}
    PROVE  [quest |-> q, version |-> v, answer |-> n] # Nil
<1>1. [quest |-> q, version |-> v, answer |-> n] \in AnswerRow
  BY DEF AnswerRow
<1> QED
  BY <1>1, ConstantsAssumption

\* The row CreateInsertAnswer adds.
LEMMA InsertedRow ==
    ASSUME SheetInv, NEW w \in Workers, CreateInsertAnswer(w)
    PROVE  \E k \in LinkIds :
              /\ job[w].todo[k] # Nil /\ job[w].todo[k] \in LinkRow
              /\ answers[job[w].attempt][k] = Nil
              /\ answers'[job[w].attempt][k] =
                    [quest |-> job[w].todo[k].quest,
                     version |-> job[w].todo[k].version, answer |-> NoAnswer]
              /\ \A a \in AttemptIds, l \in LinkIds :
                    a # job[w].attempt \/ l # k => answers'[a][l] = answers[a][l]
              /\ job'[w].todo = [job[w].todo EXCEPT ![k] = Nil]
<1>a. TypeOK /\ job[w] \in Job /\ job[w].pc = "answers" /\ FillsOwnSheet(w)
  BY JobFacts DEF SheetInv, DrainInv, JobsInv, CreateInsertAnswer, At
<1>b. job[w].attempt \in AttemptIds
  <2>1. InOrder(w) /\ JobWellFormed(w) /\ job[w].req # Nil
    BY <1>a, JobFacts DEF SheetInv, DrainInv, JobsInv
  <2> QED
    BY <1>a, <2>1 DEF InOrder, CreatePcs, JobWellFormed, Job
<1>1. PICK k \in LinkIds :
         /\ job[w].todo[k] # Nil
         /\ answers' = [answers EXCEPT ![job[w].attempt][k] =
               [quest |-> job[w].todo[k].quest,
                version |-> job[w].todo[k].version, answer |-> NoAnswer]]
         /\ job' = [job EXCEPT ![w].todo[k] = Nil]
  BY DEF CreateInsertAnswer
<1>2. job[w].todo[k] \in LinkRow
  BY <1>a, <1>1 DEF Job
<1>3. answers[job[w].attempt][k] = Nil
  BY <1>a, <1>1 DEF FillsOwnSheet
<1>4. /\ answers'[job[w].attempt][k] =
            [quest |-> job[w].todo[k].quest,
             version |-> job[w].todo[k].version, answer |-> NoAnswer]
      /\ \A a \in AttemptIds, l \in LinkIds :
            a # job[w].attempt \/ l # k => answers'[a][l] = answers[a][l]
  BY <1>a, <1>b, <1>1 DEF TypeOK, TablesTypeOK
<1>5. job'[w].todo = [job[w].todo EXCEPT ![k] = Nil]
  BY <1>a, <1>1 DEF TypeOK, Job
<1> QED
  BY <1>1, <1>2, <1>3, <1>4, <1>5

\* The rows SetWrite answers.
LEMMA AnsweredRows ==
    ASSUME SheetInv, NEW w \in Workers, SetWrite(w)
    PROVE  LET r == job[w].req
           IN  /\ r.attempt \in AttemptIds /\ r.quest \in Quests /\ r.answer \in Answers
               /\ \A a \in AttemptIds : a # r.attempt => answers'[a] = answers[a]
               /\ \A l \in LinkIds :
                     answers'[r.attempt][l] =
                        IF Matches(answers[r.attempt][l], r.quest)
                        THEN [answers[r.attempt][l] EXCEPT !.answer = r.answer]
                        ELSE answers[r.attempt][l]
               /\ answers'[r.attempt] =
                     [l \in LinkIds |-> IF Matches(answers[r.attempt][l], r.quest)
                                        THEN [answers[r.attempt][l] EXCEPT !.answer = r.answer]
                                        ELSE answers[r.attempt][l]]
<1> DEFINE r == job[w].req
<1>1. TypeOK /\ r \in Request /\ r.op = "set"
  BY JobFacts DEF SheetInv, DrainInv, JobsInv, SetWrite, At
<1>2. r.attempt \in AttemptIds /\ r.quest \in Quests /\ r.answer \in Answers
  BY <1>1, RequestFields
<1>3. answers' = [answers EXCEPT ![r.attempt] =
         [l \in LinkIds |-> IF Matches(@[l], r.quest)
                            THEN [@[l] EXCEPT !.answer = r.answer] ELSE @[l]]]
  BY DEF SetWrite
<1>4. answers \in [AttemptIds -> [LinkIds -> AnswerRow \cup {Nil}]]
  BY <1>1 DEF TypeOK, TablesTypeOK
<1> QED
  BY <1>2, <1>3, <1>4

LEMMA StepFixes ==
    ASSUME SheetInv, NEW w \in Workers, Step(w) PROVE SheetsFixed(w)
<1>a. TypeOK /\ JobsInv /\ Guarded(w)
  BY StepFacts DEF SheetInv
<1>1. CASE CreateInsertAnswer(w)
  <2>1. PICK k \in LinkIds :
           /\ answers[job[w].attempt][k] = Nil
           /\ \A a \in AttemptIds, l \in LinkIds :
                 a # job[w].attempt \/ l # k => answers'[a][l] = answers[a][l]
    BY <1>1, InsertedRow
  <2>2. job[w].pc = "answers" /\ job'[w] # job[w]
    BY <1>1, <1>a DEF CreateInsertAnswer, At, Guarded, Access
  <2> QED
    BY <2>1, <2>2 DEF SheetsFixed, RowKept, RowAddedBy
<1>2. CASE SetWrite(w)
  <2> DEFINE r == job[w].req
  <2> SUFFICES ASSUME NEW a \in AttemptIds, NEW l \in LinkIds
               PROVE  RowKept(a, l) /\ RowAddedBy(w, a, l)
    BY DEF SheetsFixed
  <2>1. CASE a = r.attempt /\ Matches(answers[a][l], r.quest)
    <3>1. answers'[a][l] = [answers[a][l] EXCEPT !.answer = r.answer] /\ r.answer \in Answers
      BY <1>2, <2>1, AnsweredRows
    <3>2. answers[a][l] \in AnswerRow
      BY <1>a, <2>1 DEF TypeOK, TablesTypeOK, Matches
    <3>3. /\ answers'[a][l].quest = answers[a][l].quest
          /\ answers'[a][l].version = answers[a][l].version
          /\ answers'[a][l] \in AnswerRow
      BY <3>1, <3>2 DEF AnswerRow
    <3> QED
      BY <2>1, <3>3, ConstantsAssumption DEF RowKept, RowAddedBy, Matches
  <2>2. CASE ~(a = r.attempt /\ Matches(answers[a][l], r.quest))
    <3>1. answers'[a][l] = answers[a][l]
      <4>1. CASE a # r.attempt
        <5>1. answers'[a] = answers[a]
          BY <1>2, <4>1, AnsweredRows
        <5> QED
          BY <5>1
      <4>2. CASE a = r.attempt
        BY <1>2, <2>2, <4>2, AnsweredRows
      <4> QED
        BY <4>1, <4>2
    <3> QED
      BY <3>1 DEF RowKept, RowAddedBy
  <2> QED
    BY <2>1, <2>2
<1>3. CASE answers' = answers
  BY <1>3 DEF SheetsFixed, RowKept, RowAddedBy
<1> QED
  BY <1>1, <1>2, <1>3, <1>a, SheetCases DEF EditsAttempt, CreateInsert, CreateReadLinks,
     FinishComplete, FinishGrade, FinishMark, Resting, dbVars, examVars

-----------------------------------------------------------------------------
(* Preserving the invariant of the sheets.                                 *)

LEMMA AnswerableFinite ==
    ASSUME NEW a PROVE IsFiniteSet(AnswerableRows(a)) /\ Cardinality(AnswerableRows(a)) \in Nat
<1>1. IsFiniteSet(AnswerableRows(a))
  BY ConstantsAssumption, FS_Subset DEF AnswerableRows
<1> QED
  BY <1>1, FS_CardinalityType

\* The rows of a sheet that can be answered are only ever more.
LEMMA AnswerableGrow ==
    ASSUME NEW w, SheetsFixed(w), NEW a \in AttemptIds
    PROVE  /\ Cardinality(AnswerableRows(a)) \in Nat
           /\ Cardinality(AnswerableRows(a))' \in Nat
           /\ Cardinality(AnswerableRows(a)) <= Cardinality(AnswerableRows(a))'
<1>1. AnswerableRows(a) \subseteq AnswerableRows(a)'
  BY DEF SheetsFixed, RowKept, AnswerableRows
<1>2. IsFiniteSet(AnswerableRows(a)')
  <2>1. AnswerableRows(a)' \subseteq LinkIds
    BY DEF AnswerableRows
  <2> QED
    BY <2>1, ConstantsAssumption, FS_Subset
<1>3. /\ Cardinality(AnswerableRows(a)) <= Cardinality(AnswerableRows(a)')
      /\ Cardinality(AnswerableRows(a)') \in Nat
  BY <1>1, <1>2, FS_Subset, FS_CardinalityType
<1> QED
  BY <1>3, AnswerableFinite

\* A mark counts only rows that can be answered: the others hold no answer,
\* and no question has that for its correct one.
LEMMA ScoreAnswerable ==
    ASSUME TypeOK, NEW a \in AttemptIds, SheetSound(a)
    PROVE  Score(answers[a]) <= Cardinality(AnswerableRows(a)) /\ Score(answers[a]) \in Nat
<1> DEFINE right == {l \in LinkIds : Correct(answers[a][l])}
<1>1. right \subseteq AnswerableRows(a)
  <2> SUFFICES ASSUME NEW l \in LinkIds, Correct(answers[a][l]) PROVE l \in AnswerableRows(a)
    OBVIOUS
  <2>1. answers[a][l] \in AnswerRow /\ answers[a][l] # Nil
    BY DEF TypeOK, TablesTypeOK, Correct
  <2>2. answers[a][l].answer # NoAnswer
    BY <2>1, ConstantsAssumption DEF AnswerRow, Correct
  <2> QED
    BY <2>1, <2>2 DEF SheetSound, AnswerableRows
<1>2. Cardinality(right) <= Cardinality(AnswerableRows(a)) /\ IsFiniteSet(right)
  BY <1>1, AnswerableFinite, FS_Subset
<1> QED
  BY <1>2, FS_CardinalityType DEF Score

\* An attempt that keeps its mark, or gets that of a thread.
LEMMA MarkStaysAnswerable ==
    ASSUME NEW w, SheetsFixed(w), NEW a \in AttemptIds, NEW m \in Int,
           m <= Cardinality(AnswerableRows(a))
    PROVE  m <= Cardinality(AnswerableRows(a))'
  BY AnswerableGrow

\* A thread that does not move finds its sheet as it left it.
LEMMA OthersFill ==
    ASSUME SheetInv, NEW w \in Workers, SheetsFixed(w), NEW v \in Workers, v # w,
           job'[v] = job[v]
    PROVE  /\ job'[v].pc = "sheet" => \A l \in LinkIds : answers'[job'[v].attempt][l] = Nil
           /\ job'[v].pc = "answers" => \A l \in LinkIds :
                 job'[v].todo[l] # Nil => answers'[job'[v].attempt][l] = Nil
           /\ MarksAnswerable(v)'
<1>a. /\ JobWellFormed(v) /\ InOrder(v) /\ job[v] \in Job
      /\ FillsOwnSheet(v) /\ MarksAnswerable(v)
  BY JobFacts DEF SheetInv, DrainInv, JobsInv
<1>b. job[v].pc # "idle" => job[v].req # Nil /\ job[v].req \in Request
  BY JobFacts DEF SheetInv, DrainInv, JobsInv
<1>c. Filling(v) => job[v].attempt \in AttemptIds
  BY <1>a, <1>b DEF Filling, InOrder, CreatePcs, JobWellFormed, Job
<1>d. Filling(w) /\ Filling(v) => job[w].attempt # job[v].attempt
  BY <1>a DEF FillsOwnSheet
<1>1. \A l \in LinkIds : Filling(v) /\ answers[job[v].attempt][l] = Nil
                         => answers'[job[v].attempt][l] = Nil
  BY <1>c, <1>d DEF Filling, SheetsFixed, RowAddedBy
<1>2. MarksAnswerable(v)'
  <2> SUFFICES ASSUME job[v].pc = "mark"
               PROVE  job[v].mark <= Cardinality(AnswerableRows(job[v].req.attempt))'
    BY DEF MarksAnswerable
  <2>1. job[v].req.attempt \in AttemptIds /\ job[v].mark \in Int
    BY <1>a, <1>b, RequestFields, MarksType DEF InOrder, Job, Marks
  <2>2. job[v].mark <= Cardinality(AnswerableRows(job[v].req.attempt))
    BY <1>a DEF MarksAnswerable
  <2> QED
    BY <2>1, <2>2, MarkStaysAnswerable
<1> QED
  BY <1>a, <1>1, <1>2 DEF FillsOwnSheet, Filling

LEMMA CalmSheets ==
    ASSUME SheetInv, Calm
    PROVE  /\ \A v \in Workers : FillsOwnSheet(v)' /\ MarksAnswerable(v)'
           /\ \A a \in AttemptIds : SheetSound(a)'
<1>1. answers' = answers /\ attempts' = attempts
  BY DEF Calm, dbVars, examVars
<1>2. \A v \in Workers : Filling(v)' \/ job'[v].pc = "mark" => job'[v] = job[v]
  BY DEF Calm, Fresh, Filling
<1>3. \A v \in Workers : FillsOwnSheet(v)'
  BY <1>1, <1>2 DEF SheetInv, FillsOwnSheet, Filling
<1>4. \A v \in Workers : MarksAnswerable(v)'
  BY <1>1, <1>2 DEF SheetInv, MarksAnswerable, AnswerableRows
<1>5. \A a \in AttemptIds : SheetSound(a)'
  BY <1>1 DEF SheetInv, SheetSound, AnswerableRows
<1> QED
  BY <1>3, <1>4, <1>5

\* What a step has to establish for its own thread, and for the attempts.
FillsOn(w) ==
    /\ \A v \in Workers : v # w /\ Filling(v) /\ Filling(w)'
                          => job[v].attempt # job'[w].attempt
    /\ job'[w].pc = "sheet" => \A l \in LinkIds : answers'[job'[w].attempt][l] = Nil
    /\ job'[w].pc = "answers" =>
          \A l \in LinkIds : job'[w].todo[l] # Nil => answers'[job'[w].attempt][l] = Nil
    /\ MarksAnswerable(w)'

SheetsSound == \A a \in AttemptIds : SheetSound(a)'

LEMMA FillingAttempt ==
    ASSUME DrainInv, NEW v \in Workers, Filling(v)
    PROVE  /\ job[v].attempt \in AttemptIds /\ attempts[job[v].attempt] # Nil
           /\ job[v].req.op = "create" /\ job[v].req # Nil
  BY JobFacts DEF DrainInv, JobsInv, Filling, InOrder, CreatePcs, JobWellFormed, Job

\* A step that leaves the sheets alone and changes marks only to what its
\* thread has counted.
LEMMA SoundWithSameSheets ==
    ASSUME SheetInv, NEW w \in Workers, answers' = answers,
           \A a \in AttemptIds :
              /\ attempts'[a] = Nil => attempts[a] = Nil
              /\ attempts'[a] # Nil =>
                    \/ attempts'[a].mark = NoMark
                    \/ attempts[a] # Nil /\ attempts'[a].mark = attempts[a].mark
                    \/ attempts'[a].mark <= Cardinality(AnswerableRows(a))
    PROVE  SheetsSound
<1> SUFFICES ASSUME NEW a \in AttemptIds PROVE SheetSound(a)'
  BY DEF SheetsSound
<1>1. AnswerableRows(a)' = AnswerableRows(a) /\ SheetSound(a)
  BY DEF AnswerableRows, SheetInv
<1>2. Cardinality(AnswerableRows(a)) \in Nat
  BY AnswerableFinite
<1>3. attempts'[a] # Nil => attempts'[a].mark <= Cardinality(AnswerableRows(a))
  BY <1>1, <1>2 DEF SheetSound, NoMark
<1> QED
  BY <1>1, <1>3 DEF SheetSound

LEMMA InsertSheets ==
    ASSUME SheetInv, NEW w \in Workers, CreateInsert(w) PROVE FillsOn(w) /\ SheetsSound
<1> DEFINE r == job[w].req
<1>a. TypeOK /\ DrainInv /\ answers' = answers
  BY DEF SheetInv, DrainInv, JobsInv, TypeInv, CreateInsert
<1>1. PICK a \in AttemptIds :
         /\ attempts[a] = Nil
         /\ attempts' = [attempts EXCEPT ![a] =
               [user |-> r.user, test |-> r.test,
                completed |-> FALSE, mark |-> NoMark]]
         /\ job' = [job EXCEPT ![w].pc = "sheet", ![w].attempt = a]
  BY DEF CreateInsert
<1>2. job'[w].pc = "sheet" /\ job'[w].attempt = a
  BY <1>a, <1>1 DEF TypeOK, Job
<1>3. \A l \in LinkIds : answers[a][l] = Nil
  BY <1>1 DEF SheetInv, SheetSound
<1>4. FillsOn(w)
  BY <1>a, <1>1, <1>2, <1>3, FillingAttempt DEF FillsOn, MarksAnswerable
<1>5. \A b \in AttemptIds :
         attempts'[b] = attempts[b] \/ (b = a /\ attempts'[b].mark = NoMark)
  BY <1>a, <1>1 DEF TypeOK, TablesTypeOK
<1>6. SheetsSound
  <2>1. attempts'[a].mark = NoMark
    BY <1>a, <1>1 DEF TypeOK, TablesTypeOK
  <2>2. attempts'[a] # Nil => attempts'[a].mark = NoMark
    BY <2>1
  <2> QED
    BY <1>a, <1>1, <1>5, SoundWithSameSheets
<1> QED
  BY <1>4, <1>6

LEMMA ReadLinksSheets ==
    ASSUME SheetInv, NEW w \in Workers, CreateReadLinks(w) PROVE FillsOn(w) /\ SheetsSound
<1>a. /\ TypeOK /\ FillsOwnSheet(w) /\ attempts' = attempts /\ answers' = answers
      /\ job[w].pc = "sheet"
  BY DEF SheetInv, DrainInv, JobsInv, TypeInv, CreateReadLinks, At, dbVars, examVars
<1>1. job'[w].pc = "answers" /\ job'[w].attempt = job[w].attempt
  BY <1>a DEF CreateReadLinks, TypeOK, Job
<1>2. FillsOn(w)
  BY <1>a, <1>1 DEF FillsOn, FillsOwnSheet, Filling, MarksAnswerable
<1> QED
  BY <1>a, <1>2, SoundWithSameSheets

LEMMA InsertAnswerSheets ==
    ASSUME SheetInv, NEW w \in Workers, CreateInsertAnswer(w) PROVE FillsOn(w) /\ SheetsSound
<1>a. /\ TypeOK /\ FillsOwnSheet(w) /\ attempts' = attempts /\ job[w].pc = "answers"
      /\ job[w] \in Job /\ SheetsFixed(w)
  BY StepFixes, JobFacts DEF SheetInv, DrainInv, JobsInv, CreateInsertAnswer, At,
     Step, AttemptStep, CreateStep
<1>b. job[w].attempt \in AttemptIds /\ attempts[job[w].attempt] # Nil
  BY <1>a, FillingAttempt DEF SheetInv, Filling
<1>1. PICK k \in LinkIds :
         /\ answers'[job[w].attempt][k] =
               [quest |-> job[w].todo[k].quest,
                version |-> job[w].todo[k].version, answer |-> NoAnswer]
         /\ \A a \in AttemptIds, l \in LinkIds :
               a # job[w].attempt \/ l # k => answers'[a][l] = answers[a][l]
         /\ job'[w].todo = [job[w].todo EXCEPT ![k] = Nil]
  BY <1>a, InsertedRow
<1>2. job'[w].pc = "answers" /\ job'[w].attempt = job[w].attempt
  BY <1>a DEF CreateInsertAnswer, TypeOK, Job
<1>3. FillsOn(w)
  BY <1>a, <1>b, <1>1, <1>2 DEF FillsOn, FillsOwnSheet, Filling, MarksAnswerable, Job
<1>4. ASSUME NEW a \in AttemptIds PROVE SheetSound(a)'
  <2>1. SheetSound(a)
    BY DEF SheetInv
  <2>2. attempts[a] # Nil => attempts[a].mark <= Cardinality(AnswerableRows(a))'
    <3>1. attempts[a] # Nil => attempts[a].mark \in Int
      BY <1>a, MarksType DEF TypeOK, TablesTypeOK, AttemptRow, Marks, NoMark
    <3> QED
      BY <1>a, <2>1, <3>1, MarkStaysAnswerable DEF SheetSound
  <2>3. ASSUME NEW l \in LinkIds
        PROVE  \/ answers'[a][l] = answers[a][l]
               \/ a = job[w].attempt /\ answers'[a][l].answer = NoAnswer
    <3>1. CASE a # job[w].attempt \/ l # k
      BY <1>1, <3>1
    <3>2. CASE a = job[w].attempt /\ l = k
      <4>1. answers'[a][l] = [quest |-> job[w].todo[k].quest,
                              version |-> job[w].todo[k].version, answer |-> NoAnswer]
        BY <1>1, <3>2
      <4> QED
        BY <3>2, <4>1
    <3> QED
      BY <3>1, <3>2
  <2> QED
    BY <1>a, <1>b, <1>1, <2>1, <2>2, <2>3 DEF SheetSound
<1> QED
  BY <1>3, <1>4 DEF SheetsSound

LEMMA SetWriteSheets ==
    ASSUME SheetInv, NEW w \in Workers, SetWrite(w) PROVE FillsOn(w) /\ SheetsSound
<1> DEFINE r == job[w].req
<1>a. TypeOK /\ JobsInv /\ attempts' = attempts /\ SheetsFixed(w)
  BY StepFixes DEF SheetInv, DrainInv, JobsInv, TypeInv, SetWrite,
     Step, AttemptStep, SetStep
<1>1. job'[w].pc = "done"
  BY <1>a, SetCodesType, ReplyJob DEF SetWrite
<1>2. FillsOn(w)
  BY <1>1 DEF FillsOn, Filling, MarksAnswerable
<1>3. ASSUME NEW a \in AttemptIds PROVE SheetSound(a)'
  <2>1. SheetSound(a)
    BY DEF SheetInv
  <2>2. attempts[a] # Nil => attempts[a].mark <= Cardinality(AnswerableRows(a))'
    <3>1. attempts[a] # Nil => attempts[a].mark \in Int
      BY <1>a, MarksType DEF TypeOK, TablesTypeOK, AttemptRow, Marks, NoMark
    <3> QED
      BY <1>a, <2>1, <3>1, MarkStaysAnswerable DEF SheetSound
  <2>3. ASSUME NEW l \in LinkIds
        PROVE  \/ answers'[a][l] = answers[a][l]
               \/ /\ answers[a][l] # Nil /\ answers'[a][l] # Nil
                  /\ answers'[a][l].version = ActualVersion[answers'[a][l].quest]
    <3>1. CASE a = r.attempt /\ Matches(answers[a][l], r.quest)
      BY <1>a, <3>1 DEF Matches, SheetsFixed, RowKept
    <3>2. CASE a = r.attempt /\ ~Matches(answers[a][l], r.quest)
      BY <3>2, AnsweredRows
    <3>3. CASE a # r.attempt
      <4>1. answers'[a] = answers[a]
        BY <3>3, AnsweredRows
      <4> QED
        BY <4>1
    <3> QED
      BY <3>1, <3>2, <3>3
  <2> QED
    BY <1>a, <2>1, <2>2, <2>3 DEF SheetSound
<1> QED
  BY <1>2, <1>3 DEF SheetsSound

LEMMA FinishSheets ==
    ASSUME SheetInv, NEW w \in Workers, FinishComplete(w) \/ FinishGrade(w) \/ FinishMark(w)
    PROVE  FillsOn(w) /\ SheetsSound
<1> DEFINE r == job[w].req
<1>a. TypeOK /\ job[w] \in Job /\ MarksAnswerable(w) /\ JobsInv
  BY JobFacts DEF SheetInv, DrainInv, JobsInv
<1>b. r \in Request /\ r.op = "finish" /\ job[w].pc \in {"complete", "grade", "mark"}
  BY <1>a, JobFacts DEF JobsInv, FinishComplete, FinishGrade, FinishMark, At
<1>c. r.attempt \in AttemptIds /\ attempts[r.attempt] \in AttemptRow /\ answers' = answers
  <2>1. r.attempt \in AttemptIds /\ attempts[r.attempt] # Nil
    BY <1>a, <1>b, JobFacts, RequestFields DEF JobsInv, JobWellFormed
  <2> QED
    BY <1>a, <2>1 DEF TypeOK, TablesTypeOK, FinishComplete, FinishGrade, FinishMark,
       dbVars, examVars
<1>1. CASE FinishComplete(w)
  <2>1. job'[w].pc = "grade"
    BY <1>a, <1>1, GotoJob DEF FinishComplete, Pcs, AttemptPcs
  <2>2. \A a \in AttemptIds :
           \/ attempts'[a] = attempts[a]
           \/ attempts[a] # Nil /\ attempts'[a] # Nil /\ attempts'[a].mark = attempts[a].mark
    <3>1. attempts'[r.attempt] = [attempts[r.attempt] EXCEPT !.completed = TRUE]
      BY <1>a, <1>1, <1>c DEF FinishComplete, TypeOK, TablesTypeOK
    <3>2. attempts'[r.attempt] \in AttemptRow
          /\ attempts'[r.attempt].mark = attempts[r.attempt].mark
      BY <1>c, <3>1 DEF AttemptRow
    <3>3. \A a \in AttemptIds : a # r.attempt => attempts'[a] = attempts[a]
      BY <1>a, <1>1 DEF FinishComplete, TypeOK, TablesTypeOK
    <3> QED
      BY <1>c, <3>2, <3>3, ConstantsAssumption
  <2>3. FillsOn(w)
    BY <2>1 DEF FillsOn, Filling, MarksAnswerable
  <2> QED
    BY <1>c, <2>2, <2>3, SoundWithSameSheets
<1>2. CASE FinishGrade(w)
  <2>1. /\ job'[w].pc = "mark" /\ job'[w].mark = Score(answers[r.attempt])
        /\ job'[w].req = r /\ attempts' = attempts
    BY <1>a, <1>2 DEF FinishGrade, TypeOK, Job, dbVars, examVars
  <2>2. SheetSound(r.attempt)
    BY <1>c DEF SheetInv
  <2>3. Score(answers[r.attempt]) <= Cardinality(AnswerableRows(r.attempt))
    BY <1>a, <1>c, <2>2, ScoreAnswerable
  <2>4. AnswerableRows(r.attempt)' = AnswerableRows(r.attempt)
    BY <1>c, <2>1 DEF AnswerableRows
  <2>5. FillsOn(w)
    BY <2>1, <2>3, <2>4 DEF FillsOn, Filling, MarksAnswerable, AnswerableRows
  <2> QED
    BY <1>c, <2>1, <2>5, SoundWithSameSheets
<1>3. CASE FinishMark(w)
  <2>1. job'[w].pc = "done" /\ job[w].pc = "mark"
    BY <1>a, <1>3, CommitCodesType, ReplyJob DEF FinishMark, At
  <2>2. job[w].mark <= Cardinality(AnswerableRows(r.attempt))
    BY <1>a, <2>1 DEF MarksAnswerable
  <2>3. attempts'[r.attempt].mark = job[w].mark
        /\ \A a \in AttemptIds : a # r.attempt => attempts'[a] = attempts[a]
    BY <1>a, <1>3, <1>c DEF FinishMark, TypeOK, TablesTypeOK, AttemptRow
  <2>4. FillsOn(w)
    BY <2>1 DEF FillsOn, Filling, MarksAnswerable
  <2>5. attempts[r.attempt] # Nil
    BY <1>c, ConstantsAssumption
  <2>6. attempts'[r.attempt] # Nil
    <3>1. Advances(r.attempt)
      BY <1>3, <1>a, <1>c, StepsEffect DEF StepEffect, Step, AttemptStep, FinishStep
    <3> QED
      BY <2>5, <3>1 DEF Advances
  <2> QED
    BY <1>c, <2>2, <2>3, <2>4, <2>5, <2>6, SoundWithSameSheets
<1> QED
  BY <1>1, <1>2, <1>3

LEMMA RestingSheets ==
    ASSUME SheetInv, NEW w \in Workers, Resting(w) PROVE FillsOn(w) /\ SheetsSound
<1>1. FillsOn(w)
  BY DEF Resting, FillsOn, Filling, MarksAnswerable
<1>2. attempts' = attempts /\ answers' = answers
  BY DEF Resting, examVars
<1> QED
  BY <1>1, <1>2, SoundWithSameSheets

LEMMA NextSheetInv == ASSUME SheetInv, [MortalNext]_vars PROVE SheetInv'
<1>1. DrainInv' /\ DrainInv /\ JobsInv
  BY NextDrainInv DEF SheetInv, DrainInv
<1>2. CASE Calm
  BY <1>1, <1>2, CalmSheets DEF SheetInv
<1>3. ASSUME NEW w \in Workers, Step(w) PROVE SheetInv'
  <2>1. SheetsFixed(w) /\ Moves(w)
    BY <1>1, <1>3, StepFixes, StepsEffect DEF StepEffect
  <2>2. FillsOn(w) /\ SheetsSound
    BY <1>1, <1>3, SheetCases, InsertSheets, ReadLinksSheets, InsertAnswerSheets,
       SetWriteSheets, FinishSheets, RestingSheets DEF EditsAttempt
  <2>3. \A v \in Workers : v # w => job'[v] = job[v]
    BY <2>1 DEF Moves
  <2>4. ASSUME NEW v \in Workers, NEW u \in Workers, u # v, Filling(u)', Filling(v)'
        PROVE  job'[u].attempt # job'[v].attempt
    BY <2>2, <2>3, <2>4 DEF SheetInv, FillsOwnSheet, FillsOn, Filling
  <2>5. \A v \in Workers : FillsOwnSheet(v)'
    BY <2>1, <2>2, <2>3, <2>4, OthersFill DEF FillsOwnSheet, FillsOn
  <2>6. \A v \in Workers : MarksAnswerable(v)'
    BY <2>1, <2>2, <2>3, OthersFill DEF FillsOn
  <2> QED
    BY <1>1, <2>2, <2>5, <2>6 DEF SheetInv, SheetsSound
<1> QED
  BY <1>1, <1>2, <1>3, NextCases

LEMMA InitSheetInv == Init => SheetInv
<1> SUFFICES ASSUME Init PROVE SheetInv
  OBVIOUS
<1>1. DrainInv
  BY InitDrainInv
<1>2. \A w \in Workers : job[w].pc = "idle"
  BY DEF Init, IdleJob
<1>3. \A a \in AttemptIds : attempts[a] = Nil /\ \A l \in LinkIds : answers[a][l] = Nil
  BY DEF Init, NoAnswers
<1> QED
  BY <1>1, <1>2, <1>3
     DEF SheetInv, FillsOwnSheet, Filling, MarksAnswerable, SheetSound

THEOREM SheetInvariant == MortalSpec => []SheetInv
<1>1. SheetInv /\ [MortalNext]_vars => SheetInv'
  BY NextSheetInv
<1> QED
  BY <1>1, InitSheetInv, PTL DEF MortalSpec

LEMMA MortalSheetsStay == MortalSpec => SheetIsFixed
<1>1. SheetInv /\ [MortalNext]_vars =>
         [\A a \in AttemptIds, l \in LinkIds :
             /\ answers[a][l] # Nil =>
                   /\ answers'[a][l] # Nil
                   /\ answers'[a][l].quest = answers[a][l].quest
                   /\ answers'[a][l].version = answers[a][l].version
             /\ answers[a][l] = Nil /\ answers'[a][l] # Nil =>
                   \E w \in Workers : /\ job[w].pc = "answers" /\ job[w].attempt = a
                                      /\ job'[w] # job[w]]_vars
  <2> SUFFICES ASSUME SheetInv, [MortalNext]_vars, NEW a \in AttemptIds, NEW l \in LinkIds
               PROVE  RowKept(a, l) /\ (answers[a][l] = Nil /\ answers'[a][l] # Nil =>
                         \E w \in Workers : RowAddedBy(w, a, l))
    BY DEF RowKept, RowAddedBy
  <2>1. CASE Calm
    BY <2>1 DEF Calm, dbVars, examVars, RowKept
  <2>2. ASSUME NEW w \in Workers, Step(w) PROVE RowKept(a, l) /\ RowAddedBy(w, a, l)
    BY <2>2, StepFixes DEF SheetsFixed
  <2> QED
    BY <2>1, <2>2, NextCases DEF SheetInv, DrainInv
<1> QED
  BY <1>1, SheetInvariant, PTL DEF MortalSpec, SheetIsFixed

(* No sheet handed out is touched by a teacher who edits the test, by      *)
(* another create of the student, or by an answer: rows are added by the   *)
(* thread that opened the attempt, and keep question and version           *)
(* (AttemptRestController.cpp:38-56, 97-106).                              *)
THEOREM SheetsStay == Spec => SheetIsFixed
  BY MortalSheetsStay, SpecIsMortal, PTL

LEMMA MortalMarksWithinAnswerable == MortalSpec => []MarkWithinAnswerable
<1>1. SheetInv => MarkWithinAnswerable
  BY DEF SheetInv, SheetSound, AnswerableRows, MarkWithinAnswerable
<1> QED
  BY <1>1, SheetInvariant, PTL

(* A question linked in a version that is not the actual one is on the     *)
(* sheet but can never be answered: no mark exceeds the number of the      *)
(* others, whatever is sent in parallel.                                   *)
THEOREM MarksWithinAnswerable == Spec => []MarkWithinAnswerable
  BY MortalMarksWithinAnswerable, SpecIsMortal, PTL

-----------------------------------------------------------------------------
(* The sheet of an acknowledged create, as long as no question is linked   *)
(* to a test in the meantime.                                              *)

NoLinking == \A r \in Requests : r.op # "add_quest"

OnSheet(a, l) ==
    /\ answers[a][l] # Nil
    /\ answers[a][l].quest = links[l].quest
    /\ answers[a][l].version = links[l].version

CopiesAll(w) ==
    job[w].req # Nil =>
        /\ job[w].req \in Requests
        /\ job[w].pc = "answers" => \A l \in LinkIds :
              links[l] # Nil /\ links[l].test = job[w].req.test
              => job[w].todo[l] = links[l] \/ OnSheet(job[w].attempt, l)
        /\ job[w].pc = "done" /\ job[w].code = 200 /\ job[w].req.op = "create" =>
              /\ job[w].attempt \in AttemptIds
              /\ \A l \in LinkIds :
                    links[l] # Nil /\ links[l].test = job[w].req.test
                    => OnSheet(job[w].attempt, l)

CopyInv == SheetInv /\ \A w \in Workers : CopiesAll(w)

\* The other steps: the request is the one there was or one of Requests, and
\* an answer they give is not 200.
LEMMA CalmCodes ==
    ASSUME TypeInv, MortalNext, ~\E w \in Workers : Step(w)
    PROVE  \A v \in Workers : \/ job'[v] = job[v]
                             \/ /\ job'[v].code # 200
                                /\ job'[v].req \in {Nil, job[v].req} \cup Requests
                                /\ job'[v].pc # "answers"
<1>a. TypeOK
  BY DEF TypeInv
<1>1. ASSUME NEW w \in Workers, Receive(w)
      PROVE  /\ \A v \in Workers : v # w => job'[v] = job[v]
             /\ job'[w].code = 0 /\ job'[w].req \in Requests /\ job'[w].pc # "answers"
  <2>1. PICK r \in Requests :
           job' = [job EXCEPT ![w] = [IdleJob EXCEPT !.pc = Entry(r), !.req = r]]
    BY <1>1 DEF Receive
  <2> QED
    BY <1>a, <2>1 DEF TypeOK, IdleJob, Entry
<1>2. ASSUME NEW w \in Workers, Abort(w)
      PROVE  /\ \A v \in Workers : v # w => job'[v] = job[v]
             /\ job'[w].code = 500 /\ job'[w].req = job[w].req /\ job'[w].pc # "answers"
  BY <1>a, <1>2, ReplyJob DEF Abort, Codes
<1>3. ASSUME NEW w \in Workers, Respond(w)
      PROVE  /\ \A v \in Workers : v # w => job'[v] = job[v]
             /\ job'[w].code = 0 /\ job'[w].req = Nil /\ job'[w].pc # "answers"
  BY <1>a, <1>3 DEF Respond, TypeOK, IdleJob
<1>4. ASSUME Stop PROVE \A v \in Workers : job'[v].code = 0 /\ job'[v].req = Nil
                                            /\ job'[v].pc # "answers"
  BY <1>4 DEF Stop, IdleJob
<1> QED
  BY <1>1, <1>2, <1>3, <1>4, MortalCases

LEMMA LinksOnlyGo ==
    ASSUME CopyInv, NoLinking, NEW w \in Workers, Step(w)
    PROVE  \A l \in LinkIds : links'[l] # Nil => links'[l] = links[l]
<1>a. TypeOK /\ job[w].req # Nil /\ job[w].req \in Requests
  BY StepFacts DEF CopyInv, SheetInv, CopiesAll
<1>1. ~AddQuestLink(w)
  BY <1>a DEF NoLinking, AddQuestLink, At
<1>2. CASE DeleteQuestUnlink(w)
  BY <1>2, <1>a DEF DeleteQuestUnlink, TypeOK, TablesTypeOK
<1>3. CASE links' = links
  BY <1>3
<1> QED
  BY <1>1, <1>2, <1>3, StepWrites DEF EditsTest, EditsAccess, EditsAttempt, dbVars, testVars,
     SetTestStatusWrite, DeleteTestWrite, SetBlockWrite, AddUserJoin, DeleteUserLeave,
     DeleteCourseDrop, CreateInsert, CreateInsertAnswer, SetWrite, FinishComplete, FinishMark

LEMMA StepCopies ==
    ASSUME CopyInv, NoLinking, NEW w \in Workers, Step(w)
    PROVE  \A v \in Workers : CopiesAll(v)'
<1> DEFINE r == job[w].req
<1>a. /\ TypeOK /\ JobsInv /\ Guarded(w) /\ Moves(w) /\ job[w] \in Job /\ r # Nil
      /\ InOrder(w) /\ SheetsFixed(w) /\ SheetInv /\ CopiesAll(w) /\ DrainInv
  BY StepFacts, StepFixes DEF CopyInv, SheetInv, Guarded
<1>b. \A l \in LinkIds : links'[l] # Nil => links'[l] = links[l]
  BY LinksOnlyGo
<1>1. ASSUME NEW v \in Workers, v # w PROVE CopiesAll(v)'
  <2>1. job'[v] = job[v] /\ CopiesAll(v)
    BY <1>1, <1>a DEF Moves, CopyInv
  <2>2. job[v].pc = "answers" => job[v].attempt \in AttemptIds
    BY <1>a, FillingAttempt DEF Filling
  <2>3. ASSUME NEW l \in LinkIds, links'[l] # Nil, job[v].attempt \in AttemptIds,
               OnSheet(job[v].attempt, l)
        PROVE  OnSheet(job[v].attempt, l)'
    BY <1>a, <1>b, <2>1, <2>3 DEF OnSheet, SheetsFixed, RowKept
  <2> QED
    BY <1>b, <2>1, <2>2, <2>3 DEF CopiesAll
<1>2. CopiesAll(w)'
  <2>1. CASE CreateReadLinks(w)
    <3>1. /\ job'[w].pc = "answers" /\ job'[w].todo = LinksOf(r.test) /\ job'[w].req = r
          /\ links' = links
      BY <1>a, <2>1 DEF CreateReadLinks, TypeOK, Job, dbVars, testVars
    <3> QED
      BY <1>a, <3>1 DEF CopiesAll, LinksOf
  <2>2. CASE CreateInsertAnswer(w)
    <3>1. job[w].attempt \in AttemptIds /\ job[w].pc = "answers" /\ links' = links
      BY <1>a, <2>2, FillingAttempt DEF Filling, CreateInsertAnswer, At, testVars
    <3>2. PICK k \in LinkIds :
             /\ job[w].todo[k] # Nil /\ job[w].todo[k] \in LinkRow
             /\ answers'[job[w].attempt][k] =
                   [quest |-> job[w].todo[k].quest,
                    version |-> job[w].todo[k].version, answer |-> NoAnswer]
             /\ job'[w].todo = [job[w].todo EXCEPT ![k] = Nil]
      BY <1>a, <2>2, InsertedRow
    <3>3. job'[w].pc = "answers" /\ job'[w].attempt = job[w].attempt /\ job'[w].req = r
      BY <1>a, <2>2 DEF CreateInsertAnswer, At, TypeOK, Job
    <3>4. ASSUME NEW l \in LinkIds, links[l] # Nil, links[l].test = r.test
          PROVE  job'[w].todo[l] = links[l] \/ OnSheet(job[w].attempt, l)'
      <4>1. CASE OnSheet(job[w].attempt, l)
        BY <1>a, <3>1, <3>3, <3>4, <4>1 DEF OnSheet, SheetsFixed, RowKept
      <4>2. CASE l # k
        BY <1>a, <3>1, <3>2, <3>4, <4>1, <4>2 DEF CopiesAll, Job
      <4>3. CASE l = k /\ ~OnSheet(job[w].attempt, l)
        <5>1. job[w].todo[k] = links[k]
          BY <1>a, <3>1, <3>4, <4>3 DEF CopiesAll
        <5>2. /\ answers'[job[w].attempt][k].quest = links[k].quest
              /\ answers'[job[w].attempt][k].version = links[k].version
          BY <3>2, <5>1
        <5>3. answers'[job[w].attempt][k] # Nil
          BY <3>2, AnswerRowNotNil DEF LinkRow
        <5> QED
          BY <3>1, <3>3, <4>3, <5>2, <5>3 DEF OnSheet
      <4> QED
        BY <4>1, <4>2, <4>3
    <3> QED
      BY <1>a, <3>1, <3>3, <3>4 DEF CopiesAll, OnSheet
  <2>3. CASE Resting(w)
    <3>1. CASE job'[w].pc = "done" /\ job'[w].code = 200 /\ r.op = "create"
      <4>1. /\ job[w].pc = "answers" /\ job[w].todo = NoLinks /\ links' = links
            /\ job'[w].attempt = job[w].attempt /\ answers' = answers /\ job'[w].req = r
        BY <2>3, <3>1 DEF Resting, examVars, Moves
      <4>2. job[w].attempt \in AttemptIds
        BY <1>a, <4>1, FillingAttempt DEF Filling
      <4> QED
        BY <1>a, <3>1, <4>1, <4>2 DEF CopiesAll, OnSheet, NoLinks
    <3> QED
      BY <1>a, <2>3, <3>1 DEF Resting, Moves, CopiesAll
  <2>4. CASE CreateInsert(w) \/ SetWrite(w) \/ FinishComplete(w) \/ FinishMark(w) \/ FinishGrade(w)
    <3>1. job'[w].pc # "answers"
      BY <2>4, <1>a DEF Guarded, Sitting, CreateInsert, SetWrite, FinishComplete, FinishMark,
         FinishGrade, At
    <3>2. r.op = "create" => job'[w].pc = "sheet"
      BY <2>4, <1>a DEF CreateInsert, SetWrite, FinishComplete, FinishMark, FinishGrade, At,
         TypeOK, Job
    <3> QED
      BY <1>a, <3>1, <3>2 DEF CopiesAll, Moves
  <2> QED
    BY <1>a, <2>1, <2>2, <2>3, <2>4, SheetCases DEF EditsAttempt
<1> QED
  BY <1>1, <1>2

LEMMA MortalFullSheets == 
    ASSUME NoLinking PROVE MortalSpec => []CreateOkMeansFullSheet
<1>1. Init => CopyInv
  <2>1. Init => \A w \in Workers : CopiesAll(w)
    BY DEF Init, IdleJob, CopiesAll
  <2> QED
    BY <2>1, InitSheetInv DEF CopyInv
<1>2. CopyInv /\ [MortalNext]_vars => CopyInv'
  <2> SUFFICES ASSUME CopyInv, [MortalNext]_vars PROVE CopyInv'
    OBVIOUS
  <2>1. SheetInv'
    BY NextSheetInv DEF CopyInv
  <2>2. CASE \E w \in Workers : Step(w)
    BY <2>1, <2>2, StepCopies DEF CopyInv
  <2>3. CASE MortalNext /\ ~\E w \in Workers : Step(w)
    <3>1. Calm
      BY <2>3, NextCases DEF CopyInv, SheetInv, DrainInv
    <3>2. links' = links /\ answers' = answers
      BY <3>1 DEF Calm, dbVars, testVars, examVars
    <3>3. \A v \in Workers : CopiesAll(v)'
      BY <2>3, <3>2, CalmCodes DEF CopyInv, SheetInv, DrainInv, JobsInv, CopiesAll, OnSheet
    <3> QED
      BY <2>1, <3>3 DEF CopyInv
  <2>4. CASE UNCHANGED vars
    BY <2>1, <2>4 DEF CopyInv, CopiesAll, OnSheet, vars, dbVars, testVars, examVars
  <2> QED
    BY <2>2, <2>3, <2>4
<1>3. CopyInv => CreateOkMeansFullSheet
  <2> SUFFICES ASSUME CopyInv, NEW w \in Workers, job[w].pc = "done", job[w].code = 200,
                      job[w].req.op = "create"
               PROVE  \A l \in LinkIds :
                         links[l] # Nil /\ links[l].test = job[w].req.test
                         => OnSheet(job[w].attempt, l)
    BY DEF CreateOkMeansFullSheet, OnSheet
  <2>1. job[w].req # Nil
    BY JobFacts DEF CopyInv, SheetInv, DrainInv, JobsInv
  <2> QED
    BY <2>1 DEF CopyInv, CopiesAll
<1> QED
  BY <1>1, <1>2, <1>3, PTL DEF MortalSpec

(* An acknowledged create has copied every question of the test to the     *)
(* sheet, in the linked version, while questions may be unlinked and other *)
(* calls fail (AttemptRestController.cpp:40-52).  One that is linked after *)
(* the loop's query is of course missing: no add_quest is sent here.       *)
THEOREM FullSheets == 
    ASSUME NoLinking PROVE Spec => []CreateOkMeansFullSheet
  BY MortalFullSheets, SpecIsMortal, PTL

-----------------------------------------------------------------------------
(* One request of each user at a time.  Then what a handler has read of an *)
(* attempt, or counted on its sheet, is still so when it uses it.          *)

OneRequestEach ==
    \A v, w \in Workers : v # w /\ job[v].req # Nil /\ job[w].req # Nil
                         => job[v].req.subject # job[w].req.subject

UpToDate(w) ==
    LET r == job[w].req
        p == job[w].pc
    IN  r # Nil =>
        /\ r.op \in {"set", "finish"} =>
              /\ p \in {"auth", "tcheck", "write", "complete"}
                 /\ attempts[r.attempt].user = r.subject
                 => job[w].completed = attempts[r.attempt].completed
              /\ p \in {"grade", "mark"} => attempts[r.attempt].mark = NoMark
              /\ p = "mark" => job[w].mark = Score(answers[r.attempt])
        /\ r.op = "create" =>
              /\ p = "insert" => RowsOf(r.user, r.test) = {}
              /\ p \in {"sheet", "answers"} => ~attempts[job[w].attempt].completed

Settled(a) ==
    attempts[a] # Nil =>
        /\ ~attempts[a].completed => attempts[a].mark = NoMark
        /\ attempts[a].mark # NoMark => attempts[a].mark = Score(answers[a])
        /\ \A b \in AttemptIds :
              attempts[b] # Nil /\ attempts[b].user = attempts[a].user
              /\ attempts[b].test = attempts[a].test => a = b

SerialInv ==
    /\ SheetInv /\ OneRequestEach
    /\ \A w \in Workers : UpToDate(w)
    /\ \A a \in AttemptIds : Settled(a)

LEMMA NextOneRequestEach ==
    ASSUME SerialInv, ~Pipelined, [MortalNext]_vars PROVE OneRequestEach'
<1>a. TypeOK /\ JobsInv /\ OneRequestEach
  BY DEF SerialInv, SheetInv, DrainInv, JobsInv, TypeInv
<1>1. ASSUME NEW w \in Workers, Receive(w) PROVE OneRequestEach'
  <2>1. PICK r \in Requests :
           /\ \A v \in Workers : job[v].req # Nil => job[v].req.subject # r.subject
           /\ job' = [job EXCEPT ![w] = [IdleJob EXCEPT !.pc = Entry(r), !.req = r]]
    BY <1>1 DEF Receive
  <2>2. job'[w].req = r /\ \A v \in Workers : v # w => job'[v] = job[v]
    BY <1>a, <2>1 DEF TypeOK, IdleJob
  <2> QED
    BY <1>a, <2>1, <2>2 DEF OneRequestEach
<1>2. ASSUME NEW w \in Workers, Step(w) \/ Abort(w) PROVE OneRequestEach'
  <2>1. Moves(w)
    BY <1>a, <1>2, StepsEffect, ReplyMoves DEF StepEffect, Abort, JobsInv, Codes
  <2> QED
    BY <1>a, <2>1 DEF Moves, OneRequestEach
<1>3. ASSUME NEW w \in Workers, Respond(w) PROVE OneRequestEach'
  <2>1. job'[w].req = Nil /\ \A v \in Workers : v # w => job'[v] = job[v]
    BY <1>a, <1>3 DEF Respond, TypeOK, IdleJob
  <2> QED
    BY <1>a, <2>1 DEF OneRequestEach
<1>4. CASE Stop
  BY <1>4 DEF Stop, IdleJob, OneRequestEach
<1>5. CASE UNCHANGED vars
  BY <1>a, <1>5 DEF vars, OneRequestEach
<1> QED
  BY <1>1, <1>2, <1>3, <1>4, <1>5, MortalCases

\* The threads of other users work on other attempts.
LEMMA OthersUpToDate ==
    ASSUME SerialInv, NEW w \in Workers, Step(w), NEW v \in Workers, v # w
    PROVE  UpToDate(v)'
<1> DEFINE r == job[v].req
<1>a. /\ JobsInv /\ DrainInv /\ Moves(w) /\ Advanced /\ WritesOwn(w) /\ job[w].req # Nil
      /\ UpToDate(v) /\ JobWellFormed(v) /\ JobSafe(v) /\ InOrder(v) /\ job[v] \in Job
      /\ job'[v] = job[v]
  BY StepFacts, StepWritesOwn, JobFacts DEF SerialInv, SheetInv, DrainInv, JobsInv, Guarded, Moves
<1> SUFFICES ASSUME r # Nil PROVE UpToDate(v)'
  BY <1>a DEF UpToDate
<1>b. r \in Request /\ r.subject # job[w].req.subject
  BY <1>a, JobFacts DEF SerialInv, OneRequestEach, JobsInv
<1>1. ASSUME NEW a \in AttemptIds, attempts'[a] # Nil, attempts'[a].user = r.subject
      PROVE  attempts'[a] = attempts[a] /\ answers'[a] = answers[a]
  BY <1>1, <1>a, <1>b DEF WritesOwn, Changed
<1>2. CASE r.op \in {"set", "finish"}
  <2>1. r.attempt \in AttemptIds
    BY <1>2, <1>b, RequestFields
  <2>2. job[v].pc \notin {"row", "done"} => attempts[r.attempt] # Nil
    BY <1>2, <1>a DEF JobWellFormed
  <2>3. job[v].pc \notin {"row", "done"} /\ attempts'[r.attempt].user = r.subject =>
           attempts'[r.attempt] = attempts[r.attempt] /\ answers'[r.attempt] = answers[r.attempt]
    BY <1>1, <1>a, <2>1, <2>2 DEF Advanced, Advances
  <2>4. job[v].pc \in {"grade", "mark"} => attempts'[r.attempt].user = r.subject
    BY <1>2, <1>a, <2>1, <2>2 DEF JobSafe, ActsForOwner, Advanced, Advances
  <2> QED
    BY <1>2, <1>a, <2>3, <2>4 DEF UpToDate
<1>3. CASE r.op = "create"
  <2>1. job[v].pc = "insert" => RowsOf(r.user, r.test)' = {}
    <3> SUFFICES ASSUME job[v].pc = "insert", NEW a \in AttemptIds, attempts'[a] # Nil,
                        attempts'[a].user = r.user, attempts'[a].test = r.test
                 PROVE  FALSE
      BY <1>a DEF RowsOf, Rows
    <3>1. r.user = r.subject /\ RowsOf(r.user, r.test) = {}
      BY <1>3, <1>a DEF JobSafe, ActsForOwner, UpToDate
    <3>2. attempts'[a] = attempts[a]
      BY <1>1, <3>1
    <3> QED
      BY <3>1, <3>2 DEF RowsOf, Rows
  <2>2. Filling(v) => ~attempts'[job[v].attempt].completed
    <3> SUFFICES ASSUME Filling(v) PROVE ~attempts'[job[v].attempt].completed
      OBVIOUS
    <3>1. job[v].attempt \in AttemptIds /\ attempts[job[v].attempt] # Nil
      BY <1>a, FillingAttempt
    <3>2. attempts[job[v].attempt].user = r.subject /\ ~attempts[job[v].attempt].completed
      BY <1>3, <1>a DEF JobSafe, ActsForOwner, UpToDate, Filling
    <3> QED
      BY <1>1, <1>a, <3>1, <3>2 DEF Advanced, Advances
  <2> QED
    BY <1>3, <1>a, <2>1, <2>2 DEF UpToDate, Filling
<1> QED
  BY <1>2, <1>3, <1>a DEF UpToDate

-----------------------------------------------------------------------------
(* The steps that write, and what they do to the examination of Exam.      *)

\* Every attempt stays settled when its own row and sheet are as before, and
\* the rows of others are not new.
LEMMA SameStaysSettled ==
    ASSUME SerialInv, NEW a \in AttemptIds, answers'[a] = answers[a], attempts'[a] = attempts[a],
           \A b \in AttemptIds :
              attempts'[b] # Nil => /\ attempts[b] # Nil
                                   /\ attempts'[b].user = attempts[b].user
                                   /\ attempts'[b].test = attempts[b].test
    PROVE  Settled(a)'
  BY DEF SerialInv, Settled

StateOf == [a \in AttemptIds |-> Lifecycle(a)]
PersonOf == [a \in AttemptIds |-> IF attempts[a] = Nil THEN Nil
                                  ELSE <<attempts[a].user, attempts[a].test>>]
MarkOf == [a \in AttemptIds |-> IF attempts[a] = Nil THEN NoMark ELSE attempts[a].mark]

ExamStep == E!Next \/ UNCHANGED <<StateOf, PersonOf, answers, MarkOf>>

LEMMA SameExam ==
    ASSUME UNCHANGED examVars PROVE ExamStep
  BY DEF ExamStep, examVars, StateOf, PersonOf, MarkOf, Lifecycle

LEMMA InsertOpens ==
    ASSUME SerialInv, NEW w \in Workers, CreateInsert(w)
    PROVE  UpToDate(w)' /\ (\A a \in AttemptIds : Settled(a)') /\ ExamStep
<1> DEFINE r == job[w].req
<1>a. /\ TypeOK /\ job[w] \in Job /\ answers' = answers /\ UpToDate(w) /\ JobSafe(w)
      /\ job[w].pc = "insert" /\ r.op = "create" /\ r \in Request /\ r # Nil
  BY JobFacts DEF SerialInv, SheetInv, DrainInv, JobsInv, CreateInsert, At
<1>b. r.user \in Users /\ r.test \in Tests /\ RowsOf(r.user, r.test) = {}
  BY <1>a, RequestFields DEF UpToDate
<1> DEFINE row == [user |-> r.user, test |-> r.test, completed |-> FALSE, mark |-> NoMark]
<1>1. PICK a \in AttemptIds :
         /\ attempts[a] = Nil
         /\ attempts' = [attempts EXCEPT ![a] = row]
         /\ job' = [job EXCEPT ![w].pc = "sheet", ![w].attempt = a]
  BY DEF CreateInsert
<1>2. row # Nil
  <2>1. row \in AttemptRow
    BY <1>b DEF AttemptRow
  <2> QED
    BY <2>1, ConstantsAssumption
<1>3. attempts'[a] = row /\ \A b \in AttemptIds : b # a => attempts'[b] = attempts[b]
  BY <1>a, <1>1 DEF TypeOK, TablesTypeOK
<1>4. UpToDate(w)'
  <2>1. job'[w].pc = "sheet" /\ job'[w].attempt = a /\ job'[w].req = r
    BY <1>a, <1>1 DEF TypeOK, Job
  <2> QED
    BY <1>a, <1>3, <2>1 DEF UpToDate
<1>5. \A b \in AttemptIds : attempts[b] # Nil => attempts[b].user # r.user \/ attempts[b].test # r.test
  BY <1>b DEF RowsOf, Rows
<1>6. ASSUME NEW b \in AttemptIds PROVE Settled(b)'
  <2>1. Settled(b)
    BY DEF SerialInv
  <2> QED
    BY <1>a, <1>1, <1>3, <1>5, <2>1 DEF Settled
<1>7. E!Open(a)
  <2>1. StateOf[a] = "absent"
    BY <1>1 DEF StateOf, Lifecycle
  <2>2. \A b \in AttemptIds : PersonOf[b] # <<r.user, r.test>>
    BY <1>b, <1>5, ConstantsAssumption DEF PersonOf
  <2>3. PersonOf' = [PersonOf EXCEPT ![a] = <<r.user, r.test>>]
    <3>1. \A b \in AttemptIds :
             PersonOf'[b] = IF b = a THEN <<r.user, r.test>> ELSE PersonOf[b]
      BY <1>2, <1>3 DEF PersonOf
    <3> QED
      BY <3>1 DEF PersonOf
  <2>4. StateOf' = [StateOf EXCEPT ![a] = "open"]
    <3>1. \A b \in AttemptIds : StateOf'[b] = IF b = a THEN "open" ELSE StateOf[b]
      BY <1>2, <1>3 DEF StateOf, Lifecycle
    <3> QED
      BY <3>1 DEF StateOf
  <2>5. MarkOf' = MarkOf
    BY <1>1, <1>2, <1>3 DEF MarkOf
  <2> QED
    BY <1>a, <1>b, <2>1, <2>2, <2>3, <2>4, <2>5 DEF E!Open, StateOf, PersonOf, MarkOf
<1> QED
  BY <1>4, <1>6, <1>7 DEF ExamStep, E!Next

\* What set and finish know of their attempt past the check of the caller.
LEMMA OwnAttempt ==
    ASSUME SerialInv, NEW w \in Workers,
           job[w].pc \in {"write", "complete", "grade", "mark"}
    PROVE  LET r == job[w].req
           IN  /\ TypeOK /\ JobsInv /\ job[w] \in Job /\ r # Nil /\ r \in Request
               /\ r.op \in {"set", "finish"} /\ r.attempt \in AttemptIds
               /\ attempts[r.attempt] # Nil /\ attempts[r.attempt] \in AttemptRow
               /\ job[w].pc \in {"write", "complete"} => ~attempts[r.attempt].completed
               /\ job[w].pc \in {"grade", "mark"} => /\ attempts[r.attempt].completed
                                                     /\ attempts[r.attempt].mark = NoMark
<1> DEFINE r == job[w].req
<1>a. /\ TypeOK /\ JobsInv /\ job[w] \in Job /\ r # Nil /\ r \in Request
      /\ InOrder(w) /\ JobSafe(w) /\ UpToDate(w) /\ JobWellFormed(w)
  BY JobFacts DEF SerialInv, SheetInv, DrainInv, JobsInv
<1>1. r.op \in {"set", "finish"} /\ (job[w].pc # "write" => r.op = "finish")
  BY <1>a DEF InOrder
<1>2. r.attempt \in AttemptIds /\ attempts[r.attempt] # Nil /\ attempts[r.attempt] \in AttemptRow
  BY <1>a, <1>1, RequestFields DEF JobWellFormed, TypeOK, TablesTypeOK
<1>3. attempts[r.attempt].user = r.subject
  BY <1>a, <1>1 DEF JobSafe, ActsForOwner
<1>4. job[w].pc \in {"write", "complete"} => ~attempts[r.attempt].completed
  BY <1>a, <1>1, <1>3 DEF InOrder, UpToDate
<1>5. job[w].pc \in {"grade", "mark"} => attempts[r.attempt].completed
                                         /\ attempts[r.attempt].mark = NoMark
  BY <1>a, <1>1 DEF JobSafe, FinishInOrder, UpToDate
<1> QED
  BY <1>a, <1>1, <1>2, <1>4, <1>5

LEMMA InsertAnswerHandsOut ==
    ASSUME SerialInv, NEW w \in Workers, CreateInsertAnswer(w)
    PROVE  UpToDate(w)' /\ (\A a \in AttemptIds : Settled(a)') /\ ExamStep
<1> DEFINE r == job[w].req
           a == job[w].attempt
<1>a. /\ TypeOK /\ job[w] \in Job /\ attempts' = attempts /\ UpToDate(w)
      /\ job[w].pc = "answers" /\ r.op = "create" /\ r # Nil /\ SheetInv
  BY JobFacts DEF SerialInv, SheetInv, DrainInv, JobsInv, CreateInsertAnswer, At
<1>b. a \in AttemptIds /\ attempts[a] # Nil /\ ~attempts[a].completed
  BY <1>a, FillingAttempt DEF SheetInv, Filling, UpToDate
<1>1. PICK k \in LinkIds :
         /\ job[w].todo[k] # Nil
         /\ answers' = [answers EXCEPT ![a][k] =
               [quest |-> job[w].todo[k].quest,
                version |-> job[w].todo[k].version, answer |-> NoAnswer]]
         /\ job' = [job EXCEPT ![w].todo[k] = Nil]
  BY DEF CreateInsertAnswer
<1>2. answers[a][k] = Nil /\ job[w].todo[k] \in LinkRow
  BY <1>a, <1>1 DEF SheetInv, FillsOwnSheet, Job
<1>3. UpToDate(w)'
  <2>1. job'[w].pc = "answers" /\ job'[w].attempt = a /\ job'[w].req = r
    BY <1>a, <1>1 DEF TypeOK, Job
  <2> QED
    BY <1>a, <1>b, <2>1 DEF UpToDate
<1>4. ASSUME NEW b \in AttemptIds PROVE Settled(b)'
  <2>1. Settled(b)
    BY DEF SerialInv
  <2>2. b # a => answers'[b] = answers[b]
    BY <1>a, <1>1 DEF TypeOK, TablesTypeOK
  <2> QED
    BY <1>a, <1>b, <2>1, <2>2 DEF Settled
<1>5. E!HandOut(a)
  <2>1. StateOf[a] = "open"
    BY <1>b DEF StateOf, Lifecycle
  <2>2. job[w].todo[k].quest \in Quests /\ job[w].todo[k].version \in Versions
    BY <1>2 DEF LinkRow
  <2>3. UNCHANGED <<StateOf, PersonOf, MarkOf>>
    BY <1>a DEF StateOf, PersonOf, MarkOf, Lifecycle
  <2> QED
    BY <1>1, <1>2, <2>1, <2>2, <2>3 DEF E!HandOut, StateOf, PersonOf, MarkOf
<1> QED
  BY <1>b, <1>3, <1>4, <1>5 DEF ExamStep, E!Next

LEMMA WriteAnswers ==
    ASSUME SerialInv, NEW w \in Workers, SetWrite(w)
    PROVE  UpToDate(w)' /\ (\A a \in AttemptIds : Settled(a)') /\ ExamStep
<1> DEFINE r == job[w].req
           a == r.attempt
<1>a. /\ job[w].pc = "write" /\ r.op = "set" /\ attempts' = attempts
  BY DEF SetWrite, At
<1>b. /\ TypeOK /\ a \in AttemptIds /\ attempts[a] # Nil /\ ~attempts[a].completed
      /\ r \in Request
  BY <1>a, OwnAttempt
<1>1. job'[w].pc = "done" /\ job'[w].req = r
  BY <1>b, SetCodesType, ReplyJob DEF SetWrite
<1>2. UpToDate(w)'
  BY <1>a, <1>1 DEF UpToDate
<1>3. ASSUME NEW b \in AttemptIds PROVE Settled(b)'
  <2>1. Settled(b)
    BY DEF SerialInv
  <2>2. b # a => answers'[b] = answers[b]
    BY AnsweredRows DEF SerialInv
  <2> QED
    BY <1>a, <1>b, <2>1, <2>2 DEF Settled
<1>4. CASE r.quest \notin Phantoms
  <2>1. StateOf[a] = "open"
    BY <1>b DEF StateOf, Lifecycle
  <2>2. /\ r.quest \in Quests /\ r.answer \in Answers
        /\ ActualVersion[r.quest] \in Versions
    BY <1>4, <1>a, <1>b, RequestFields, ConstantsAssumption DEF Phantoms
  <2>3. UNCHANGED <<StateOf, PersonOf, MarkOf>>
    BY <1>a DEF StateOf, PersonOf, MarkOf, Lifecycle
  <2>4. answers' = [answers EXCEPT ![a] = [l \in LinkIds |->
           IF @[l] # Nil /\ @[l].quest = r.quest /\ @[l].version = ActualVersion[r.quest]
           THEN [@[l] EXCEPT !.answer = r.answer] ELSE @[l]]]
    BY DEF SetWrite, Matches
  <2>5. \E q \in Quests, v \in Versions, n \in Answers :
           answers' = [answers EXCEPT ![a] = [l \in LinkIds |->
              IF @[l] # Nil /\ @[l].quest = q /\ @[l].version = v
              THEN [@[l] EXCEPT !.answer = n] ELSE @[l]]]
    BY <2>2, <2>4
  <2>6. E!Answer(a)
    BY <2>1, <2>3, <2>5 DEF E!Answer, StateOf, PersonOf, MarkOf
  <2> QED
    BY <1>b, <1>2, <1>3, <2>6 DEF ExamStep, E!Next
<1>5. CASE r.quest \in Phantoms
  <2>1. \A l \in LinkIds : ~Matches(answers[a][l], r.quest)
    BY <1>5, <1>b, ConstantsAssumption
       DEF Matches, Phantoms, TypeOK, TablesTypeOK, AnswerRow
  <2>2. answers' = answers
    <3>1. answers'[a] = answers[a]
      BY <1>b, <2>1, AnsweredRows DEF SerialInv, TypeOK, TablesTypeOK
    <3>2. \A b \in AttemptIds : answers'[b] = answers[b]
      BY <3>1, AnsweredRows DEF SerialInv
    <3>3. answers' = [b \in AttemptIds |-> answers'[b]]
      BY <1>b DEF SetWrite, TypeOK, TablesTypeOK
    <3> QED
      BY <1>b, <3>2, <3>3 DEF TypeOK, TablesTypeOK
  <2> QED
    BY <1>a, <1>2, <1>3, <2>2, SameExam DEF examVars
<1> QED
  BY <1>4, <1>5

LEMMA CompleteCloses ==
    ASSUME SerialInv, NEW w \in Workers, FinishComplete(w)
    PROVE  UpToDate(w)' /\ (\A a \in AttemptIds : Settled(a)') /\ ExamStep
<1> DEFINE r == job[w].req
           a == r.attempt
<1>a. job[w].pc = "complete" /\ r.op = "finish" /\ answers' = answers
  BY DEF FinishComplete, At
<1>b. /\ TypeOK /\ a \in AttemptIds /\ attempts[a] # Nil /\ attempts[a] \in AttemptRow
      /\ ~attempts[a].completed /\ r # Nil
  BY <1>a, OwnAttempt
<1>c. attempts[a].mark = NoMark
  BY <1>b DEF SerialInv, Settled
<1>1. attempts'[a] = [attempts[a] EXCEPT !.completed = TRUE]
      /\ \A b \in AttemptIds : b # a => attempts'[b] = attempts[b]
  BY <1>b DEF FinishComplete, TypeOK, TablesTypeOK
<1>2. /\ attempts'[a].completed /\ attempts'[a].mark = NoMark /\ attempts'[a] # Nil
      /\ attempts'[a].user = attempts[a].user /\ attempts'[a].test = attempts[a].test
  <2>1. attempts'[a] \in AttemptRow
    BY <1>b, <1>1 DEF AttemptRow
  <2> QED
    BY <1>b, <1>c, <1>1, <2>1, ConstantsAssumption DEF AttemptRow
<1>3. UpToDate(w)'
  <2>1. job'[w].pc = "grade" /\ job'[w].req = r
    BY <1>b, GotoJob DEF FinishComplete, Pcs, AttemptPcs
  <2> QED
    BY <1>a, <1>2, <2>1 DEF UpToDate
<1>4. ASSUME NEW b \in AttemptIds PROVE Settled(b)'
  <2>1. Settled(b)
    BY DEF SerialInv
  <2>2. \A c \in AttemptIds :
           attempts'[c] # Nil => /\ attempts[c] # Nil
                                /\ attempts'[c].user = attempts[c].user
                                /\ attempts'[c].test = attempts[c].test
    BY <1>b, <1>1, <1>2
  <2>3. CASE b # a
    BY <1>a, <1>1, <2>2, <2>3, SameStaysSettled
  <2>4. CASE b = a
    BY <1>a, <1>b, <1>2, <2>1, <2>2, <2>4 DEF Settled
  <2> QED
    BY <2>3, <2>4
<1>5. E!Close(a)
  <2>1. StateOf[a] = "open"
    BY <1>b DEF StateOf, Lifecycle
  <2>2. StateOf' = [StateOf EXCEPT ![a] = "closed"]
    <3>1. \A b \in AttemptIds : StateOf'[b] = IF b = a THEN "closed" ELSE StateOf[b]
      BY <1>1, <1>2 DEF StateOf, Lifecycle
    <3> QED
      BY <3>1 DEF StateOf
  <2>3. PersonOf' = PersonOf /\ MarkOf' = MarkOf
    BY <1>b, <1>c, <1>1, <1>2 DEF PersonOf, MarkOf
  <2> QED
    BY <1>a, <2>1, <2>2, <2>3 DEF E!Close, StateOf, PersonOf, MarkOf
<1> QED
  BY <1>b, <1>3, <1>4, <1>5 DEF ExamStep, E!Next

\* Exam has a Cardinality of its own, which is this one.
LEMMA SameCardinality == \A S : E!Cardinality(S) = Cardinality(S)
  BY DEF E!Cardinality, Cardinality

LEMMA MarkPublishes ==
    ASSUME SerialInv, NEW w \in Workers, FinishMark(w)
    PROVE  UpToDate(w)' /\ (\A a \in AttemptIds : Settled(a)') /\ ExamStep
<1> DEFINE r == job[w].req
           a == r.attempt
<1>a. job[w].pc = "mark" /\ r.op = "finish" /\ answers' = answers
  BY DEF FinishMark, At
<1>b. /\ TypeOK /\ a \in AttemptIds /\ attempts[a] # Nil /\ attempts[a] \in AttemptRow
      /\ attempts[a].completed /\ attempts[a].mark = NoMark /\ r # Nil /\ job[w] \in Job
  BY <1>a, OwnAttempt
<1>c. /\ job[w].mark = Score(answers[a]) /\ job[w].mark \in Marks /\ job[w].mark # NoMark
  <2>1. UpToDate(w)
    BY DEF SerialInv
  <2> QED
    BY <1>a, <1>b, <2>1, MarksType DEF UpToDate, Job, Marks, NoMark
<1>1. attempts'[a] = [attempts[a] EXCEPT !.mark = job[w].mark]
      /\ \A b \in AttemptIds : b # a => attempts'[b] = attempts[b]
  BY <1>b DEF FinishMark, TypeOK, TablesTypeOK
<1>2. /\ attempts'[a].completed /\ attempts'[a].mark = job[w].mark /\ attempts'[a] # Nil
      /\ attempts'[a].user = attempts[a].user /\ attempts'[a].test = attempts[a].test
  <2>1. attempts'[a] \in AttemptRow
    BY <1>b, <1>c, <1>1 DEF AttemptRow
  <2> QED
    BY <1>b, <1>1, <2>1, ConstantsAssumption DEF AttemptRow
<1>3. UpToDate(w)'
  <2>1. job'[w].pc = "done" /\ job'[w].req = r
    BY <1>b, CommitCodesType, ReplyJob DEF FinishMark
  <2> QED
    BY <1>a, <2>1 DEF UpToDate
<1>4. ASSUME NEW b \in AttemptIds PROVE Settled(b)'
  <2>1. Settled(b)
    BY DEF SerialInv
  <2>2. \A c \in AttemptIds :
           attempts'[c] # Nil => /\ attempts[c] # Nil
                                /\ attempts'[c].user = attempts[c].user
                                /\ attempts'[c].test = attempts[c].test
    BY <1>b, <1>1, <1>2
  <2>3. CASE b # a
    BY <1>a, <1>1, <2>2, <2>3, SameStaysSettled
  <2>4. CASE b = a
    BY <1>a, <1>b, <1>c, <1>2, <2>1, <2>2, <2>4 DEF Settled
  <2> QED
    BY <2>3, <2>4
<1>5. E!Publish(a)
  <2>1. StateOf[a] = "closed"
    BY <1>b DEF StateOf, Lifecycle
  <2>2. StateOf' = [StateOf EXCEPT ![a] = "marked"]
    <3>1. \A b \in AttemptIds : StateOf'[b] = IF b = a THEN "marked" ELSE StateOf[b]
      BY <1>c, <1>1, <1>2 DEF StateOf, Lifecycle
    <3> QED
      BY <3>1 DEF StateOf
  <2>3. PersonOf' = PersonOf
    BY <1>b, <1>1, <1>2 DEF PersonOf
  <2>4. MarkOf' = [MarkOf EXCEPT ![a] = E!Cardinality(E!CorrectRows(answers[a]))]
    <3>1. job[w].mark = E!Cardinality(E!CorrectRows(answers[a]))
      BY <1>c, SameCardinality DEF Score, Correct, E!CorrectRows
    <3>2. \A b \in AttemptIds : MarkOf'[b] = IF b = a THEN job[w].mark ELSE MarkOf[b]
      BY <1>1, <1>2 DEF MarkOf
    <3> QED
      BY <3>1, <3>2 DEF MarkOf
  <2> QED
    <3>1. UNCHANGED <<PersonOf, answers>>
      BY <1>a, <2>3
    <3> QED
      BY <2>1, <2>2, <2>4, <3>1, Zenon DEF E!Publish, StateOf, PersonOf, MarkOf
<1>6. E!Next
  BY <1>b, <1>5, Zenon DEF E!Next, E!Publish, E!CorrectRows, E!Cardinality
<1> QED
  BY <1>3, <1>4, <1>6 DEF ExamStep

\* The steps that write nothing read what is so, and are no step of Exam.
LEMMA SameSettled ==
    ASSUME SerialInv, UNCHANGED examVars
    PROVE  (\A a \in AttemptIds : Settled(a)') /\ ExamStep
<1>1. \A a \in AttemptIds : Settled(a)'
  BY DEF SerialInv, Settled, examVars
<1> QED
  BY <1>1, SameExam

LEMMA ReadsUpToDate ==
    ASSUME SerialInv, NEW w \in Workers, Step(w),
           CreateReadLinks(w) \/ FinishGrade(w) \/ Resting(w)
    PROVE  UpToDate(w)' /\ UNCHANGED examVars
<1> DEFINE r == job[w].req
<1>a. /\ TypeOK /\ DrainInv /\ job[w] \in Job /\ UpToDate(w) /\ Guarded(w) /\ r # Nil
      /\ job'[w].req = r /\ JobSafe(w)'
  BY StepFacts, StepsEffect DEF SerialInv, SheetInv, StepEffect, Guarded, Moves
<1>1. CASE CreateReadLinks(w)
  <2>1. /\ job'[w].pc = "answers" /\ job'[w].attempt = job[w].attempt /\ UNCHANGED examVars
        /\ job[w].pc = "sheet" /\ r.op = "create"
    BY <1>1, <1>a DEF CreateReadLinks, At, TypeOK, Job, dbVars
  <2> QED
    BY <1>a, <2>1 DEF UpToDate, examVars
<1>2. CASE FinishGrade(w)
  <2>1. /\ job'[w].pc = "mark" /\ job'[w].mark = Score(answers[r.attempt])
        /\ UNCHANGED examVars /\ job[w].pc = "grade" /\ r.op = "finish"
    BY <1>2, <1>a DEF FinishGrade, At, TypeOK, Job, dbVars
  <2> QED
    BY <1>a, <2>1 DEF UpToDate, examVars
<1>3. CASE Resting(w)
  <2>1. UNCHANGED examVars /\ attempts' = attempts
    BY <1>3 DEF Resting, examVars
  <2>2. CASE r.op \in {"set", "finish"}
    <3>1. CASE job'[w].pc = "auth"
      BY <1>3, <1>a, <2>1, <2>2, <3>1 DEF Guarded, Access, Sitting, UpToDate
    <3>2. CASE job'[w].pc \in {"tcheck", "write", "complete"}
      <4>1. job[w].pc \in {"auth", "tcheck"} /\ job'[w].completed = job[w].completed
        BY <1>3, <1>a, <2>2, <3>2 DEF Resting, Guarded, Sitting
      <4> QED
        BY <1>a, <2>1, <2>2, <3>2, <4>1 DEF UpToDate
    <3> QED
      BY <1>3, <1>a, <2>1, <2>2, <3>1, <3>2 DEF Resting, UpToDate
  <2>3. CASE r.op \notin {"set", "finish"}
    BY <1>3, <1>a, <2>1, <2>3 DEF Resting, UpToDate, RowsOf, Rows
  <2> QED
    BY <2>1, <2>2, <2>3
<1> QED
  BY <1>1, <1>2, <1>3

LEMMA SerialStep ==
    ASSUME SerialInv, NEW w \in Workers, Step(w)
    PROVE  UpToDate(w)' /\ (\A a \in AttemptIds : Settled(a)') /\ ExamStep
  BY SheetCases, InsertOpens, InsertAnswerHandsOut, WriteAnswers, CompleteCloses,
     MarkPublishes, ReadsUpToDate, SameSettled
     DEF EditsAttempt, SerialInv, SheetInv, DrainInv

LEMMA CalmUpToDate ==
    ASSUME SerialInv, Calm PROVE \A v \in Workers : UpToDate(v)'
<1>1. attempts' = attempts /\ answers' = answers /\ UNCHANGED examVars
  BY DEF Calm, dbVars, examVars
<1> SUFFICES ASSUME NEW v \in Workers PROVE UpToDate(v)'
  OBVIOUS
<1>2. CASE job'[v] = job[v]
  BY <1>1, <1>2 DEF SerialInv, UpToDate, RowsOf, Rows
<1>3. CASE Fresh(v)
  BY <1>3 DEF Fresh, UpToDate
<1> QED
  BY <1>2, <1>3 DEF Calm

LEMMA NextSerialInv ==
    ASSUME SerialInv, ~Pipelined, [MortalNext]_vars PROVE SerialInv' /\ ExamStep
<1>1. SheetInv' /\ OneRequestEach'
  BY NextSheetInv, NextOneRequestEach DEF SerialInv
<1>2. CASE Calm
  BY <1>1, <1>2, CalmUpToDate, SameSettled DEF SerialInv, Calm, dbVars
<1>3. ASSUME NEW w \in Workers, Step(w) PROVE SerialInv' /\ ExamStep
  BY <1>1, <1>3, SerialStep, OthersUpToDate DEF SerialInv
<1> QED
  BY <1>1, <1>2, <1>3, NextCases DEF SerialInv, SheetInv, DrainInv

LEMMA InitSerialInv == Init => SerialInv
<1> SUFFICES ASSUME Init PROVE SerialInv
  OBVIOUS
<1>1. \A w \in Workers : job[w].req = Nil
  BY DEF Init, IdleJob
<1>2. \A a \in AttemptIds : attempts[a] = Nil
  BY DEF Init
<1> QED
  BY <1>1, <1>2, InitSheetInv DEF SerialInv, OneRequestEach, UpToDate, Settled

THEOREM SerialInvariant == ASSUME ~Pipelined PROVE MortalSpec => []SerialInv
<1>1. SerialInv /\ [MortalNext]_vars => SerialInv'
  BY NextSerialInv
<1> QED
  BY <1>1, InitSerialInv, PTL DEF MortalSpec

LEMMA MortalSingleAttempts == ASSUME ~Pipelined PROVE MortalSpec => []SingleAttempt
<1>1. SerialInv => SingleAttempt
  <2> SUFFICES ASSUME SerialInv, NEW u \in Users, NEW t \in Tests
               PROVE  Cardinality(RowsOf(u, t)) <= 1
    BY DEF SingleAttempt
  <2>1. \A a, b \in RowsOf(u, t) : a = b
    BY DEF SerialInv, Settled, RowsOf, Rows
  <2>2. CASE RowsOf(u, t) = {}
    BY <2>2, FS_EmptySet
  <2>3. CASE RowsOf(u, t) # {}
    <3>1. PICK a : RowsOf(u, t) = {a}
      BY <2>1, <2>3
    <3> QED
      BY <3>1, FS_Singleton
  <2> QED
    BY <2>2, <2>3
<1> QED
  BY <1>1, SerialInvariant, PTL

(* A student who waits for each answer has one attempt at a test, although *)
(* create looks for one and inserts one in two transactions                *)
(* (AttemptRestController.cpp:26-36), and others do so at the same time.   *)
THEOREM SingleAttempts == ASSUME ~Pipelined PROVE Spec => []SingleAttempt
  BY MortalSingleAttempts, SpecIsMortal, PTL

LEMMA MortalMarksMatch == ASSUME ~Pipelined PROVE MortalSpec => []MarkMatchesAnswers
<1>1. SerialInv => MarkMatchesAnswers
  BY DEF SerialInv, Settled, MarkMatchesAnswers
<1> QED
  BY <1>1, SerialInvariant, PTL

(* Then also the mark is the number of correct answers on the sheet, for   *)
(* good: set accepts none once finish has completed the attempt            *)
(* (AttemptRestController.cpp:89, 132-160).                                *)
THEOREM MarksMatch == ASSUME ~Pipelined PROVE Spec => []MarkMatchesAnswers
  BY MortalMarksMatch, SpecIsMortal, PTL

LEMMA MortalExamImplemented == ASSUME ~Pipelined PROVE MortalSpec => ImplementsExam
<1>1. Init => E!Init
  BY DEF Init, E!Init, Lifecycle, NoAnswers, NoMark
<1>2. SerialInv /\ [MortalNext]_vars => [E!Next]_(E!examVars)
  BY NextSerialInv DEF ExamStep, E!examVars, StateOf, PersonOf, MarkOf
<1> QED
  BY <1>1, <1>2, SerialInvariant, PTL DEF MortalSpec, ImplementsExam, E!Spec

(* The handlers, their failures, the restarts of the server, the teachers' *)
(* edits and the other users' requests in between, implement the atomic    *)
(* examination of module Exam.                                             *)
THEOREM ExamImplemented == ASSUME ~Pipelined PROVE Spec => ImplementsExam
  BY MortalExamImplemented, SpecIsMortal, PTL

=============================================================================
