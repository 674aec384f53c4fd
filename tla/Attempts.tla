------------------------------ MODULE Attempts ------------------------------
(***************************************************************************)
(* The handlers of AttemptRestController.cpp: a student opens an attempt   *)
(* at a test (create), answers its questions (set) and hands it in         *)
(* (finish).  Each action is one database step of a handler.               *)
(***************************************************************************)
EXTENDS AppDb

-----------------------------------------------------------------------------
(* Steps of this module with a plausible bug in them, put in the place of  *)
(* the right step to show that the properties notice; Next uses none.      *)

\* create that does not look at users.is_blocked.
CreateAuthIgnoringBlock(w) ==
    /\ At(w, "create", "auth")
    /\ Goto(w, "member")
    /\ UNCHANGED dbVars

\* create that does not look at users_courses.
CreateMemberUnchecked(w) ==
    /\ At(w, "create", "member")
    /\ IF job[w].req.user = job[w].req.subject THEN Goto(w, "tcheck") ELSE Reply(w, 403)
    /\ UNCHANGED dbVars

\* create that checks tests.is_active only.
CreateCheckActiveOnly(w) ==
    /\ At(w, "create", "tcheck")
    /\ IF tests[job[w].req.test].active THEN Goto(w, "dup") ELSE Reply(w, 403)
    /\ UNCHANGED dbVars

\* create that does not look for an attempt the student already has.
CreateWithoutDuplicateCheck(w) ==
    /\ At(w, "create", "dup")
    /\ Goto(w, "insert")
    /\ UNCHANGED dbVars

\* An answers row inserted without the default answer.
CreateInsertNullAnswer(w) ==
    /\ At(w, "create", "answers")
    /\ \E l \in LinkIds :
          /\ job[w].todo[l] # Nil
          /\ answers' = [answers EXCEPT ![job[w].attempt][l] =
                [quest |-> job[w].todo[l].quest,
                 version |-> job[w].todo[l].version, answer |-> Nil]]
          /\ job' = [job EXCEPT ![w].todo[l] = Nil]
    /\ UNCHANGED <<accessVars, testVars, attempts>>

\* A copy loop that never moves past a row.
CreateInsertAnswerAgain(w) ==
    /\ At(w, "create", "answers")
    /\ \E l \in LinkIds : job[w].todo[l] # Nil
    /\ job' = job
    /\ UNCHANGED dbVars

\* A copy loop left early.
CreateReplyEarly(w) ==
    /\ At(w, "create", "answers")
    /\ Reply(w, 200)
    /\ UNCHANGED dbVars

\* set and finish that do not compare the attempt's user with the caller.
AuthAnyCaller(w, op) ==
    /\ At(w, op, "auth")
    /\ \E code \in ValidateWithBlockHandle(job[w].req.subject, TRUE) :
          IF code = 200 THEN Goto(w, "tcheck") ELSE Reply(w, code)
    /\ UNCHANGED dbVars

\* set and finish that do not look at is_completed.
CheckTestOnly(w, op, next) ==
    /\ At(w, op, "tcheck")
    /\ IF TestOpen(attempts[job[w].req.attempt].test)
       THEN Goto(w, next) ELSE Reply(w, 403)
    /\ UNCHANGED dbVars

\* An UPDATE of answers that does not name the version.
MatchesAnyVersion(row, q) == row # Nil /\ row.quest = q

\* finish that grades without completing the attempt.
FinishWithoutComplete(w) ==
    /\ At(w, "finish", "complete")
    /\ Goto(w, "grade")
    /\ UNCHANGED dbVars

\* A mark of 0 taken for an empty field and not saved.
FinishMarkIfPositive(w) ==
    /\ At(w, "finish", "mark")
    /\ attempts' = IF job[w].mark = 0 THEN attempts
                   ELSE [attempts EXCEPT ![job[w].req.attempt].mark = job[w].mark]
    /\ Reply(w, 200)
    /\ UNCHANGED <<accessVars, testVars, answers>>

-----------------------------------------------------------------------------
(* /api/attempts/create                                                    *)

CreateAuth(w) ==
    /\ At(w, "create", "auth")
    /\ \E code \in ValidateWithBlockHandle(job[w].req.subject, TRUE) :
          IF code = 200 THEN Goto(w, "member") ELSE Reply(w, 403)
    /\ UNCHANGED dbVars

CreateMember(w) ==
    /\ At(w, "create", "member")
    /\ LET r == job[w].req
       IN  \E subscriber \in MatchTestIdSubscriber(r.subject, r.test) :
              IF subscriber /\ r.user = r.subject
              THEN Goto(w, "tcheck") ELSE Reply(w, 403)
    /\ UNCHANGED dbVars

CreateCheckTest(w) ==
    /\ At(w, "create", "tcheck")
    /\ IF TestOpen(job[w].req.test) THEN Goto(w, "dup") ELSE Reply(w, 403)
    /\ UNCHANGED dbVars

CreateCheckDuplicate(w) ==
    /\ At(w, "create", "dup")
    /\ IF RowsOf(job[w].req.user, job[w].req.test) = {}
       THEN Goto(w, "insert") ELSE Reply(w, 403)
    /\ UNCHANGED dbVars

CreateInsert(w) ==
    /\ At(w, "create", "insert")
    /\ \E a \in AttemptIds :
          /\ attempts[a] = Nil
          /\ attempts' = [attempts EXCEPT ![a] =
                [user |-> job[w].req.user, test |-> job[w].req.test,
                 completed |-> FALSE, mark |-> NoMark]]
          /\ job' = [job EXCEPT ![w].pc = "sheet", ![w].attempt = a]
    /\ UNCHANGED <<accessVars, testVars, answers>>

CreateReadLinks(w) ==
    /\ At(w, "create", "sheet")
    /\ job' = [job EXCEPT ![w].pc = "answers",
                          ![w].todo = LinksOf(job[w].req.test)]
    /\ UNCHANGED dbVars

\* One INSERT per row read; the result has no specified order.
CreateInsertAnswer(w) ==
    /\ At(w, "create", "answers")
    /\ \E l \in LinkIds :
          /\ job[w].todo[l] # Nil
          /\ answers' = [answers EXCEPT ![job[w].attempt][l] =
                [quest |-> job[w].todo[l].quest,
                 version |-> job[w].todo[l].version, answer |-> NoAnswer]]
          /\ job' = [job EXCEPT ![w].todo[l] = Nil]
    /\ UNCHANGED <<accessVars, testVars, attempts>>

CreateReply(w) ==
    /\ At(w, "create", "answers")
    /\ job[w].todo = NoLinks
    /\ Reply(w, 200)
    /\ UNCHANGED dbVars

CreateStep(w) ==
    \/ CreateAuth(w) \/ CreateMember(w) \/ CreateCheckTest(w)
    \/ CreateCheckDuplicate(w) \/ CreateInsert(w) \/ CreateReadLinks(w)
    \/ CreateInsertAnswer(w) \/ CreateReply(w)

-----------------------------------------------------------------------------
(* What set and finish do before their own work: read the attempt's row    *)
(* (user_id and test_id never change, is_completed is a snapshot from here *)
(* on), check the caller, and check the test.                              *)

ReadAttempt(w, op, missing) ==
    /\ At(w, op, "row")
    /\ LET row == attempts[job[w].req.attempt]
       IN  IF row = Nil
           THEN Reply(w, missing)
           ELSE job' = [job EXCEPT ![w].pc = "auth", ![w].completed = row.completed]
    /\ UNCHANGED dbVars

\* A valid caller who is not the attempt's user is answered with the
\* validation's own status, 200, and nothing is done.
AuthAttempt(w, op) ==
    /\ At(w, op, "auth")
    /\ LET r == job[w].req
       IN  \E code \in ValidateWithBlockHandle(r.subject, TRUE) :
              IF code = 200 /\ attempts[r.attempt].user = r.subject
              THEN Goto(w, "tcheck") ELSE Reply(w, code)
    /\ UNCHANGED dbVars

CheckAttempt(w, op, next) ==
    /\ At(w, op, "tcheck")
    /\ IF TestOpen(attempts[job[w].req.attempt].test) /\ ~job[w].completed
       THEN Goto(w, next) ELSE Reply(w, 403)
    /\ UNCHANGED dbVars

-----------------------------------------------------------------------------
(* /api/attempts/set                                                       *)

\* The UPDATE's mask names the actual version of the question, so rows of
\* another version, and questions that are not on the sheet, match nothing.
Matches(row, q) == row # Nil /\ row.quest = q /\ row.version = ActualVersion[q]

\* Of a question that is not there set finds no version to name.
SetCodes(q) == IF q \in Phantoms THEN {500} ELSE CommitCodes

SetWrite(w) ==
    /\ At(w, "set", "write")
    /\ LET r == job[w].req
       IN  answers' = [answers EXCEPT ![r.attempt] =
              [l \in LinkIds |-> IF Matches(@[l], r.quest)
                                 THEN [@[l] EXCEPT !.answer = r.answer] ELSE @[l]]]
    /\ \E code \in SetCodes(job[w].req.quest) : Reply(w, code)
    /\ UNCHANGED <<accessVars, testVars, attempts>>

SetStep(w) ==
    \/ ReadAttempt(w, "set", 404) \/ AuthAttempt(w, "set")
    \/ CheckAttempt(w, "set", "write") \/ SetWrite(w)

-----------------------------------------------------------------------------
(* /api/attempts/finish                                                    *)

FinishComplete(w) ==
    /\ At(w, "finish", "complete")
    /\ attempts' = [attempts EXCEPT ![job[w].req.attempt].completed = TRUE]
    /\ Goto(w, "grade")
    /\ UNCHANGED <<accessVars, testVars, answers>>

Ungradable(sheet) == \E l \in LinkIds : sheet[l] # Nil /\ sheet[l].quest \in Phantoms

\* The answers are read once; correct_answer is the same whenever it is read.
FinishGrade(w) ==
    /\ At(w, "finish", "grade")
    /\ ~Ungradable(answers[job[w].req.attempt])
    /\ job' = [job EXCEPT ![w].pc = "mark",
                          ![w].mark = Score(answers[job[w].req.attempt])]
    /\ UNCHANGED dbVars

\* correct_answer is taken of [0], and a question that is not there has no row.
MissQuest(w) ==
    /\ job[w].pc = "grade"
    /\ Ungradable(answers[job[w].req.attempt])
    /\ Die

FinishMark(w) ==
    /\ At(w, "finish", "mark")
    /\ attempts' = [attempts EXCEPT ![job[w].req.attempt].mark = job[w].mark]
    /\ \E code \in CommitCodes : Reply(w, code)
    /\ UNCHANGED <<accessVars, testVars, answers>>

FinishStep(w) ==
    \/ ReadAttempt(w, "finish", 500) \/ AuthAttempt(w, "finish")
    \/ CheckAttempt(w, "finish", "complete")
    \/ FinishComplete(w) \/ FinishGrade(w) \/ FinishMark(w)

AttemptStep(w) == CreateStep(w) \/ SetStep(w) \/ FinishStep(w)
=============================================================================
