----------------------------- MODULE TestAdmin -----------------------------
(***************************************************************************)
(* The handlers with which teachers edit tests: add_quest and delete_quest *)
(* of TestRestController.cpp, set_test_status and delete_test of           *)
(* CourseRestController.cpp.                                               *)
(***************************************************************************)
EXTENDS AppDb

-----------------------------------------------------------------------------
(* Steps of this module with a plausible bug in them, put in the place of  *)
(* the right step to show that the properties notice; Next uses none.      *)

\* add_quest that does not look for attempts.
AddQuestUnchecked(w) ==
    /\ At(w, "add_quest", "vacant")
    /\ Goto(w, "link")
    /\ UNCHANGED dbVars

\* An unlink that also deletes the answers given to the question.
DeleteQuestCascading(w) ==
    /\ At(w, "delete_quest", "unlink")
    /\ LET r == job[w].req
           gone == {l \in LinkIds : links[l] # Nil /\ links[l].test = r.test
                                    /\ links[l].quest = r.quest}
       IN  /\ links' = [l \in LinkIds |-> IF l \in gone THEN Nil ELSE links[l]]
           /\ answers' = [a \in AttemptIds |->
                             [l \in LinkIds |-> IF l \in gone THEN Nil ELSE answers[a][l]]]
    /\ Reply(w, 200)
    /\ UNCHANGED <<accessVars, tests, attempts>>

-----------------------------------------------------------------------------
(* Each of the four looks up the course of its test once it has the        *)
(* validation's answer and before it uses it.                              *)
MissTest(w) ==
    /\ job[w].pc = "auth" /\ job[w].req \in Doomed
    /\ Die

-----------------------------------------------------------------------------
(* /api/tests/add_quest                                                    *)

AddQuestAuth(w) ==
    LET r == job[w].req
    IN  Authorize(w, "add_quest", "test:quest:add",
                  {c /\ q : c \in MatchCourseIdOwner(CourseOf[r.test]),
                            q \in MatchQuestIdOwner(r.quest, r.version, r.subject)},
                  "vacant")

AddQuestCheck(w) ==
    /\ At(w, "add_quest", "vacant")
    /\ IF Rows(job[w].req.test) = {} THEN Goto(w, "link") ELSE Reply(w, 403)
    /\ UNCHANGED dbVars

AddQuestLink(w) ==
    /\ At(w, "add_quest", "link")
    /\ LET r == job[w].req
       IN  \E l \in LinkIds :
              /\ links[l] = Nil
              /\ links' = [links EXCEPT ![l] = [test |-> r.test, quest |-> r.quest,
                                                version |-> r.version]]
    /\ \E code \in CommitCodes : Reply(w, code)
    /\ UNCHANGED <<accessVars, tests, examVars>>

-----------------------------------------------------------------------------
(* /api/tests/delete_quest: refused with 404 while the test has NO attempt *)

DeleteQuestAuth(w) ==
    Authorize(w, "delete_quest", "test:quest:del",
              MatchCourseIdOwner(CourseOf[job[w].req.test]), "taken")

DeleteQuestCheck(w) ==
    /\ At(w, "delete_quest", "taken")
    /\ IF Rows(job[w].req.test) = {} THEN Reply(w, 404) ELSE Goto(w, "unlink")
    /\ UNCHANGED dbVars

DeleteQuestUnlink(w) ==
    /\ At(w, "delete_quest", "unlink")
    /\ LET r == job[w].req
       IN  links' = [l \in LinkIds |->
              IF links[l] # Nil /\ links[l].test = r.test /\ links[l].quest = r.quest
              THEN Nil ELSE links[l]]
    /\ \E code \in CommitCodes : Reply(w, code)
    /\ UNCHANGED <<accessVars, tests, examVars>>

-----------------------------------------------------------------------------
(* /api/courses/set_test_status: the attempts are left alone, the code     *)
(* that would complete them follows an unconditional return.               *)

SetTestStatusAuth(w) ==
    Authorize(w, "set_test_status", "course:test:write",
              MatchCourseIdOwner(CourseOf[job[w].req.test]), "status")

SetTestStatusWrite(w) ==
    /\ At(w, "set_test_status", "status")
    /\ tests' = [tests EXCEPT ![job[w].req.test].active = job[w].req.status]
    /\ \E code \in CommitCodes : Reply(w, code)
    /\ UNCHANGED <<accessVars, links, examVars>>

(* /api/courses/delete_test                                                *)

DeleteTestAuth(w) ==
    Authorize(w, "delete_test", "course:test:del",
              MatchCourseIdOwner(CourseOf[job[w].req.test]), "retire")

DeleteTestWrite(w) ==
    /\ At(w, "delete_test", "retire")
    /\ tests' = [tests EXCEPT ![job[w].req.test].deleted = TRUE]
    /\ \E code \in CommitCodes : Reply(w, code)
    /\ UNCHANGED <<accessVars, links, examVars>>

TestAdminStep(w) ==
    \/ AddQuestAuth(w) \/ AddQuestCheck(w) \/ AddQuestLink(w)
    \/ DeleteQuestAuth(w) \/ DeleteQuestCheck(w) \/ DeleteQuestUnlink(w)
    \/ SetTestStatusAuth(w) \/ SetTestStatusWrite(w)
    \/ DeleteTestAuth(w) \/ DeleteTestWrite(w)
=============================================================================
