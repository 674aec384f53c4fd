----------------------------- MODULE MCReports -----------------------------
(***************************************************************************)
(* Instances of Reports for TLC: a student takes a test, to which a question *)
(* that is not there may be linked, while the teacher and others report.   *)
(***************************************************************************)
EXTENDS Reports, TLC

CONSTANTS w1, w2, r1, r2, alice, bob, teacher, algebra, quiz, ghost, q1, phantom,
          l1, l2, l3, a1, a2

MCCourseOf == [t \in Tests |-> algebra]
MCCorrectAnswer == [q \in Quests |-> 1]
MCAuthor == [q \in Quests |-> teacher]
MCActualVersion == [q \in Quests |-> IF q = phantom THEN Nil ELSE 1]
MCGrants == [u \in Users |-> IF u = teacher THEN Permissions ELSE {}]
MCReportGrants == [u \in Users |-> IF u = teacher THEN ReportPermissions
                                   ELSE IF u = bob THEN {"test:quest:update"} ELSE {}]
MCMembers == {alice, bob} \X Courses
Linked(q, v) == [test |-> quiz, quest |-> q, version |-> v]
MCLinks == [l \in LinkIds |-> IF l = l1 THEN Linked(q1, 1) ELSE Nil]
MCOptions == [q \in Quests |-> {1, 2}]

\* Sending the id of a question twice is allowed, and so is leaving one out.
MCLists == {<<q1, phantom>>, <<phantom, phantom>>}

ExamRequests ==
    [op : {"create"}, subject : {alice}, user : {alice}, test : {quiz}]
    \cup [op : {"set"}, subject : {alice}, attempt : AttemptIds, quest : {q1}, answer : {1}]
    \cup [op : {"finish"}, subject : {alice}, attempt : AttemptIds]
    \cup [op : {"add_quest"}, subject : {teacher}, test : {quiz}, quest : {phantom}, version : {1}]
    \cup [op : {"delete_test"}, subject : {bob}, test : Missing]
    \cup [op : {"delete_quest"}, subject : {teacher}, test : {quiz}, quest : {phantom}]

\* Bob, a student, has been given the permission to order questions.
MCReportRequests ==
    [op : {"order"}, subject : {teacher}, test : {quiz}, list : {<<q1, phantom>>}]
    \cup [op : {"order"}, subject : {bob}, test : {quiz}, list : {<<phantom, phantom>>}]
    \cup [op : {"marks", "answers", "takers"}, subject : {teacher}, test : {quiz}]
    \cup [op : {"marks", "answers"}, subject : {alice}, test : {quiz}]
    \cup [op : {"takers"}, subject : {bob}, test : Missing]
    \cup [op : {"get"}, subject : {teacher}, user : {alice, bob}, test : {quiz}]

Interchangeable ==
    Permutations(Workers) \cup Permutations(Readers) \cup Permutations(AttemptIds)
=============================================================================
