---------------------------- MODULE MCAppServer ----------------------------
(***************************************************************************)
(* Instances of AppServer for TLC: one student or two, one course, one     *)
(* test, a teacher, and per run the requests worth interleaving.           *)
(***************************************************************************)
EXTENDS AppServer, TLC

CONSTANTS w1, w2, alice, bob, teacher, algebra, quiz, ghost, q1, q2, phantom, l1, l2, l3,
          a1, a2, a3

\* One course, one test (ghost is the id of none, phantom that of no question);
\* question q1 is linked twice, once in a version that is not the actual one.
MCCourseOf == [t \in Tests |-> algebra]
MCCorrectAnswer == [q \in Quests |-> 1]
MCAuthor == [q \in Quests |-> teacher]
MCActualVersion == [q \in Quests |-> IF q = phantom THEN Nil ELSE 1]
MCTaught == Courses
MCGrants == [u \in Users |-> IF u = teacher THEN Permissions ELSE {}]
MCMembers == {alice, bob} \X Courses
Linked(q, v) == [test |-> quiz, quest |-> q, version |-> v]
StaleLinks == [l \in LinkIds |-> IF l = l1 THEN Linked(q1, 1) ELSE
                                 IF l = l2 THEN Linked(q1, 2) ELSE Nil]

PlainLinks == [l \in LinkIds |-> IF l = l1 THEN Linked(q1, 1) ELSE Nil]

-----------------------------------------------------------------------------
(* Requests.                                                               *)

Creates(us, vs) == [op : {"create"}, subject : us, user : vs, test : {quiz}]
Sets(us, qs, as) == [op : {"set"}, subject : us, attempt : AttemptIds,
                     quest : qs, answer : as]
Finishes(us) == [op : {"finish"}, subject : us, attempt : AttemptIds]

RaceRequests ==
    Creates({alice}, {alice}) \cup Sets({alice}, {q1}, {1}) \cup Finishes({alice, bob})

StatusRequests ==
    [op : {"set_test_status"}, subject : {teacher}, test : {quiz}, status : BOOLEAN]
    \cup [op : {"delete_test"}, subject : {teacher}, test : {quiz}]

SerialRequests ==
    Creates({alice}, {alice}) \cup Sets({alice, bob}, {q1}, {1, 2})
    \cup Sets({alice}, {phantom}, {1})
    \cup Finishes({alice, bob}) \cup StatusRequests
    \cup [op : {"add_quest"}, subject : {teacher}, test : {quiz},
          quest : {phantom}, version : {1}]

\* The author of the questions has no permission of their own; bob has none and
\* wrote none.
EditingRequests ==
    Creates({alice}, {alice}) \cup Sets({alice}, {q1}, {1})
    \cup [op : {"add_quest"}, subject : {teacher}, test : {quiz},
          quest : {q2}, version : {1, 2}]
    \cup [op : {"add_quest"}, subject : {bob}, test : {quiz},
          quest : {q2}, version : {1}]
    \cup [op : {"delete_quest"}, subject : {bob}, test : Missing, quest : {q1}]
    \cup [op : {"delete_quest"}, subject : {teacher}, test : {quiz}, quest : {q1}]

AccessRequests ==
    Creates({alice, bob}, {alice}) \cup Finishes({alice})
    \cup [op : {"set_block_status"}, subject : {alice, teacher}, user : {alice},
          block : BOOLEAN]
    \cup [op : {"add_user"}, subject : {alice, bob, teacher}, user : {alice},
          course : {algebra}]
    \cup [op : {"delete_user"}, subject : {teacher}, user : {alice}, course : {algebra}]
    \cup [op : {"delete_course"}, subject : {alice, teacher}, course : {algebra}]

LiveRequests == RaceRequests

Interchangeable == Permutations(Workers) \cup Permutations(AttemptIds)
=============================================================================
