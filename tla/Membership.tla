----------------------------- MODULE Membership -----------------------------
(***************************************************************************)
(* The handlers that decide who may take a course's tests: set_block_status*)
(* of UserRestController.cpp; add_user, delete_user and delete_course of   *)
(* CourseRestController.cpp.                                               *)
(***************************************************************************)
EXTENDS AppDb

-----------------------------------------------------------------------------
(* Steps of this module with a plausible bug in them, put in the place of  *)
(* the right step to show that the properties notice; Next uses none.      *)

\* add_user that does not look at courses.is_deleted.
AddUserUnchecked(w) ==
    /\ At(w, "add_user", "course")
    /\ Goto(w, "join")
    /\ UNCHANGED dbVars

MatchUserId(r) == {r.user = r.subject}

-----------------------------------------------------------------------------
(* /api/users/set_block_status                                             *)

SetBlockAuth(w) ==
    Authorize(w, "set_block_status", "user:block:write", {FALSE}, "block")

SetBlockWrite(w) ==
    /\ At(w, "set_block_status", "block")
    /\ blocked' = [blocked EXCEPT ![job[w].req.user] = job[w].req.block]
    /\ \E code \in CommitCodes : Reply(w, code)
    /\ UNCHANGED <<members, closedCourses, testVars, examVars>>

-----------------------------------------------------------------------------
(* /api/courses/add_user                                                   *)

AddUserAuth(w) ==
    Authorize(w, "add_user", "course:user:add", MatchUserId(job[w].req), "course")

AddUserCheck(w) ==
    /\ At(w, "add_user", "course")
    /\ IF job[w].req.course \in closedCourses THEN Reply(w, 403) ELSE Goto(w, "join")
    /\ UNCHANGED dbVars

AddUserJoin(w) ==
    /\ At(w, "add_user", "join")
    /\ members' = members \cup {<<job[w].req.user, job[w].req.course>>}
    /\ \E code \in CommitCodes : Reply(w, code)
    /\ UNCHANGED <<blocked, closedCourses, testVars, examVars>>

-----------------------------------------------------------------------------
(* /api/courses/delete_user: the DELETE takes every row of the pair        *)

DeleteUserAuth(w) ==
    Authorize(w, "delete_user", "course:user:del", MatchUserId(job[w].req), "leave")

DeleteUserLeave(w) ==
    /\ At(w, "delete_user", "leave")
    /\ members' = members \ {<<job[w].req.user, job[w].req.course>>}
    /\ \E code \in CommitCodes : Reply(w, code)
    /\ UNCHANGED <<blocked, closedCourses, testVars, examVars>>

-----------------------------------------------------------------------------
(* /api/courses/delete_course: the permission asked for is the one to add  *)
(* a course                                                                *)

DeleteCourseAuth(w) ==
    Authorize(w, "delete_course", "course:add",
                    MatchCourseIdOwner(job[w].req.course), "drop")

DeleteCourseDrop(w) ==
    /\ At(w, "delete_course", "drop")
    /\ closedCourses' = closedCourses \cup {job[w].req.course}
    /\ \E code \in CommitCodes : Reply(w, code)
    /\ UNCHANGED <<blocked, members, testVars, examVars>>

MembershipStep(w) ==
    \/ SetBlockAuth(w) \/ SetBlockWrite(w)
    \/ AddUserAuth(w) \/ AddUserCheck(w) \/ AddUserJoin(w)
    \/ DeleteUserAuth(w) \/ DeleteUserLeave(w)
    \/ DeleteCourseAuth(w) \/ DeleteCourseDrop(w)
=============================================================================
