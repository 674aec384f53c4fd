SPECIFICATION Spec
CONSTANTS
    w1 = w1  w2 = w2
    alice = alice  bob = bob  teacher = teacher
    algebra = algebra  quiz = quiz  ghost = ghost  q1 = q1  q2 = q2  phantom = phantom
    l1 = l1  l2 = l2  l3 = l3
    a1 = a1  a2 = a2  a3 = a3
    Nil = Nil
    Workers = {w1, w2}
    Users = {alice, bob, teacher}
    Courses = {algebra}
    Tests = {quiz}
    Missing = {}
    Quests = {q1}
    Versions = {1, 2}
    Answers = {1, 2}
    AttemptIds = {a1, a2}
    LinkIds = {l1}
    CourseOf <- MCCourseOf
    CorrectAnswer <- MCCorrectAnswer
    Author <- MCAuthor
    ActualVersion <- MCActualVersion
    Taught <- MCTaught
    Grants <- MCGrants
    InitialLinks <- PlainLinks
    InitialMembers <- MCMembers
    Requests <- AccessRequests
    Pipelined = TRUE
    Faults = TRUE
SYMMETRY Interchangeable
PROPERTIES
    ShutOutUserChangesNothing
    DisbandedCourseGainsNoMember
    OutsiderOpensNoAttempt
