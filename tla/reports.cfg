SPECIFICATION ReportSpec
CONSTANTS
    w1 = w1  w2 = w2
    r1 = r1  r2 = r2
    alice = alice  bob = bob  teacher = teacher
    algebra = algebra  quiz = quiz  ghost = ghost  q1 = q1  phantom = phantom
    l1 = l1  l2 = l2  l3 = l3
    a1 = a1  a2 = a2
    Nil = Nil
    Workers = {w1}
    Readers = {r1, r2}
    Users = {alice, bob, teacher}
    Courses = {algebra}
    Tests = {quiz, ghost}
    Missing = {ghost}
    Quests = {q1, phantom}
    Versions = {1, 2}
    Answers = {1}
    AttemptIds = {a1}
    LinkIds = {l1, l2}
    CourseOf <- MCCourseOf
    CorrectAnswer <- MCCorrectAnswer
    Author <- MCAuthor
    ActualVersion <- MCActualVersion
    Taught = {}
    Grants <- MCGrants
    InitialLinks <- MCLinks
    InitialMembers <- MCMembers
    Requests <- ExamRequests
    Pipelined = FALSE
    Faults = FALSE
    Lists <- MCLists
    Options <- MCOptions
    ReportGrants <- MCReportGrants
    ReportRequests <- MCReportRequests
    ReportFaults = TRUE
SYMMETRY Interchangeable
INVARIANTS
    OrderOkMeansPlaced
    ReportsAreFinal
PROPERTIES
    OrphanBlocksMarks
    BlankBlocksAnswers
    OrphanedByDeathOnly
