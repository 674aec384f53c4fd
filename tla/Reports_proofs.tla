--------------------------- MODULE Reports_proofs ---------------------------
(***************************************************************************)
(* Proofs about the teachers' reports and the ordering of questions: the   *)
(* type invariant; what a 200 of set_quest_order_info promises; that       *)
(* reports interfere with the other handlers by the death of the server    *)
(* only, so that what is proved of them holds beside the reports too;      *)
(* which attempts make a report fail for good, and how they arise; that    *)
(* what a report shows is final, and that every report ends.               *)
(***************************************************************************)
EXTENDS Reports, Exam_proofs

-----------------------------------------------------------------------------
(* Types.  A desk at work has a request.                                   *)

DeskWellFormed(r) ==
    /\ desk[r].pc = "idle" <=> desk[r].req = Nil
    /\ desk[r].next >= 1

DesksInv == /\ desk \in [Readers -> Desk]
            /\ \A r \in Readers : DeskWellFormed(r)

ReportInv == /\ TypeInv
             /\ order \in [LinkIds -> Positions \cup {NoOrder}]
             /\ DesksInv

(* What a request of each operation carries.                               *)
LEMMA ReportReqFields ==
    ASSUME NEW q \in ReportReq
    PROVE  /\ q.op \in {"order", "takers", "marks", "answers", "get"}
           /\ q.subject \in Users /\ q.test \in Tests
           /\ q.op = "order" => q.list \in Lists
           /\ q.op = "get" => q.user \in Users
           /\ q # Nil
BY ReportsAssumption DEF ReportReq, OrderReq, TestReportReq, GetReq

LEMMA IdleDeskType == IdleDesk \in Desk
BY DEF IdleDesk, Desk, Codes, NoAnswers, NoMark

(* The request of a reader at work.                                        *)
LEMMA AtWork ==
    ASSUME DesksInv, NEW r \in Readers, desk[r].pc # "idle"
    PROVE  desk[r] \in Desk /\ desk[r].req \in ReportReq /\ desk[r].req # Nil
BY DEF DesksInv, DeskWellFormed, Desk

(* One reader moves.                                                       *)
LEMMA OneDesk ==
    ASSUME DesksInv, NEW r \in Readers, NEW d \in Desk, d.next >= 1,
           d.pc = "idle" <=> d.req = Nil,
           desk' = [desk EXCEPT ![r] = d]
    PROVE  DesksInv'
BY DEF DesksInv, DeskWellFormed

LEMMA AnswerDesks ==
    ASSUME DesksInv, NEW r \in Readers, desk[r].pc # "idle",
           NEW code \in Codes, Answer(r, code)
    PROVE  DesksInv'
<1> DEFINE d == [IdleDesk EXCEPT !.pc = "done", !.req = desk[r].req, !.code = code]
<1>1. d \in Desk /\ d.pc = "done" /\ d.req = desk[r].req
    BY AtWork, IdleDeskType DEF IdleDesk, Desk
<1>4. d.next >= 1
    BY DEF IdleDesk
<1>2. d.pc = "idle" <=> d.req = Nil
    BY <1>1, AtWork
<1>3. desk' = [desk EXCEPT ![r] = d]
    BY DEF Answer
<1> HIDE DEF d
<1> QED
    BY <1>1, <1>2, <1>3, <1>4, OneDesk

LEMMA NextDesk ==
    ASSUME NEW d \in Desk, d.next >= 1
    PROVE  LET e == [d EXCEPT !.next = @ + 1]
           IN  e \in Desk /\ e.pc = d.pc /\ e.req = d.req /\ e.next = d.next + 1 /\ e.next >= 1
<1>1. d.next \in Nat
    BY DEF Desk
<1>2. d.next + 1 \in Nat /\ d.next + 1 >= 1
    BY <1>1
<1> DEFINE n == d.next + 1
<1> HIDE DEF n
<1>3. [d EXCEPT !.next = n] \in Desk /\ [d EXCEPT !.next = n].next = n
    BY <1>2 DEF Desk, n
<1> QED
    BY <1>2, <1>3 DEF n, Desk

LEMMA AdmitDesks ==
    ASSUME DesksInv, NEW r \in Readers, NEW op, NEW lesser,
           NEW next \in {"place", "query"}, Admit(r, op, lesser, next)
    PROVE  DesksInv'
<1> DEFINE q == desk[r].req
<1>1. desk[r].pc = "auth" /\ desk[r] \in Desk /\ q \in ReportReq /\ q # Nil
    BY AtWork DEF Admit, Doing
<1>2. PICK code \in ValidateWithBlockHandle(q.subject,
                            Permission(op) \in ReportGrants[q.subject]),
           owner \in MatchCourseIdOwner(CourseOf[q.test]), other \in lesser :
              IF code = 200 \/ (code = 403 /\ (owner \/ other))
              THEN desk' = [desk EXCEPT ![r].pc = next, ![r].all = code = 200 \/ owner,
                      ![r].kept = {l \in LinkIds : op = "order" /\ LinksOf(q.test)[l] # Nil}]
              ELSE Answer(r, code)
    BY DEF Admit
<1>3. code \in Codes
    BY ValidateCodes
<1>4. CASE Answer(r, code)
    BY <1>1, <1>3, <1>4, AnswerDesks
<1>5. ASSUME desk' = [desk EXCEPT ![r].pc = next, ![r].all = code = 200 \/ owner,
                      ![r].kept = {l \in LinkIds : op = "order" /\ LinksOf(q.test)[l] # Nil}]
      PROVE  DesksInv'
    <2> DEFINE k == {l \in LinkIds : op = "order" /\ LinksOf(q.test)[l] # Nil}
               b == (code = 200 \/ owner)
               d == [desk[r] EXCEPT !.pc = next, !.all = b, !.kept = k]
    <2>1. b \in BOOLEAN
        OBVIOUS
    <2>2. k \in SUBSET LinkIds
        OBVIOUS
    <2>3. desk' = [desk EXCEPT ![r] = d]
        BY <1>5 DEF DesksInv
    <2> HIDE DEF k, b
    <2>4. d \in Desk /\ d.pc = next /\ d.req = q /\ d.next = desk[r].next
        BY <1>1, <2>1, <2>2 DEF Desk
    <2>5. d.next >= 1
        BY <2>4 DEF DesksInv, DeskWellFormed
    <2> HIDE DEF d
    <2> QED
        BY <1>1, <2>3, <2>4, <2>5, OneDesk
<1> QED
    BY <1>2, <1>4, <1>5

LEMMA PlaceDesks ==
    ASSUME DesksInv, NEW r \in Readers, PlaceQuest(r),
           order \in [LinkIds -> Positions \cup {NoOrder}]
    PROVE  DesksInv' /\ order' \in [LinkIds -> Positions \cup {NoOrder}]
<1>1. desk[r].pc = "place" /\ desk[r] \in Desk /\ desk[r].req \in ReportReq
      /\ desk[r].req.op = "order"
    BY AtWork DEF PlaceQuest, Doing
<1>2. desk[r].req.list \in Lists /\ desk[r].next \in DOMAIN desk[r].req.list
    BY <1>1, ReportReqFields DEF PlaceQuest
<1>3. desk[r].next \in Positions
    BY <1>2 DEF Positions
<1>4. order' \in [LinkIds -> Positions \cup {NoOrder}]
    BY <1>3 DEF PlaceQuest
<1>5. ASSUME NEW v \in Readers
      PROVE  desk'[v] \in Desk /\ desk'[v].pc = desk[v].pc /\ desk'[v].req = desk[v].req
             /\ desk'[v].next >= 1
    <2>1. desk[v] \in Desk /\ desk[v].next >= 1
        BY DEF DesksInv, DeskWellFormed
    <2>2. CASE v = r
        <3>1. desk'[v] = [desk[v] EXCEPT !.next = @ + 1]
            BY <2>2 DEF PlaceQuest
        <3> QED
            BY <2>1, <3>1, NextDesk
    <2>3. CASE v # r
        <3>1. desk'[v] = [desk[v] EXCEPT !.kept = @ \ Placed(r)]
            BY <2>3 DEF PlaceQuest
        <3> QED
            BY <2>1, <3>1 DEF Desk
    <2> QED
        BY <2>2, <2>3
<1>6. desk' \in [Readers -> Desk]
    BY <1>5 DEF PlaceQuest
<1> QED
    BY <1>4, <1>5, <1>6 DEF DesksInv, DeskWellFormed

(* The other steps of a reader.                                            *)
LEMMA DoneDesk ==
    ASSUME NEW d \in Desk
    PROVE  LET e == [d EXCEPT !.pc = "done", !.code = 200]
           IN  e \in Desk /\ e.pc = "done" /\ e.req = d.req /\ e.next = d.next
<1>1. 200 \in Codes
    BY DEF Codes
<1>2. [d EXCEPT !.pc = "done"] \in Desk
    BY DEF Desk
<1>3. [[d EXCEPT !.pc = "done"] EXCEPT !.code = 200] \in Desk
    BY <1>1, <1>2 DEF Desk
<1>4. [[d EXCEPT !.pc = "done"] EXCEPT !.code = 200] = [d EXCEPT !.pc = "done", !.code = 200]
    OBVIOUS
<1> QED
    BY <1>3, <1>4 DEF Desk

\* The desk of get_user_marks, and that of get_user_answers, after a read.
WithMarks(d, seen, marks) ==
    [d EXCEPT !.pc = "done", !.code = 200, !.seen = seen, !.marks = marks]
WithSheet(d, todo, a, sheet, seen) ==
    [d EXCEPT !.todo = todo, !.sheets[a] = sheet, !.seen = seen]

SameRequest(e, d) == e \in Desk /\ e.req = d.req /\ e.next = d.next

LEMMA MarksDesk ==
    ASSUME NEW d \in Desk, NEW seen \in SUBSET AttemptIds,
           NEW marks \in [AttemptIds -> Marks \cup {NoMark}]
    PROVE  SameRequest(WithMarks(d, seen, marks), d) /\ WithMarks(d, seen, marks).pc = "done"
<1> DEFINE c == [d EXCEPT !.pc = "done", !.code = 200]
<1>1. c \in Desk /\ c.pc = "done" /\ c.req = d.req /\ c.next = d.next
    BY DoneDesk
<1>2. WithMarks(d, seen, marks) = [c EXCEPT !.seen = seen, !.marks = marks]
    BY DEF WithMarks
<1> HIDE DEF c
<1> QED
    BY <1>1, <1>2 DEF Desk, SameRequest

LEMMA SheetsDesk ==
    ASSUME NEW d \in Desk, NEW todo \in SUBSET AttemptIds
    PROVE  LET e == [d EXCEPT !.pc = "sheets", !.todo = todo]
           IN  e \in Desk /\ e.pc = "sheets" /\ e.req = d.req /\ e.next = d.next
BY DEF Desk

LEMMA SheetDesk ==
    ASSUME NEW d \in Desk, NEW todo \in SUBSET AttemptIds, NEW seen \in SUBSET AttemptIds,
           NEW a \in AttemptIds, NEW sheet \in [LinkIds -> AnswerRow \cup {Nil}]
    PROVE  SameRequest(WithSheet(d, todo, a, sheet, seen), d)
           /\ WithSheet(d, todo, a, sheet, seen).pc = d.pc
BY DEF Desk, SameRequest, WithSheet

(* Of get_user_marks, get_user_answers and attempts/get.                   *)
LEMMA InReportType ==
    ASSUME TypeInv, NEW r
    PROVE  InReport(r) \in SUBSET AttemptIds
           /\ \A a \in InReport(r) : attempts[a] \in AttemptRow
BY DEF InReport, Completed, Rows, TypeInv, TypeOK, TablesTypeOK

LEMMA ReadDesks ==
    ASSUME TypeInv, DesksInv, NEW r \in Readers,
           \/ OrderReply(r) \/ ListTakers(r) \/ ReadMarks(r) \/ ReadAttempts(r)
           \/ ReadSheet(r) \/ SheetsReply(r) \/ FindAttempt(r) \/ GetSheet(r) \/ Fail(r)
    PROVE  DesksInv'
<1> USE DEF Doing
<1>1. desk[r].pc # "idle"
    BY DEF OrderReply, ListTakers, ReadMarks, ReadAttempts, ReadSheet, SheetsReply,
           FindAttempt, GetSheet, Fail
<1>2. /\ desk[r] \in Desk /\ desk[r].req # Nil /\ desk[r].next >= 1
      /\ desk \in [Readers -> Desk]
    BY <1>1, AtWork DEF DesksInv, DeskWellFormed
<1>3. ASSUME NEW code \in {200, 404, 500}, Answer(r, code) PROVE DesksInv'
    BY <1>1, <1>3, AnswerDesks DEF Codes
<1>4. ASSUME NEW d \in Desk, d.pc # "idle", d.req = desk[r].req, d.next = desk[r].next,
             desk' = [desk EXCEPT ![r] = d]
      PROVE  DesksInv'
    BY <1>2, <1>4, OneDesk
<1>5. CASE OrderReply(r) \/ SheetsReply(r)
    <2>1. desk' = [desk EXCEPT ![r] = [desk[r] EXCEPT !.pc = "done", !.code = 200]]
        BY <1>5 DEF OrderReply, SheetsReply
    <2> QED
        BY <1>2, <1>4, <2>1, DoneDesk
<1>6. CASE ListTakers(r)
    BY <1>3, <1>6 DEF ListTakers
<1>7. CASE ReadMarks(r)
    <2> DEFINE marks == [a \in AttemptIds |-> IF a \in InReport(r) THEN attempts[a].mark
                                              ELSE NoMark]
    <2>1. CASE Unmarked(InReport(r)) # {}
        BY <1>3, <1>7, <2>1 DEF ReadMarks
    <2>2. CASE Unmarked(InReport(r)) = {}
        <3> DEFINE d == WithMarks(desk[r], InReport(r), marks)
        <3>1. desk' = [desk EXCEPT ![r].pc = "done", ![r].code = 200,
                                   ![r].seen = InReport(r), ![r].marks = marks]
            BY <1>7, <2>2 DEF ReadMarks
        <3>2. desk' = [desk EXCEPT ![r] = d]
            BY <1>2, <3>1, Zenon DEF WithMarks
        <3>3. marks \in [AttemptIds -> Marks \cup {NoMark}]
            BY InReportType DEF AttemptRow
        <3> HIDE DEF marks
        <3>4. d \in Desk /\ d.pc = "done" /\ d.req = desk[r].req /\ d.next = desk[r].next
            <4>1. InReport(r) \in SUBSET AttemptIds /\ desk[r] \in Desk
                BY <1>2, InReportType
            <4> QED
                BY <3>3, <4>1, MarksDesk DEF SameRequest
        <3> HIDE DEF d
        <3> QED
            BY <1>4, <3>2, <3>4
    <2> QED
        BY <2>1, <2>2
<1>8. CASE ReadAttempts(r)
    <2>1. ASSUME desk' = [desk EXCEPT ![r] = [desk[r] EXCEPT !.pc = "sheets",
                                                             !.todo = InReport(r)]]
          PROVE  DesksInv'
        BY <1>2, <1>4, <2>1, InReportType, SheetsDesk
    <2> QED
        BY <1>3, <1>8, <2>1 DEF ReadAttempts
<1>9. CASE ReadSheet(r)
    <2>1. desk[r].todo \in SUBSET AttemptIds /\ desk[r].seen \in SUBSET AttemptIds
        BY <1>2 DEF Desk
    <2>2. PICK a \in desk[r].todo :
             \/ Answer(r, 500)
             \/ desk' = [desk EXCEPT ![r].todo = @ \ {a}, ![r].sheets[a] = answers[a],
                              ![r].seen = IF answers[a] = NoAnswers THEN @ ELSE @ \cup {a}]
        BY <1>9 DEF ReadSheet
    <2>3. answers[a] \in [LinkIds -> AnswerRow \cup {Nil}] /\ a \in AttemptIds
        BY <2>1 DEF TypeInv, TypeOK, TablesTypeOK
    <2> DEFINE todo == desk[r].todo \ {a}
               seen == IF answers[a] = NoAnswers THEN desk[r].seen ELSE desk[r].seen \cup {a}
               sheet == answers[a]
    <2>4. ASSUME desk' = [desk EXCEPT ![r] = [desk[r] EXCEPT
                    !.todo = todo, !.sheets[a] = sheet, !.seen = seen]]
          PROVE  DesksInv'
        <3> DEFINE d == WithSheet(desk[r], todo, a, sheet, seen)
        <3>1. todo \in SUBSET AttemptIds /\ seen \in SUBSET AttemptIds
              /\ sheet \in [LinkIds -> AnswerRow \cup {Nil}] /\ a \in AttemptIds
            BY <2>1, <2>3
        <3>2. desk' = [desk EXCEPT ![r] = d]
            BY <2>4 DEF WithSheet
        <3> HIDE DEF todo, seen, sheet
        <3>3. d \in Desk /\ d.pc = desk[r].pc /\ d.req = desk[r].req /\ d.next = desk[r].next
            BY <1>2, <3>1, SheetDesk DEF SameRequest
        <3> HIDE DEF d
        <3> QED
            BY <1>1, <1>4, <3>2, <3>3
    <2> QED
        BY <1>3, <2>2, <2>4
<1>10. CASE FindAttempt(r)
    <2>1. PICK a \in RowsOf(desk[r].req.user, desk[r].req.test) :
             desk' = [desk EXCEPT ![r] = [desk[r] EXCEPT !.pc = "sheets", !.todo = {a}]]
        BY <1>10 DEF FindAttempt
    <2>2. {a} \in SUBSET AttemptIds
        BY DEF RowsOf, Rows
    <2> QED
        BY <1>2, <1>4, <2>1, <2>2, SheetsDesk
<1>11. CASE GetSheet(r)
    BY <1>3, <1>11 DEF GetSheet
<1>12. CASE Fail(r)
    BY <1>3, <1>12 DEF Fail
<1> QED
    BY <1>5, <1>6, <1>7, <1>8, <1>9, <1>10, <1>11, <1>12

(* A step of the other handlers keeps the desks, apart from kept.          *)
LEMMA ServerDesks ==
    ASSUME DesksInv, ServerStep, order \in [LinkIds -> Positions \cup {NoOrder}]
    PROVE  DesksInv' /\ order' \in [LinkIds -> Positions \cup {NoOrder}]
<1>1. ASSUME NEW r \in Readers
      PROVE  desk'[r] \in Desk /\ desk'[r].pc = desk[r].pc /\ desk'[r].req = desk[r].req
             /\ desk'[r].next = desk[r].next
    <2>1. desk'[r] = [desk[r] EXCEPT !.kept = {l \in @ : links'[l] = links[l]}]
        BY DEF ServerStep
    <2>2. desk[r] \in Desk
        BY DEF DesksInv
    <2> QED
        BY <2>1, <2>2 DEF Desk
<1>2. desk' \in [Readers -> Desk]
    BY <1>1 DEF ServerStep
<1>3. order' \in [LinkIds -> Positions \cup {NoOrder}]
    BY DEF ServerStep
<1> QED
    BY <1>1, <1>2, <1>3 DEF DesksInv, DeskWellFormed

LEMMA ServerIsNext == ServerStep => Next
BY DEF ServerStep, Next

(* The death of the process, whatever it died of.                          *)
LEMMA DeathStops ==
    ASSUME Death PROVE Stop /\ desk' = [v \in Readers |-> IdleDesk] /\ UNCHANGED order
BY DEF Death, Restart, Miss, MissTest, MissQuest, MissCourse, MissAttempt, MissVersion,
       ReportsDie, Die, Stop

LEMMA DeathInv == ASSUME ReportInv, Death PROVE ReportInv'
<1>1. TypeInv'
    BY DeathStops, NextTypeInv DEF MortalNext, ReportInv
<1>2. desk' = [v \in Readers |-> IdleDesk]
    BY DeathStops
<1>3. DesksInv'
    BY <1>2, IdleDeskType DEF DesksInv, DeskWellFormed, IdleDesk
<1> QED
    BY <1>1, <1>3, DeathStops DEF ReportInv

(* The reader's steps that leave the tables and the jobs alone.            *)
ReaderStep(r) ==
    \/ Take(r) \/ Fail(r) \/ Release(r)
    \/ AdmitOrder(r) \/ PlaceQuest(r) \/ OrderReply(r)
    \/ AdmitTakers(r) \/ ListTakers(r) \/ AdmitMarks(r) \/ ReadMarks(r)
    \/ AdmitAnswers(r) \/ ReadAttempts(r) \/ ReadSheet(r) \/ SheetsReply(r)
    \/ AdmitGet(r) \/ FindAttempt(r) \/ GetSheet(r)

LEMMA ReportNextCases ==
    ReportNext => \/ \E r \in Readers : ReaderStep(r)
                  \/ ServerStep
                  \/ Death
BY DEF ReportNext, ReportStep, ReaderStep

LEMMA ReaderFrame ==
    ASSUME NEW r \in Readers, ReaderStep(r)
    PROVE  /\ UNCHANGED vars
           /\ UNCHANGED order \/ PlaceQuest(r)
BY DEF ReaderStep, Take, Fail, Release, AdmitOrder, PlaceQuest, OrderReply, AdmitTakers,
       ListTakers, AdmitMarks, ReadMarks, AdmitAnswers, ReadAttempts, ReadSheet, SheetsReply,
       AdmitGet, FindAttempt, GetSheet, Admit

LEMMA ReaderInv ==
    ASSUME ReportInv, NEW r \in Readers, ReaderStep(r) PROVE ReportInv'
<1> USE DEF ReportInv
<1>1. TypeInv'
    BY ReaderFrame, NextTypeInv
<1>2. CASE PlaceQuest(r)
    BY <1>1, <1>2, PlaceDesks
<1>3. CASE UNCHANGED order
    <2>1. CASE \/ OrderReply(r) \/ ListTakers(r) \/ ReadMarks(r) \/ ReadAttempts(r)
               \/ ReadSheet(r) \/ SheetsReply(r) \/ FindAttempt(r) \/ GetSheet(r) \/ Fail(r)
        BY <1>1, <1>3, <2>1, ReadDesks
    <2>2. CASE \/ AdmitOrder(r) \/ AdmitTakers(r) \/ AdmitMarks(r) \/ AdmitAnswers(r)
               \/ AdmitGet(r)
        BY <1>1, <1>3, <2>2, AdmitDesks
           DEF AdmitOrder, AdmitTakers, AdmitMarks, AdmitAnswers, AdmitGet
    <2>3. CASE Take(r)
        <3>1. PICK q \in ReportRequests :
                 desk' = [desk EXCEPT ![r] = [IdleDesk EXCEPT !.pc = "auth", !.req = q]]
            BY <2>3 DEF Take
        <3>2. q \in ReportReq /\ q # Nil
            BY ReportsAssumption
        <3> DEFINE d == [IdleDesk EXCEPT !.pc = "auth", !.req = q]
        <3>3. d \in Desk /\ d.pc = "auth" /\ d.req = q
            BY <3>2, IdleDeskType DEF Desk, IdleDesk
        <3>4. d.next >= 1
            BY DEF IdleDesk
        <3> HIDE DEF d
        <3>5. DesksInv'
            BY <3>1, <3>2, <3>3, <3>4, OneDesk DEF d
        <3> QED
            BY <1>1, <1>3, <3>5
    <2>4. CASE Release(r)
        <3>1. desk' = [desk EXCEPT ![r] = IdleDesk]
            BY <2>4 DEF Release
        <3>2. IdleDesk.pc = "idle" /\ IdleDesk.req = Nil /\ IdleDesk.next >= 1
            BY DEF IdleDesk
        <3>3. DesksInv'
            BY <3>1, <3>2, IdleDeskType, OneDesk
        <3> QED
            BY <1>1, <1>3, <3>3
    <2> QED
        BY <1>2, <2>1, <2>2, <2>3, <2>4 DEF ReaderStep
<1> QED
    BY <1>2, <1>3, ReaderFrame

LEMMA ReportInitInv == ReportInit => ReportInv
<1> SUFFICES ASSUME ReportInit PROVE ReportInv
    OBVIOUS
<1>1. TypeInv
    BY InitTypeInv DEF ReportInit
<1>2. DesksInv
    BY IdleDeskType DEF ReportInit, DesksInv, DeskWellFormed, IdleDesk
<1> QED
    BY <1>1, <1>2 DEF ReportInit, ReportInv

LEMMA ReportNextInv == ReportInv /\ [ReportNext]_rvars => ReportInv'
<1> SUFFICES ASSUME ReportInv, [ReportNext]_rvars PROVE ReportInv'
    OBVIOUS
<1>1. CASE ServerStep
    BY <1>1, ServerDesks, ServerIsNext, NextTypeInv DEF ReportInv, MortalNext
<1>2. CASE UNCHANGED rvars
    BY <1>2, NextTypeInv DEF rvars, ReportInv, DesksInv, DeskWellFormed
<1> QED
    BY <1>1, <1>2, ReportNextCases, ReaderInv, DeathInv

THEOREM ReportInvariant == ReportSpec => []ReportInv
BY ReportInitInv, ReportNextInv, PTL DEF ReportSpec

(* Every reachable state of the server with its reports is well typed.     *)
THEOREM ReportTypes == ReportSpec => []ReportTypeOK
<1>1. ReportInv => ReportTypeOK
    BY DEF ReportInv, DesksInv, TypeInv, ReportTypeOK
<1> QED
    BY <1>1, ReportInvariant, PTL

-----------------------------------------------------------------------------
(* Reports and the other handlers.                                         *)

LEMMA ReportNextIsMortal == [ReportNext]_rvars => [MortalNext]_vars
<1>1. UNCHANGED rvars => UNCHANGED vars
    BY DEF rvars
<1> QED
    BY <1>1, ReportNextCases, ReaderFrame, ServerIsNext, DeathStops DEF MortalNext

(* The report handlers write the order only, and end the process at worst  *)
(* (TestRestController.cpp:99, 259; AttemptRestController.cpp:174, 192):   *)
(* beside them the other handlers do what they do on a server that may     *)
(* stop at any time, whether or not calls fail, or somebody restarts it.   *)
THEOREM ReportsInterfereByDeathOnly == ReportSpec => MortalSpec
<1>1. ReportInit => Init
    BY DEF ReportInit
<1> QED
    BY <1>1, ReportNextIsMortal, PTL DEF ReportSpec, MortalSpec

(* When calls may fail it may anyway: then what AppServer guarantees it    *)
(* guarantees with the report handlers running beside it.                  *)
THEOREM ReportsImplementServer == ASSUME Faults PROVE ReportSpec => Spec
<1>1. Stop => Crash
    BY DEF Stop, Crash, Die
<1>2. [MortalNext]_vars => [Next]_vars
    BY <1>1 DEF MortalNext, Next
<1> QED
    BY <1>2, ReportsInterfereByDeathOnly, PTL DEF MortalSpec, Spec

(* Also when they may not, all that is proved safe of the server alone     *)
(* stays so with reports running, and the server dying, beside it: nothing *)
(* of it rests on the death having been foreseen (Faults).                 *)
THEOREM SafeBesideReports ==
    ReportSpec => /\ []FinishOkMeansMarked /\ []MarkWithinAnswerable
                  /\ []AttemptsBoundedByWorkers
                  /\ AttemptsOnlyAdvance /\ OnlyOwnerWrites /\ SheetIsFixed
                  /\ QuestionsFollowAttempts /\ OrphanedForever
BY ReportsInterfereByDeathOnly, MortalFinishAcknowledged, MortalMarksWithinAnswerable,
   MortalAttemptsBounded, MortalAttemptsAdvance, MortalOwnerWrites, MortalSheetsStay,
   MortalQuestionsFollow, MortalOrphansStay, PTL

(* So do the checks the handlers make once and the requests that have      *)
(* passed them: they drain, each after a bounded number of steps.          *)
THEOREM DrainedBesideReports ==
    ReportSpec => /\ ClosedTestIsFrozen /\ ShutOutUserChangesNothing
                  /\ DisbandedCourseGainsNoMember /\ OutsiderOpensNoAttempt
                  /\ [][Draining]_vars
                  /\ []StepsBounded /\ [][EachStepCounts]_vars
BY ReportsInterfereByDeathOnly, MortalClosedFreezes, MortalShutOutStays,
   MortalDisbandedStays, MortalOutsidersStayOut, MortalRequestsDrain,
   MortalHandlersTerminate, PTL

(* And with students who wait for each answer the whole server, reports    *)
(* and its death included, implements the atomic examination of Exam.      *)
THEOREM ReportsImplementExam ==
    ASSUME ~Pipelined
    PROVE  ReportSpec => ImplementsExam /\ []SingleAttempt /\ []MarkMatchesAnswers
BY ReportsInterfereByDeathOnly, MortalExamImplemented, MortalSingleAttempts,
   MortalMarksMatch, PTL

-----------------------------------------------------------------------------
(* The order of questions.                                                 *)

\* Part of a list has been written: each row this request may count on has the
\* place of its question's last mention so far.
PlacedSoFar(r) ==
    LET list == desk[r].req.list
        n == desk[r].next
    IN  \A l \in desk[r].kept :
           /\ links[l] # Nil /\ links[l].test = desk[r].req.test
           /\ \A i \in DOMAIN list :
                 /\ i < n /\ links[l].quest = list[i]
                 /\ \A k \in DOMAIN list : k > i /\ k < n => list[k] # list[i]
                 => order[l] = i

OrderSafe(r) ==
    /\ desk[r].pc = "auth" => desk[r].next = 1
    /\ desk[r].req # Nil /\ desk[r].req.op = "order" /\ desk[r].pc \in {"place", "done"} =>
          /\ PlacedSoFar(r)
          /\ desk[r].pc = "done" => desk[r].kept = {} \/ desk[r].next \notin DOMAIN desk[r].req.list

OrderInv == ReportInv /\ \A r \in Readers : OrderSafe(r)

(* The positions of a list that can be named.                              *)
LEMMA ListDomain ==
    ASSUME NEW list \in Lists
    PROVE  \E n \in Nat : DOMAIN list = 1 .. n
<1>1. list \in Seq(Quests)
    BY ReportsAssumption
<1> QED
    BY <1>1

(* A link of a test, as set_quest_order_info and its check see it.         *)
LEMMA LinkOfTest ==
    ASSUME NEW t, NEW l \in LinkIds
    PROVE  LinksOf(t)[l] # Nil <=> links[l] # Nil /\ links[l].test = t
BY DEF LinksOf

LEMMA AnswerOrderSafe ==
    ASSUME DesksInv, NEW r \in Readers, NEW code, Answer(r, code)
    PROVE  OrderSafe(r)'
<1>1. desk'[r].pc = "done" /\ desk'[r].kept = {}
    BY DEF Answer, DesksInv, IdleDesk
<1> QED
    BY <1>1 DEF OrderSafe, PlacedSoFar

(* A reader that does not move is not disturbed where order and links stay *)
(* the same on the rows it counts on.                                      *)
LEMMA UndisturbedOrder ==
    ASSUME ReportInv, NEW v \in Readers, OrderSafe(v),
           desk'[v].pc = desk[v].pc, desk'[v].req = desk[v].req, desk'[v].next = desk[v].next,
           desk'[v].kept \subseteq desk[v].kept,
           \A l \in desk'[v].kept : order'[l] = order[l] /\ links'[l] = links[l]
    PROVE  OrderSafe(v)'
BY DEF OrderSafe, PlacedSoFar

LEMMA PlaceOrderSafe ==
    ASSUME ReportInv, NEW r \in Readers, OrderSafe(r), PlaceQuest(r)
    PROVE  OrderSafe(r)'
<1> DEFINE list == desk[r].req.list
           n == desk[r].next
<1>1. desk[r].pc = "place" /\ desk[r] \in Desk /\ desk[r].req \in ReportReq
      /\ desk[r].req.op = "order" /\ desk[r].req # Nil /\ n \in DOMAIN list
    BY AtWork DEF PlaceQuest, Doing, ReportInv
<1>2. list \in Lists /\ desk[r].kept \subseteq LinkIds
    BY <1>1, ReportReqFields DEF Desk
<1>3. PICK m \in Nat : DOMAIN list = 1 .. m
    BY <1>2, ListDomain
<1>4. desk'[r] = [desk[r] EXCEPT !.next = n + 1]
    BY DEF PlaceQuest
<1>5. /\ desk'[r].pc = "place" /\ desk'[r].req = desk[r].req
      /\ desk'[r].kept = desk[r].kept /\ desk'[r].next = n + 1
    BY <1>1, <1>4 DEF Desk
<1>6. links' = links
    BY DEF PlaceQuest, vars, dbVars, testVars
<1>7. PlacedSoFar(r)
    BY <1>1 DEF OrderSafe
<1>8. ASSUME NEW l \in desk[r].kept
      PROVE  order'[l] = IF links[l].quest = list[n] THEN n ELSE order[l]
    <2>1. l \in LinkIds /\ links[l] # Nil /\ links[l].test = desk[r].req.test
        BY <1>2, <1>7, <1>8 DEF PlacedSoFar
    <2>2. l \in Placed(r) <=> links[l].quest = list[n]
        BY <2>1, LinkOfTest DEF Placed
    <2> QED
        BY <2>1, <2>2 DEF PlaceQuest
<1>9. ASSUME NEW l \in desk[r].kept, NEW i \in DOMAIN list,
             i < n + 1, links[l].quest = list[i],
             \A k \in DOMAIN list : k > i /\ k < n + 1 => list[k] # list[i]
      PROVE  order'[l] = i
    <2>1. CASE i = n
        BY <1>8, <1>9, <2>1
    <2>2. CASE i # n
        <3>1. i < n /\ n > i /\ n < n + 1
            BY <1>1, <1>3, <1>9, <2>2
        <3>2. links[l].quest # list[n]
            BY <1>1, <1>9, <3>1
        <3>3. \A k \in DOMAIN list : k > i /\ k < n => list[k] # list[i]
            BY <1>1, <1>3, <1>9
        <3> QED
            BY <1>7, <1>8, <1>9, <3>1, <3>2, <3>3 DEF PlacedSoFar
    <2> QED
        BY <2>1, <2>2
<1>10. PlacedSoFar(r)'
    BY <1>5, <1>6, <1>7, <1>9 DEF PlacedSoFar
<1> QED
    BY <1>5, <1>10 DEF OrderSafe

LEMMA AdmitAlone ==
    ASSUME DesksInv, NEW r \in Readers, NEW op, NEW lesser, NEW next,
           Admit(r, op, lesser, next), NEW v \in Readers, v # r
    PROVE  desk'[v] = desk[v]
BY DEF Admit, Answer, DesksInv

(* Apart from PlaceQuest a reader changes its own desk only.               *)
LEMMA ReaderAlone ==
    ASSUME DesksInv, NEW r \in Readers, ReaderStep(r), NEW v \in Readers, v # r
    PROVE  desk'[v] = desk[v] \/ PlaceQuest(r)
<1> USE DEF DesksInv
<1>1. CASE Take(r) \/ Release(r) \/ OrderReply(r) \/ SheetsReply(r)
    BY <1>1 DEF Take, Release, OrderReply, SheetsReply
<1>2. CASE \/ AdmitOrder(r) \/ AdmitTakers(r) \/ AdmitMarks(r) \/ AdmitAnswers(r)
           \/ AdmitGet(r)
    BY <1>2, AdmitAlone DEF AdmitOrder, AdmitTakers, AdmitMarks, AdmitAnswers, AdmitGet
<1>3. CASE Fail(r) \/ ListTakers(r)
    BY <1>3 DEF Fail, ListTakers, Answer
<1>4. CASE ReadMarks(r)
    BY <1>4 DEF ReadMarks, Answer
<1>5. CASE ReadAttempts(r)
    BY <1>5 DEF ReadAttempts, Answer
<1>6. CASE ReadSheet(r)
    BY <1>6 DEF ReadSheet, Answer
<1>7. CASE FindAttempt(r)
    BY <1>7 DEF FindAttempt
<1>8. CASE GetSheet(r)
    BY <1>8 DEF GetSheet, Answer
<1> QED
    BY <1>1, <1>2, <1>3, <1>4, <1>5, <1>6, <1>7, <1>8 DEF ReaderStep

LEMMA AdmitOrderSafe ==
    ASSUME ReportInv, NEW r \in Readers, OrderSafe(r), NEW op, NEW lesser,
           NEW next \in {"place", "query"}, Admit(r, op, lesser, next)
    PROVE  OrderSafe(r)'
<1> DEFINE q == desk[r].req
           k == {l \in LinkIds : op = "order" /\ LinksOf(q.test)[l] # Nil}
<1>1. /\ DesksInv /\ desk[r].pc = "auth" /\ q.op = op /\ desk[r] \in Desk
      /\ desk[r].next = 1 /\ links' = links
    BY AtWork DEF Admit, Doing, ReportInv, OrderSafe, vars, dbVars, testVars
<1>2. CASE \E code : Answer(r, code)
    BY <1>1, <1>2, AnswerOrderSafe
<1>3. ASSUME NEW b, desk' = [desk EXCEPT ![r].pc = next, ![r].all = b, ![r].kept = k]
      PROVE  OrderSafe(r)'
    <2>1. /\ desk'[r].pc = next /\ desk'[r].req = q /\ desk'[r].next = 1 /\ desk'[r].kept = k
        BY <1>1, <1>3 DEF DesksInv, Desk
    <2>2. CASE op = "order" /\ q # Nil
        <3>1. \A l \in k : links[l] # Nil /\ links[l].test = q.test
            BY LinkOfTest
        <3>2. q \in ReportReq /\ q.list \in Lists
            BY <1>1, <2>2, AtWork, ReportReqFields
        <3>3. \A i \in DOMAIN q.list : ~(i < 1)
            BY <3>2, ListDomain
        <3> HIDE DEF k, q
        <3>4. PlacedSoFar(r)'
            BY <1>1, <2>1, <3>1, <3>3 DEF PlacedSoFar
        <3> QED
            BY <2>1, <3>4 DEF OrderSafe
    <2>3. CASE ~(op = "order" /\ q # Nil)
        BY <1>1, <2>1, <2>3 DEF OrderSafe
    <2> QED
        BY <2>2, <2>3
<1>4. PICK code \in ValidateWithBlockHandle(q.subject,
                            Permission(op) \in ReportGrants[q.subject]),
           owner \in MatchCourseIdOwner(CourseOf[q.test]), other \in lesser :
              IF code = 200 \/ (code = 403 /\ (owner \/ other))
              THEN desk' = [desk EXCEPT ![r].pc = next, ![r].all = code = 200 \/ owner,
                      ![r].kept = {l \in LinkIds : op = "order" /\ LinksOf(q.test)[l] # Nil}]
              ELSE Answer(r, code)
    BY DEF Admit
<1>5. CASE Answer(r, code)
    BY <1>2, <1>5
<1>6. CASE desk' = [desk EXCEPT ![r].pc = next, ![r].all = code = 200 \/ owner, ![r].kept = k]
    BY <1>3, <1>6
<1> QED
    BY <1>4, <1>5, <1>6

(* The reader's own part.                                                  *)
LEMMA MoverOrderSafe ==
    ASSUME ReportInv, NEW r \in Readers, OrderSafe(r), ReaderStep(r)
    PROVE  OrderSafe(r)'
<1>1. DesksInv /\ desk \in [Readers -> Desk] /\ desk[r] \in Desk /\ links' = links
    BY ReaderFrame DEF ReportInv, DesksInv, vars, dbVars, testVars
<1>2. ASSUME NEW code, Answer(r, code) PROVE OrderSafe(r)'
    BY <1>1, <1>2, AnswerOrderSafe
<1>3. ASSUME desk[r].req.op # "order", desk'[r].req = desk[r].req, desk'[r].pc # "auth"
      PROVE  OrderSafe(r)'
    BY <1>3 DEF OrderSafe
<1>4. CASE PlaceQuest(r)
    BY <1>4, PlaceOrderSafe
<1>5. CASE \/ AdmitOrder(r) \/ AdmitTakers(r) \/ AdmitMarks(r) \/ AdmitAnswers(r)
           \/ AdmitGet(r)
    BY <1>5, AdmitOrderSafe DEF AdmitOrder, AdmitTakers, AdmitMarks, AdmitAnswers, AdmitGet
<1>6. CASE Take(r)
    <2>1. desk'[r].pc = "auth" /\ desk'[r].next = 1
        BY <1>1, <1>6 DEF Take, IdleDesk
    <2> QED
        BY <2>1 DEF OrderSafe
<1>7. CASE Release(r)
    <2>1. desk'[r].pc = "idle"
        BY <1>1, <1>7 DEF Release, IdleDesk
    <2> QED
        BY <2>1 DEF OrderSafe
<1>8. CASE OrderReply(r)
    <2>1. /\ desk'[r].pc = "done" /\ desk'[r].req = desk[r].req /\ desk'[r].next = desk[r].next
          /\ desk'[r].kept = desk[r].kept /\ order' = order
        BY <1>1, <1>8 DEF OrderReply, Desk
    <2>2. desk[r].pc = "place" /\ desk[r].next \notin DOMAIN desk[r].req.list
          /\ desk[r].req.op = "order"
        BY <1>8 DEF OrderReply, Doing
    <2>3. desk[r].req # Nil => PlacedSoFar(r)
        BY <2>2 DEF OrderSafe
    <2>4. desk[r].req # Nil => PlacedSoFar(r)'
        BY <1>1, <2>1, <2>3 DEF PlacedSoFar
    <2> QED
        BY <2>1, <2>2, <2>4 DEF OrderSafe
<1>9. CASE Fail(r) \/ ListTakers(r) \/ GetSheet(r)
    BY <1>2, <1>9 DEF Fail, ListTakers, GetSheet
<1>10. CASE SheetsReply(r)
    BY <1>1, <1>3, <1>10 DEF SheetsReply, Doing, Desk
<1>11. CASE FindAttempt(r)
    BY <1>1, <1>3, <1>11 DEF FindAttempt, Doing, Desk
<1>12. CASE ReadAttempts(r)
    <2>1. CASE desk' = [desk EXCEPT ![r].pc = "sheets", ![r].todo = InReport(r)]
        BY <1>1, <1>3, <1>12, <2>1 DEF ReadAttempts, Doing, Desk
    <2> QED
        BY <1>2, <1>12, <2>1 DEF ReadAttempts
<1>13. CASE ReadMarks(r)
    <2>1. CASE Unmarked(InReport(r)) = {}
        <3>1. desk'[r].pc = "done" /\ desk'[r].req = desk[r].req
            BY <1>1, <1>13, <2>1 DEF ReadMarks, Desk
        <3> QED
            BY <1>3, <1>13, <3>1 DEF ReadMarks, Doing
    <2> QED
        BY <1>2, <1>13, <2>1 DEF ReadMarks
<1>14. CASE ReadSheet(r)
    <2>1. PICK a \in desk[r].todo :
             \/ Answer(r, 500)
             \/ desk' = [desk EXCEPT ![r].todo = @ \ {a}, ![r].sheets[a] = answers[a],
                              ![r].seen = IF answers[a] = NoAnswers THEN @ ELSE @ \cup {a}]
        BY <1>14 DEF ReadSheet
    <2>2. CASE desk' = [desk EXCEPT ![r].todo = @ \ {a}, ![r].sheets[a] = answers[a],
                              ![r].seen = IF answers[a] = NoAnswers THEN @ ELSE @ \cup {a}]
        <3>1. desk'[r].pc = desk[r].pc /\ desk'[r].req = desk[r].req
            BY <1>1, <2>2 DEF Desk
        <3> QED
            BY <1>3, <1>14, <3>1 DEF ReadSheet, Doing
    <2> QED
        BY <1>2, <2>1, <2>2
<1> QED
    BY <1>4, <1>5, <1>6, <1>7, <1>8, <1>9, <1>10, <1>11, <1>12, <1>13, <1>14 DEF ReaderStep

LEMMA ReaderOrderSafe ==
    ASSUME OrderInv, NEW r \in Readers, ReaderStep(r), NEW v \in Readers
    PROVE  OrderSafe(v)'
<1>1. ReportInv /\ OrderSafe(v) /\ links' = links /\ DesksInv
    BY ReaderFrame DEF OrderInv, ReportInv, vars, dbVars, testVars
<1>2. CASE PlaceQuest(r)
    <2>1. CASE v = r
        BY <1>1, <1>2, <2>1, PlaceOrderSafe
    <2>2. CASE v # r
        <3>1. desk[v] \in Desk /\ desk[v].kept \subseteq LinkIds
            BY <1>1 DEF DesksInv, Desk
        <3>2. desk'[v] = [desk[v] EXCEPT !.kept = @ \ Placed(r)]
            BY <1>2, <2>2 DEF PlaceQuest
        <3>3. /\ desk'[v].pc = desk[v].pc /\ desk'[v].req = desk[v].req
              /\ desk'[v].next = desk[v].next /\ desk'[v].kept = desk[v].kept \ Placed(r)
            BY <3>1, <3>2 DEF Desk
        <3>4. \A l \in desk'[v].kept : order'[l] = order[l]
            BY <1>2, <3>1, <3>3 DEF PlaceQuest
        <3> QED
            BY <1>1, <3>3, <3>4, UndisturbedOrder
    <2> QED
        BY <2>1, <2>2
<1>3. CASE ~PlaceQuest(r) /\ v # r
    BY <1>1, <1>3, ReaderAlone, ReaderFrame, UndisturbedOrder
<1>4. CASE v = r
    BY <1>1, <1>4, MoverOrderSafe
<1> QED
    BY <1>2, <1>3, <1>4

LEMMA OrderInitInv == ReportInit => OrderInv
<1>1. ReportInit => \A r \in Readers : OrderSafe(r)
    BY DEF ReportInit, OrderSafe, IdleDesk
<1> QED
    BY <1>1, ReportInitInv DEF OrderInv

LEMMA OrderNextInv == OrderInv /\ [ReportNext]_rvars => OrderInv'
<1> SUFFICES ASSUME OrderInv, [ReportNext]_rvars, NEW v \in Readers PROVE OrderSafe(v)'
    BY ReportNextInv DEF OrderInv
<1>1. ReportInv /\ OrderSafe(v) /\ desk[v] \in Desk
    BY DEF OrderInv, ReportInv, DesksInv
<1>2. CASE ServerStep
    <2>1. desk'[v] = [desk[v] EXCEPT !.kept = {l \in @ : links'[l] = links[l]}]
          /\ order' = [l \in LinkIds |-> IF links'[l] = links[l] THEN order[l] ELSE NoOrder]
        BY <1>2 DEF ServerStep
    <2>2. /\ desk'[v].pc = desk[v].pc /\ desk'[v].req = desk[v].req
          /\ desk'[v].next = desk[v].next
          /\ desk'[v].kept = {l \in desk[v].kept : links'[l] = links[l]}
          /\ desk[v].kept \subseteq LinkIds
        BY <1>1, <2>1 DEF Desk
    <2> QED
        BY <1>1, <2>1, <2>2, UndisturbedOrder
<1>3. CASE Death
    BY <1>3, DeathStops DEF OrderSafe, IdleDesk
<1>4. CASE UNCHANGED rvars
    BY <1>1, <1>4, UndisturbedOrder DEF rvars, vars, dbVars, testVars
<1> QED
    BY <1>2, <1>3, <1>4, ReportNextCases, ReaderOrderSafe

(* set_quest_order_info keeps its promise: see OrderOkMeansPlaced.         *)
THEOREM OrderPlaced == ReportSpec => []OrderOkMeansPlaced
<1>1. OrderInv => OrderOkMeansPlaced
    <2> SUFFICES ASSUME OrderInv, NEW r \in Readers, Replied(r, "order"),
                        NEW l \in desk[r].kept, NEW i \in DOMAIN desk[r].req.list,
                        links[l].quest = desk[r].req.list[i],
                        \A k \in DOMAIN desk[r].req.list :
                           k > i => desk[r].req.list[k] # desk[r].req.list[i]
                 PROVE  order[l] = i
        BY DEF OrderOkMeansPlaced
    <2>1. /\ desk[r].pc = "done" /\ desk[r].req.op = "order" /\ desk[r] \in Desk
          /\ desk[r].req \in ReportReq /\ desk[r].req # Nil /\ desk[r].next >= 1
        BY AtWork DEF Replied, OrderInv, ReportInv, DesksInv, DeskWellFormed
    <2>2. PlacedSoFar(r) /\ desk[r].next \notin DOMAIN desk[r].req.list
        BY <2>1 DEF OrderInv, OrderSafe
    <2>3. desk[r].req.list \in Lists /\ desk[r].next \in Nat
        BY <2>1, ReportReqFields DEF Desk
    <2>4. PICK m \in Nat : DOMAIN desk[r].req.list = 1 .. m
        BY <2>3, ListDomain
    <2>5. i < desk[r].next
        BY <2>1, <2>2, <2>3, <2>4
    <2> QED
        BY <2>2, <2>5 DEF PlacedSoFar
<1> QED
    BY <1>1, OrderInitInv, OrderNextInv, PTL DEF ReportSpec

-----------------------------------------------------------------------------
(* What the other handlers keep true they keep true beside the reports.    *)

\* What a step of the whole server is for the tables and the jobs.
TableInv == ReportInv /\ SheetInv

LEMMA TableNext ==
    ASSUME TableInv, [ReportNext]_rvars
    PROVE  /\ TableInv'
           /\ [MortalNext]_vars
           /\ Calm \/ \E w \in Workers : Step(w)
BY ReportNextInv, ReportNextIsMortal, NextSheetInv, NextCases
   DEF TableInv, SheetInv, DrainInv

LEMMA TableInvariant == ReportSpec => []TableInv
<1>1. ReportInit => TableInv
    BY ReportInitInv, InitSheetInv DEF TableInv, ReportInit
<1>2. TableInv /\ [ReportNext]_rvars => TableInv'
    BY TableNext
<1> QED
    BY <1>1, <1>2, PTL DEF ReportSpec

\* Rows stay with their tests.
LEMMA TableAdvances ==
    ASSUME TableInv, [ReportNext]_rvars
    PROVE  \A a \in AttemptIds : Advances(a)
BY TableNext, NextJobsInv DEF TableInv, SheetInv, DrainInv

-----------------------------------------------------------------------------
(* Reports that fail for good.                                             *)

LEMMA OrphanedNext ==
    ASSUME TableInv, [ReportNext]_rvars, NEW a \in AttemptIds, Orphaned(a)
    PROVE  Orphaned(a)'
<1>1. CASE Calm
    BY <1>1, CalmOrphaned
<1> QED
    BY <1>1, TableNext, OrphanedStep DEF TableInv, SheetInv

\* A desk as it was, apart from kept.
SameDesk(r) ==
    /\ desk'[r].pc = desk[r].pc /\ desk'[r].req = desk[r].req
    /\ desk'[r].code = desk[r].code /\ desk'[r].all = desk[r].all
    /\ desk'[r].todo = desk[r].todo /\ desk'[r].seen = desk[r].seen
    /\ desk'[r].marks = desk[r].marks /\ desk'[r].sheets = desk[r].sheets

\* What a step of the other handlers, or the end of the process, does to a desk.
LEMMA DeskBeside ==
    ASSUME TableInv, NEW r \in Readers,
           ServerStep \/ Death \/ UNCHANGED rvars
    PROVE  SameDesk(r) \/ desk'[r] = IdleDesk
<1>1. desk[r] \in Desk
    BY DEF TableInv, ReportInv, DesksInv
<1>2. CASE ServerStep
    <2>1. desk'[r] = [desk[r] EXCEPT !.kept = {l \in @ : links'[l] = links[l]}]
        BY <1>2 DEF ServerStep
    <2> QED
        BY <1>1, <2>1 DEF Desk, SameDesk
<1> QED
    BY <1>2, DeathStops DEF rvars, SameDesk

\* And what another reader does to it.
LEMMA DeskOfAnother ==
    ASSUME TableInv, NEW r \in Readers, ReaderStep(r), NEW v \in Readers, v # r
    PROVE  SameDesk(v)
<1>a. desk \in [Readers -> Desk] /\ DesksInv
    BY DEF TableInv, ReportInv, DesksInv
<1>1. desk'[v] = desk[v] \/ PlaceQuest(r)
    BY <1>a, ReaderAlone
<1>2. CASE PlaceQuest(r)
    <2>1. desk'[v] = [desk[v] EXCEPT !.kept = @ \ Placed(r)]
        BY <1>2 DEF PlaceQuest
    <2> QED
        BY <1>a, <2>1 DEF Desk, SameDesk
<1> QED
    BY <1>1, <1>2 DEF SameDesk

\* The reply of get_user_marks on all rows is that no row lacks a mark.
LEMMA MarksReplied ==
    ASSUME TableInv, NEW r \in Readers, ReaderStep(r), NEW v \in Readers,
           Replied(v, "marks")', desk'[v].all
    PROVE  \/ Replied(v, "marks") /\ desk[v].all /\ desk'[v].req = desk[v].req
           \/ desk'[v].req = desk[v].req /\ desk[v].all /\ Unmarked(InReport(v)) = {}
<1>a. /\ desk \in [Readers -> Desk] /\ DesksInv
      /\ \A x \in Readers : desk[x].pc # "idle" => desk[x].req # Nil
    BY DEF TableInv, ReportInv, DesksInv, DeskWellFormed
<1>1. CASE v # r
    BY <1>1, DeskOfAnother DEF SameDesk, Replied
<1>2. CASE v = r
    <2> DEFINE Answered == \E code \in Int : Answer(r, code)
    <2>1. ~Answered
        <3> SUFFICES ASSUME NEW code \in Int, Answer(r, code) PROVE FALSE
            OBVIOUS
        <3> QED
            BY <1>a, <1>2 DEF Answer, IdleDesk
    <2>2. CASE ReadMarks(r)
        <3>1. /\ Unmarked(InReport(r)) = {}
              /\ desk'[r].req = desk[r].req /\ desk'[r].all = desk[r].all
            BY <1>a, <2>1, <2>2 DEF ReadMarks, Desk
        <3> QED
            BY <1>2, <3>1
    <2>3. CASE OrderReply(r) \/ SheetsReply(r)
        BY <1>a, <1>2, <2>3 DEF OrderReply, SheetsReply, Doing, Replied, Desk
    <2>4. CASE Take(r)
        BY <1>a, <1>2, <2>4 DEF Take, Replied, IdleDesk
    <2>5. CASE Release(r)
        BY <1>a, <1>2, <2>5 DEF Release, Replied, IdleDesk
    <2>6. CASE PlaceQuest(r)
        <3>1. desk'[r] = [desk[r] EXCEPT !.next = @ + 1] /\ desk[r].pc = "place"
            BY <1>a, <2>6 DEF PlaceQuest, Doing
        <3> QED
            BY <1>a, <1>2, <3>1 DEF Replied, Desk
    <2>7. CASE \/ AdmitOrder(r) \/ AdmitTakers(r) \/ AdmitMarks(r) \/ AdmitAnswers(r)
               \/ AdmitGet(r)
        <3>1. ASSUME NEW op, NEW lesser, NEW next \in {"place", "query"},
                     Admit(r, op, lesser, next)
              PROVE  desk'[r].pc \in {"place", "query"}
            <4> DEFINE q == desk[r].req
            <4>1. PICK code \in ValidateWithBlockHandle(q.subject,
                                    Permission(op) \in ReportGrants[q.subject]),
                       owner \in MatchCourseIdOwner(CourseOf[q.test]), other \in lesser :
                     IF code = 200 \/ (code = 403 /\ (owner \/ other))
                     THEN desk' = [desk EXCEPT ![r].pc = next,
                             ![r].all = code = 200 \/ owner,
                             ![r].kept = {l \in LinkIds :
                                             op = "order" /\ LinksOf(q.test)[l] # Nil}]
                     ELSE Answer(r, code)
                BY <3>1 DEF Admit
            <4>2. ~Answer(r, code)
                BY <2>1, <4>1, ValidateCodes DEF Codes
            <4> QED
                BY <1>a, <4>1, <4>2 DEF Desk
        <3> QED
            BY <1>2, <2>7, <3>1 DEF AdmitOrder, AdmitTakers, AdmitMarks, AdmitAnswers,
               AdmitGet, Replied
    <2>8. CASE Fail(r) \/ ListTakers(r) \/ ReadAttempts(r) \/ ReadSheet(r)
               \/ FindAttempt(r) \/ GetSheet(r)
        <3>1. CASE Fail(r) \/ ListTakers(r) \/ GetSheet(r)
            BY <2>1, <3>1 DEF Fail, ListTakers, GetSheet
        <3>2. CASE ReadAttempts(r)
            BY <1>a, <1>2, <2>1, <3>2 DEF ReadAttempts, Replied, Desk
        <3>3. CASE ReadSheet(r)
            BY <1>a, <1>2, <2>1, <3>3 DEF ReadSheet, Replied, Desk, Doing
        <3>4. CASE FindAttempt(r)
            BY <1>a, <1>2, <3>4 DEF FindAttempt, Replied, Desk
        <3> QED
            BY <2>8, <3>1, <3>2, <3>3, <3>4
    <2> QED
        BY <2>2, <2>3, <2>4, <2>5, <2>6, <2>7, <2>8 DEF ReaderStep
<1> QED
    BY <1>1, <1>2

(* An orphaned attempt makes get_user_marks fail for good: see             *)
(* OrphanBlocksMarks (TestRestController.cpp:188-206).                     *)
THEOREM OrphansBlockMarks == ReportSpec => OrphanBlocksMarks
<1>1. ASSUME TableInv, [ReportNext]_rvars, NEW t \in Tests, MarksUnreportable(t)
      PROVE  MarksUnreportable(t)'
    <2>1. PICK a \in Rows(t) : Orphaned(a)
        BY <1>1 DEF MarksUnreportable
    <2>2. a \in AttemptIds
        BY DEF Rows
    <2>3. a \in Rows(t)' /\ Orphaned(a)'
        BY <1>1, <2>1, <2>2, TableAdvances, OrphanedNext, RowsStay
    <2>4. ASSUME NEW v \in Readers, Replied(v, "marks")', desk'[v].all, desk'[v].req.test = t
          PROVE  FALSE
        <3>1. CASE ServerStep \/ Death \/ UNCHANGED rvars
            BY <1>1, <2>4, <3>1, DeskBeside DEF MarksUnreportable, Replied, IdleDesk, SameDesk
        <3>2. ASSUME NEW r \in Readers, ReaderStep(r) PROVE FALSE
            <4>1. desk[v].all /\ desk[v].req.test = t /\ Unmarked(InReport(v)) = {}
                BY <1>1, <2>4, <3>2, MarksReplied DEF MarksUnreportable
            <4>2. a \in InReport(v)
                BY <2>1, <4>1 DEF InReport, Completed, Orphaned
            <4> QED
                BY <2>1, <4>1, <4>2 DEF Unmarked, Orphaned
        <3> QED
            BY <1>1, <3>1, <3>2, ReportNextCases
    <2> QED
        BY <2>3, <2>4 DEF MarksUnreportable
<1>2. TableInv /\ [ReportNext]_rvars =>
         [\A t \in Tests : MarksUnreportable(t) => MarksUnreportable(t)']_rvars
    BY <1>1
<1> QED
    BY <1>2, TableInvariant, PTL DEF ReportSpec, OrphanBlocksMarks

LEMMA BlankStep ==
    ASSUME TableInv, NEW w \in Workers, Step(w), NEW a \in AttemptIds, Blank(a)
    PROVE  Blank(a)'
<1> DEFINE r == job[w].req
<1>a. /\ SheetInv /\ JobsInv /\ InOrder(w) /\ Guarded(w) /\ attempts[a] # Nil /\ Advances(a)
      /\ job'[w].req = r
    BY StepFacts DEF TableInv, SheetInv, Blank, Advanced, Guarded, Moves
<1>1. PICK l \in LinkIds : answers[a][l] # Nil
                           /\ answers[a][l].answer \notin Options[answers[a][l].quest]
    BY DEF Blank
<1>2. answers'[a][l] = answers[a][l]
    <2>1. CASE SetWrite(w)
        <3>1. r.op = "set" /\ job[w].pc = "write"
            BY <2>1 DEF SetWrite, At
        <3>2. a # r.attempt
            BY <1>a, <3>1 DEF InOrder, Blank, Busy
        <3> QED
            BY <1>a, <2>1, <3>2, AnsweredRows
    <2>2. CASE CreateInsertAnswer(w)
        <3>1. PICK k \in LinkIds :
                 /\ answers[job[w].attempt][k] = Nil
                 /\ \A b \in AttemptIds, j \in LinkIds :
                       b # job[w].attempt \/ j # k => answers'[b][j] = answers[b][j]
            BY <1>a, <2>2, InsertedRow
        <3> QED
            BY <1>1, <3>1
    <2>3. CASE answers' = answers
        BY <2>3
    <2> QED
        BY <1>a, <2>1, <2>2, <2>3, SheetCases DEF EditsAttempt, CreateInsert,
           CreateReadLinks, FinishComplete, FinishGrade, FinishMark, Resting, dbVars, examVars
<1>3. ASSUME NEW v \in Workers, Busy(v)', job'[v].req.op = "set", job'[v].req.attempt = a
      PROVE  job'[v].pc = "row" \/ job'[v].completed
    <2>1. CASE v # w
        BY <1>a, <1>3, <2>1 DEF Blank, Guarded, Moves, Busy
    <2>2. CASE v = w
        BY <1>a, <1>3, <2>2 DEF Blank, Guarded, Access, Sitting, Busy
    <2> QED
        BY <2>1, <2>2
<1> QED
    BY <1>a, <1>1, <1>2, <1>3 DEF Blank, Advances

LEMMA BlankNext ==
    ASSUME TableInv, [ReportNext]_rvars, NEW a \in AttemptIds, Blank(a)
    PROVE  Blank(a)'
<1>1. CASE Calm
    <2>1. attempts' = attempts /\ answers' = answers
        BY <1>1 DEF Calm, dbVars, examVars
    <2>2. ASSUME NEW v \in Workers, Busy(v)', job'[v].req.op = "set",
                 job'[v].req.attempt = a
          PROVE  job'[v].pc = "row" \/ job'[v].completed
        BY <1>1, <2>2 DEF Calm, Fresh, Blank, Busy
    <2> QED
        BY <2>1, <2>2 DEF Blank
<1> QED
    BY <1>1, TableNext, BlankStep

\* The desk's report of t, if it is one, has not got past attempt a.
Behind(r, t, a) ==
    desk[r].req # Nil /\ desk[r].req.op = "answers" /\ desk[r].req.test = t
    => \/ desk[r].pc \in {"auth", "query"}
       \/ desk[r].pc = "sheets" /\ a \in desk[r].todo
       \/ desk[r].pc = "done" /\ desk[r].code # 200

LEMMA ReaderBehind ==
    ASSUME TableInv, NEW r \in Readers, ReaderStep(r), NEW t \in Tests, NEW a \in Rows(t),
           Blank(a), Behind(r, t, a)
    PROVE  Behind(r, t, a)'
<1>a. /\ desk \in [Readers -> Desk]
      /\ desk[r].pc # "idle" => desk[r].req # Nil
    BY DEF TableInv, ReportInv, DesksInv, DeskWellFormed
<1>1. ASSUME NEW code \in Int, code # 200, Answer(r, code) PROVE Behind(r, t, a)'
    BY <1>a, <1>1 DEF Answer, Behind, IdleDesk
<1> SUFFICES ASSUME desk'[r].req # Nil, desk'[r].req.op = "answers", desk'[r].req.test = t,
                    ~ \E code \in Int : code # 200 /\ Answer(r, code)
             PROVE  Behind(r, t, a)'
    BY <1>1 DEF Behind
<1>2. CASE Take(r)
    BY <1>a, <1>2 DEF Take, IdleDesk, Behind
<1>3. CASE Release(r)
    BY <1>a, <1>3 DEF Release, IdleDesk
<1>4. CASE AdmitAnswers(r)
    <2>1. desk'[r].pc = "query"
        BY <1>a, <1>4, ValidateCodes DEF AdmitAnswers, Admit, Desk, Codes
    <2> QED
        BY <2>1 DEF Behind
<1>5. CASE ReadAttempts(r)
    <2>1. desk' = [desk EXCEPT ![r].pc = "sheets", ![r].todo = InReport(r)] /\ desk[r].all
        BY <1>5 DEF ReadAttempts
    <2>2. desk'[r].pc = "sheets" /\ desk'[r].todo = InReport(r) /\ desk[r].req.test = t
        BY <1>a, <2>1 DEF Desk
    <2>3. a \in InReport(r)
        BY <2>1, <2>2 DEF InReport, Completed, Blank
    <2> QED
        BY <2>2, <2>3 DEF Behind
<1>6. CASE ReadSheet(r)
    <2>0. ~Answer(r, 500)
        OBVIOUS
    <2>1. PICK b \in desk[r].todo :
             /\ \A l \in LinkIds : ~Textless(answers[b][l])
             /\ Unlisted(answers[b]) = {}
             /\ desk' = [desk EXCEPT ![r].todo = @ \ {b}, ![r].sheets[b] = answers[b],
                            ![r].seen = IF answers[b] = NoAnswers THEN @ ELSE @ \cup {b}]
        BY <1>6, <2>0 DEF ReadSheet
    <2>2. b # a
        BY <2>1 DEF Blank, Textless, Unlisted
    <2>3. /\ desk'[r].todo = desk[r].todo \ {b} /\ desk'[r].pc = desk[r].pc
          /\ desk'[r].req = desk[r].req /\ desk[r].pc = "sheets"
        BY <1>a, <1>6, <2>1 DEF Desk, ReadSheet, Doing
    <2> QED
        BY <2>2, <2>3 DEF Behind
<1>7. CASE SheetsReply(r)
    BY <1>a, <1>7 DEF SheetsReply, Doing, Behind, Desk
<1>8. CASE Fail(r)
    BY <1>8 DEF Fail
<1>b. ASSUME NEW code, Answer(r, code), desk[r].req.op # "answers" PROVE FALSE
    BY <1>a, <1>b DEF Answer, IdleDesk
<1>9. CASE AdmitOrder(r) \/ AdmitTakers(r) \/ AdmitMarks(r) \/ AdmitGet(r)
    <2>1. ASSUME NEW op, op # "answers", NEW lesser, NEW next, Admit(r, op, lesser, next)
          PROVE  FALSE
        BY <1>a, <1>b, <2>1 DEF Admit, Doing, Desk
    <2> QED
        BY <1>9, <2>1 DEF AdmitOrder, AdmitTakers, AdmitMarks, AdmitGet
<1>10. CASE ListTakers(r) \/ GetSheet(r)
    BY <1>b, <1>10 DEF ListTakers, GetSheet, Doing
<1>11. CASE OrderReply(r) \/ FindAttempt(r)
    BY <1>a, <1>11 DEF OrderReply, FindAttempt, Doing, Desk
<1>12. CASE PlaceQuest(r)
    <2>1. desk'[r] = [desk[r] EXCEPT !.next = @ + 1] /\ desk[r].req.op = "order"
        BY <1>a, <1>12 DEF PlaceQuest, Doing
    <2> QED
        BY <1>a, <2>1 DEF Desk
<1>13. CASE ReadMarks(r)
    BY <1>a, <1>b, <1>13 DEF ReadMarks, Doing, Desk
<1> QED
    BY <1>2, <1>3, <1>4, <1>5, <1>6, <1>7, <1>8, <1>9, <1>10, <1>11,
       <1>12, <1>13 DEF ReaderStep

(* A completed attempt with an answer that has no text makes               *)
(* get_user_answers fail for good: see BlankBlocksAnswers                  *)
(* (TestRestController.cpp:246-271).                                       *)
THEOREM BlanksBlockAnswers == ReportSpec => BlankBlocksAnswers
<1>1. ASSUME TableInv, [ReportNext]_rvars, NEW t \in Tests, AnswersUnreportable(t)
      PROVE  AnswersUnreportable(t)'
    <2>1. PICK a \in Rows(t) : Blank(a) /\ \A v \in Readers : Behind(v, t, a)
        BY <1>1 DEF AnswersUnreportable, Behind
    <2>2. a \in AttemptIds
        BY DEF Rows
    <2>3. a \in Rows(t)' /\ Blank(a)'
        BY <1>1, <2>1, <2>2, TableAdvances, BlankNext, RowsStay
    <2>4. ASSUME NEW v \in Readers PROVE Behind(v, t, a)'
        <3>1. CASE SameDesk(v)
            BY <2>1, <3>1 DEF SameDesk, Behind
        <3>2. CASE desk'[v] = IdleDesk
            BY <3>2 DEF IdleDesk, Behind
        <3>3. CASE ReaderStep(v)
            BY <1>1, <2>1, <3>3, ReaderBehind
        <3> QED
            BY <1>1, <3>1, <3>2, <3>3, ReportNextCases, DeskBeside, DeskOfAnother
    <2> QED
        BY <2>3, <2>4 DEF AnswersUnreportable, Behind
<1>2. TableInv /\ [ReportNext]_rvars =>
         [\A t \in Tests : AnswersUnreportable(t) => AnswersUnreportable(t)']_rvars
    BY <1>1
<1> QED
    BY <1>2, TableInvariant, PTL DEF ReportSpec, BlankBlocksAnswers

-----------------------------------------------------------------------------
(* Orphans come from deaths.                                               *)

\* An attempt a finish has completed and not marked is orphaned, or that finish
\* is still at work.
GradedInv == \A a \in AttemptIds :
                Unfinished(a) => Orphaned(a) \/ \E w \in Workers : Grading(w, a)

\* Before and after a step of the other handlers.
LEMMA ServerGrades ==
    ASSUME TableInv, TableInv', ~Faults, ServerStep, GradedInv, NEW a \in AttemptIds,
           Unfinished(a)'
    PROVE  \/ Orphaned(a) /\ Orphaned(a)'
           \/ ~Orphaned(a)' /\ \E w \in Workers : Grading(w, a)'
<1>1. PICK w \in Workers : Receive(w) \/ Step(w) \/ Respond(w)
    BY DEF ServerStep, Abort
<1>a. ASSUME NEW v \in Workers, Grading(v, a)' PROVE ~Orphaned(a)'
    BY <1>a DEF TableInv, SheetInv, DrainInv, InOrder, Grading, Orphaned, Busy
<1>2. CASE Unfinished(a)
    <2>1. CASE Orphaned(a)
        <3>1. [ReportNext]_rvars
            BY DEF ReportNext
        <3> QED
            BY <2>1, <3>1, OrphanedNext
    <2>2. ASSUME NEW v \in Workers, Grading(v, a)
          PROVE  Grading(v, a)' /\ ~Orphaned(a)'
        <3>1. Grading(v, a)'
            BY <1>1, <2>2, GradingGoesOn DEF TableInv, SheetInv
        <3> QED
            BY <1>a, <3>1
    <2> QED
        BY <1>2, <2>1, <2>2 DEF GradedInv
<1>3. CASE ~Unfinished(a)
    <2>1. Step(w)
        BY <1>1, <1>3 DEF Receive, Respond, dbVars, examVars, Unfinished
    <2>2. Grading(w, a)'
        BY <1>3, <2>1, BecomesUnfinished DEF TableInv, SheetInv
    <2> QED
        BY <1>a, <2>2
<1> QED
    BY <1>2, <1>3

(* With calls that do not fail, an attempt is orphaned by a death only,    *)
(* be it a restart or the [0] of a test, an attempt, a question or a       *)
(* version that is not there: see OrphanedByDeathOnly                      *)
(* (AttemptRestController.cpp:133-160, 177, 192; TestRestController.cpp:17,*)
(* 99, 259).                                                               *)
THEOREM OrphansByDeath == ASSUME ~Faults PROVE ReportSpec => OrphanedByDeathOnly
<1>1. ReportInit => GradedInv
    BY DEF ReportInit, Init, GradedInv, Unfinished
<1>2. ASSUME TableInv, GradedInv, [ReportNext]_rvars, NEW a \in AttemptIds
      PROVE  /\ Unfinished(a)' => Orphaned(a)' \/ \E w \in Workers : Grading(w, a)'
             /\ ~Orphaned(a) /\ Orphaned(a)' => Death
    <2>1. CASE ServerStep
        <3>1. Orphaned(a)' => Unfinished(a)'
            BY DEF Orphaned, Unfinished
        <3> QED
            BY <1>2, <2>1, <3>1, TableNext, ServerGrades
    <2>2. CASE UNCHANGED vars /\ ~ServerStep
        <3>1. (Orphaned(a)' <=> Orphaned(a)) /\ (Unfinished(a)' <=> Unfinished(a))
            BY <2>2 DEF vars, dbVars, examVars, Orphaned, Unfinished, Busy
        <3>2. \A w \in Workers : Grading(w, a) => Grading(w, a)'
            BY <2>2 DEF vars, Grading
        <3> QED
            BY <1>2, <3>1, <3>2 DEF GradedInv
    <2>3. CASE Death
        <3>1. \A w \in Workers : job'[w].pc = "idle"
            BY <2>3, DeathStops DEF Stop, IdleJob
        <3>2. Unfinished(a)' => Orphaned(a)'
            BY <3>1 DEF Unfinished, Orphaned, Busy
        <3> QED
            BY <2>3, <3>2
    <2> QED
        BY <1>2, <2>1, <2>2, <2>3, ReportNextCases, ReaderFrame DEF rvars
<1>3. TableInv /\ GradedInv /\ [ReportNext]_rvars => GradedInv'
    BY <1>2 DEF GradedInv
<1>4. TableInv /\ GradedInv /\ [ReportNext]_rvars =>
         [\A a \in AttemptIds : ~Orphaned(a) /\ Orphaned(a)' => Death]_rvars
    BY <1>2
<1> QED
    BY <1>1, <1>3, <1>4, TableInvariant, PTL DEF ReportSpec, OrphanedByDeathOnly

-----------------------------------------------------------------------------
(* What reports show.                                                      *)

LEMMA SerialNext ==
    ASSUME TableInv, SerialInv, ~Pipelined, [ReportNext]_rvars PROVE SerialInv'
BY TableNext, NextSerialInv

Final(a) ==
    attempts[a] # Nil /\ attempts[a].completed =>
        /\ attempts'[a] # Nil /\ attempts'[a].completed /\ answers'[a] = answers[a]
        /\ attempts[a].mark # NoMark => attempts'[a].mark = attempts[a].mark

LEMMA FinalStep ==
    ASSUME SerialInv, NEW w \in Workers, Step(w), NEW a \in AttemptIds PROVE Final(a)
<1> DEFINE r == job[w].req
<1> SUFFICES ASSUME attempts[a] # Nil, attempts[a].completed PROVE Final(a)
    BY DEF Final
<1>a. /\ SheetInv /\ DrainInv /\ JobsInv /\ InOrder(w) /\ UpToDate(w) /\ JobSafe(w)
      /\ Advances(a) /\ r # Nil /\ TypeOK
    BY StepFacts DEF SerialInv, SheetInv, Advanced
<1>1. attempts[a].mark # NoMark => attempts'[a].mark = attempts[a].mark
    <2> SUFFICES ASSUME attempts[a].mark # NoMark, attempts'[a] # attempts[a] PROVE FALSE
        OBVIOUS
    <2>1. job[w].pc \in {"complete", "mark"} /\ r.attempt = a
        BY <1>a, ChangeIsAdmitted DEF Changed
    <2>2. r.op = "finish" /\ (job[w].pc = "complete" => ~job[w].completed)
        BY <1>a, <2>1 DEF InOrder
    <2>3. attempts[a].user = r.subject
        BY <1>a, <2>1, <2>2 DEF JobSafe, ActsForOwner
    <2> QED
        BY <1>a, <2>1, <2>2, <2>3 DEF UpToDate
<1>2. answers'[a] = answers[a]
    <2>1. CASE SetWrite(w)
        <3>1. r.op = "set" /\ job[w].pc = "write" /\ ~job[w].completed
            BY <1>a, <2>1 DEF SetWrite, At, InOrder
        <3>2. r.attempt # a
            BY <1>a, <3>1 DEF JobSafe, ActsForOwner, UpToDate
        <3> QED
            BY <1>a, <2>1, <3>2, AnsweredRows
    <2>2. CASE CreateInsertAnswer(w)
        <3>1. r.op = "create" /\ job[w].pc = "answers"
            BY <2>2 DEF CreateInsertAnswer, At
        <3>2. job[w].attempt # a
            BY <1>a, <3>1 DEF UpToDate
        <3> QED
            BY <1>a, <2>2, <3>2 DEF CreateInsertAnswer, TypeOK, TablesTypeOK
    <2>3. CASE answers' = answers
        BY <2>3
    <2> QED
        BY <1>a, <2>1, <2>2, <2>3, SheetCases DEF EditsAttempt, CreateInsert,
           CreateReadLinks, FinishComplete, FinishGrade, FinishMark, Resting, dbVars, examVars
<1> QED
    BY <1>a, <1>1, <1>2 DEF Final, Advances

LEMMA FinalNext ==
    ASSUME TableInv, SerialInv, [ReportNext]_rvars, NEW a \in AttemptIds PROVE Final(a)
<1>1. CASE Calm
    BY <1>1 DEF Calm, dbVars, examVars, Final
<1> QED
    BY <1>1, TableNext, FinalStep

\* What a desk has read of completed attempts is so.
Shown(r) ==
    /\ desk[r].req.op = "marks" => \A a \in desk[r].seen :
          /\ attempts[a] # Nil /\ attempts[a].completed
          /\ attempts[a].mark # NoMark /\ attempts[a].mark = desk[r].marks[a]
    /\ desk[r].req.op = "answers" =>
          /\ \A a \in desk[r].seen : /\ attempts[a] # Nil /\ attempts[a].completed
                                     /\ answers[a] = desk[r].sheets[a]
          /\ \A a \in desk[r].todo : attempts[a] # Nil /\ attempts[a].completed

LEMMA SameShown ==
    ASSUME TableInv, NEW r \in Readers, Shown(r), SameDesk(r),
           \A a \in AttemptIds : Final(a)
    PROVE  Shown(r)'
<1>1. desk[r].seen \subseteq AttemptIds /\ desk[r].todo \subseteq AttemptIds
    BY DEF TableInv, ReportInv, DesksInv, Desk
<1> QED
    BY <1>1 DEF Shown, SameDesk, Final

LEMMA ReaderShown ==
    ASSUME TableInv, NEW r \in Readers, ReaderStep(r), Shown(r) PROVE Shown(r)'
<1>a. desk \in [Readers -> Desk] /\ UNCHANGED <<attempts, answers>>
    BY ReaderFrame DEF TableInv, ReportInv, DesksInv, vars, dbVars, examVars
<1>1. ASSUME desk'[r].seen = {}, desk'[r].todo = {} PROVE Shown(r)'
    BY <1>1 DEF Shown
<1>2. ASSUME NEW code, Answer(r, code) PROVE Shown(r)'
    BY <1>a, <1>1, <1>2 DEF Answer, IdleDesk
<1>3. ASSUME desk'[r].req = desk[r].req, desk'[r].seen = desk[r].seen,
             desk'[r].todo = desk[r].todo, desk'[r].marks = desk[r].marks,
             desk'[r].sheets = desk[r].sheets
      PROVE  Shown(r)'
    BY <1>a, <1>3 DEF Shown
<1>4. CASE Take(r) \/ Release(r)
    <2>1. IdleDesk.seen = {} /\ IdleDesk.todo = {}
        BY DEF IdleDesk
    <2>2. CASE Take(r)
        <3>1. PICK q \in ReportRequests :
                 desk' = [desk EXCEPT ![r] = [IdleDesk EXCEPT !.pc = "auth", !.req = q]]
            BY <2>2 DEF Take
        <3>2. desk'[r] = [IdleDesk EXCEPT !.pc = "auth", !.req = q]
            BY <1>a, <3>1
        <3> QED
            BY <1>1, <3>2 DEF IdleDesk
    <2>3. CASE Release(r)
        BY <1>a, <1>1, <2>1, <2>3 DEF Release
    <2> QED
        BY <1>4, <2>2, <2>3
<1>5. CASE \/ AdmitOrder(r) \/ AdmitTakers(r) \/ AdmitMarks(r) \/ AdmitAnswers(r)
           \/ AdmitGet(r)
    <2>1. ASSUME NEW op, NEW lesser, NEW next, Admit(r, op, lesser, next) PROVE Shown(r)'
        BY <1>a, <1>2, <1>3, <2>1 DEF Admit, Desk
    <2> QED
        BY <1>5, <2>1 DEF AdmitOrder, AdmitTakers, AdmitMarks, AdmitAnswers, AdmitGet
<1>6. CASE OrderReply(r) \/ SheetsReply(r)
    BY <1>a, <1>3, <1>6 DEF OrderReply, SheetsReply, Desk
<1>7. CASE PlaceQuest(r)
    <2>1. desk'[r] = [desk[r] EXCEPT !.next = @ + 1]
        BY <1>a, <1>7 DEF PlaceQuest
    <2> QED
        BY <1>a, <1>3, <2>1 DEF Desk
<1>8. CASE Fail(r) \/ ListTakers(r) \/ GetSheet(r)
    BY <1>2, <1>8 DEF Fail, ListTakers, GetSheet
<1>9. CASE FindAttempt(r)
    <2>1. PICK a : desk' = [desk EXCEPT ![r].pc = "sheets", ![r].todo = {a}]
        BY <1>9 DEF FindAttempt
    <2>2. desk'[r].req.op = "get"
        BY <1>a, <1>9, <2>1 DEF FindAttempt, Doing, Desk
    <2> QED
        BY <2>2 DEF Shown
<1>10. CASE ReadMarks(r)
    <2> SUFFICES ASSUME ~Answer(r, 500) PROVE Shown(r)'
        BY <1>2
    <2>1. /\ Unmarked(InReport(r)) = {} /\ desk[r].req.op = "marks"
          /\ desk' = [desk EXCEPT ![r].pc = "done", ![r].code = 200, ![r].seen = InReport(r),
               ![r].marks = [a \in AttemptIds |-> IF a \in InReport(r)
                                                  THEN attempts[a].mark ELSE NoMark]]
        BY <1>10 DEF ReadMarks, Doing
    <2>2. /\ desk'[r].req = desk[r].req /\ desk'[r].seen = InReport(r)
          /\ desk'[r].marks = [a \in AttemptIds |-> IF a \in InReport(r)
                                                    THEN attempts[a].mark ELSE NoMark]
        BY <1>a, <2>1 DEF Desk
    <2>3. \A a \in InReport(r) : /\ a \in AttemptIds /\ attempts[a] # Nil
                                 /\ attempts[a].completed /\ attempts[a].mark # NoMark
        BY <2>1 DEF InReport, Completed, Rows, Unmarked
    <2> QED
        BY <1>a, <2>1, <2>2, <2>3 DEF Shown
<1>11. CASE ReadAttempts(r)
    <2> SUFFICES ASSUME desk' = [desk EXCEPT ![r].pc = "sheets", ![r].todo = InReport(r)]
                 PROVE  Shown(r)'
        BY <1>2, <1>11 DEF ReadAttempts
    <2>1. /\ desk'[r].req = desk[r].req /\ desk'[r].seen = desk[r].seen
          /\ desk'[r].todo = InReport(r) /\ desk'[r].sheets = desk[r].sheets
          /\ desk[r].req.op = "answers"
        BY <1>a, <1>11 DEF Desk, ReadAttempts, Doing
    <2>2. \A a \in InReport(r) : attempts[a] # Nil /\ attempts[a].completed
        BY DEF InReport, Completed, Rows
    <2> QED
        BY <1>a, <2>1, <2>2 DEF Shown
<1>12. CASE ReadSheet(r)
    <2> SUFFICES ASSUME ~Answer(r, 500) PROVE Shown(r)'
        BY <1>2
    <2>1. PICK b \in desk[r].todo :
             desk' = [desk EXCEPT ![r].todo = @ \ {b}, ![r].sheets[b] = answers[b],
                         ![r].seen = IF answers[b] = NoAnswers THEN @ ELSE @ \cup {b}]
        BY <1>12 DEF ReadSheet
    <2>2. /\ desk[r].req.op = "answers" /\ desk'[r].req = desk[r].req
          /\ desk'[r].todo = desk[r].todo \ {b}
          /\ desk'[r].seen \subseteq desk[r].seen \cup {b}
          /\ desk'[r].sheets = [desk[r].sheets EXCEPT ![b] = answers[b]]
        BY <1>a, <1>12, <2>1 DEF ReadSheet, Doing, Desk
    <2>3. b \in AttemptIds /\ desk[r].sheets \in [AttemptIds -> [LinkIds -> AnswerRow \cup {Nil}]]
          /\ desk[r].seen \subseteq AttemptIds
        BY <1>a DEF Desk
    <2> QED
        BY <1>a, <2>2, <2>3 DEF Shown
<1> QED
    BY <1>4, <1>5, <1>6, <1>7, <1>8, <1>9, <1>10, <1>11, <1>12 DEF ReaderStep

(* For students who wait for their answers a report shows what stays: see  *)
(* ReportsAreFinal (TestRestController.cpp:188-206, 235-271).              *)
THEOREM ReportsFinal == ASSUME ~Pipelined PROVE ReportSpec => []ReportsAreFinal
<1> DEFINE FinalInv == SerialInv /\ \A r \in Readers : Shown(r)
<1>1. ReportInit => FinalInv
    BY InitSerialInv DEF ReportInit, Shown, IdleDesk
<1>2. TableInv /\ FinalInv /\ [ReportNext]_rvars => FinalInv'
    <2> SUFFICES ASSUME TableInv, FinalInv, [ReportNext]_rvars, NEW v \in Readers
                 PROVE  Shown(v)'
        BY SerialNext
    <2>1. \A a \in AttemptIds : Final(a)
        BY FinalNext
    <2>2. CASE SameDesk(v)
        BY <2>1, <2>2, SameShown
    <2>3. CASE desk'[v] = IdleDesk
        BY <2>3 DEF IdleDesk, Shown
    <2>4. CASE ReaderStep(v)
        BY <2>4, ReaderShown
    <2> QED
        BY <2>2, <2>3, <2>4, ReportNextCases, DeskBeside, DeskOfAnother
<1>3. FinalInv => ReportsAreFinal
    BY DEF Shown, ReportsAreFinal
<1> QED
    BY <1>1, <1>2, <1>3, TableInvariant, PTL DEF ReportSpec

-----------------------------------------------------------------------------
(* That reports end.  How many steps a reader takes at most before its     *)
(* request is answered.                                                    *)

AtDesk(r) == desk[r].pc \notin {"idle", "done"}

ToPlace(r) == {i \in DOMAIN desk[r].req.list : i >= desk[r].next}

DeskLeft(r) ==
    LET pc == desk[r].pc
        rows == Cardinality(AttemptIds)
    IN  IF ~AtDesk(r) THEN 0 ELSE
        IF desk[r].req.op = "order"
        THEN Cardinality(ToPlace(r)) + (IF pc = "auth" THEN 2 ELSE 1) ELSE
        IF pc = "auth" THEN rows + 3 ELSE
        IF pc = "query" THEN rows + 2 ELSE Cardinality(desk[r].todo) + 1

LEMMA RowsFinite ==
    /\ Cardinality(AttemptIds) \in Nat
    /\ \A s \in SUBSET AttemptIds :
          /\ IsFiniteSet(s) /\ Cardinality(s) \in Nat
          /\ Cardinality(s) <= Cardinality(AttemptIds)
BY ConstantsAssumption, FS_Subset, FS_CardinalityType

LEMMA ToPlaceFinite ==
    ASSUME DesksInv, NEW r \in Readers, desk[r].pc # "idle", desk[r].req.op = "order"
    PROVE  IsFiniteSet(ToPlace(r)) /\ Cardinality(ToPlace(r)) \in Nat
<1>1. desk[r].req.list \in Lists
    BY AtWork, ReportReqFields
<1>2. PICK n \in Nat : DOMAIN desk[r].req.list = 1 .. n
    BY <1>1, ListDomain
<1>3. IsFiniteSet(1 .. n) /\ ToPlace(r) \subseteq 1 .. n
    BY <1>2, FS_Interval DEF ToPlace
<1> QED
    BY <1>3, FS_Subset, FS_CardinalityType

LEMMA DeskLeftType ==
    ASSUME DesksInv, NEW r \in Readers
    PROVE  DeskLeft(r) \in Nat /\ (DeskLeft(r) = 0 <=> ~AtDesk(r))
<1>1. desk[r].todo \in SUBSET AttemptIds
    BY DEF DesksInv, Desk
<1>2. desk[r].req.op = "order" /\ AtDesk(r) => Cardinality(ToPlace(r)) \in Nat
    BY ToPlaceFinite DEF AtDesk
<1> QED
    BY <1>1, <1>2, RowsFinite DEF DeskLeft

LEMMA DoneShrinks ==
    ASSUME DesksInv, NEW r \in Readers, AtDesk(r), desk'[r].pc \in {"idle", "done"}
    PROVE  DeskLeft(r)' < DeskLeft(r)
<1>1. DeskLeft(r) \in Nat /\ DeskLeft(r) # 0
    BY DeskLeftType
<1>2. DeskLeft(r)' = 0
    BY DEF DeskLeft, AtDesk
<1> QED
    BY <1>1, <1>2

LEMMA AnswerShrinks ==
    ASSUME DesksInv, NEW r \in Readers, AtDesk(r), NEW code, Answer(r, code)
    PROVE  DeskLeft(r)' < DeskLeft(r)
<1>1. desk'[r].pc = "done"
    BY DEF Answer, DesksInv, IdleDesk
<1> QED
    BY <1>1, DoneShrinks

LEMMA AdmitShrinks ==
    ASSUME DesksInv, NEW r \in Readers, NEW op, NEW lesser,
           NEW next \in {"place", "query"}, op = "order" <=> next = "place",
           Admit(r, op, lesser, next)
    PROVE  DeskLeft(r)' < DeskLeft(r)
<1>1. AtDesk(r) /\ desk[r].pc = "auth" /\ desk[r] \in Desk /\ desk[r].req.op = op
    BY AtWork DEF Admit, Doing, AtDesk
<1>2. (\E code : Answer(r, code))
      \/ /\ desk'[r].pc = next /\ desk'[r].req = desk[r].req
         /\ desk'[r].next = desk[r].next
    BY <1>1 DEF Admit, DesksInv, Desk
<1>3. CASE \E code : Answer(r, code)
    BY <1>1, <1>3, AnswerShrinks
<1>4. CASE /\ desk'[r].pc = next /\ desk'[r].req = desk[r].req
           /\ desk'[r].next = desk[r].next
    <2>1. ToPlace(r)' = ToPlace(r)
        BY <1>4 DEF ToPlace
    <2>2. op = "order" => Cardinality(ToPlace(r)) \in Nat
        BY <1>1, ToPlaceFinite
    <2> QED
        BY <1>1, <1>4, <2>1, <2>2, RowsFinite DEF DeskLeft, AtDesk
<1> QED
    BY <1>2, <1>3, <1>4

LEMMA PlaceShrinks ==
    ASSUME DesksInv, NEW r \in Readers, PlaceQuest(r)
    PROVE  DeskLeft(r)' < DeskLeft(r)
<1>1. /\ AtDesk(r) /\ desk[r].pc = "place" /\ desk[r] \in Desk /\ desk[r].req.op = "order"
      /\ desk[r].next \in DOMAIN desk[r].req.list /\ desk[r].req \in ReportReq
    BY AtWork DEF PlaceQuest, Doing, AtDesk
<1>2. desk'[r] = [desk[r] EXCEPT !.next = @ + 1]
    BY DEF PlaceQuest
<1>3. /\ desk'[r].pc = "place" /\ desk'[r].req = desk[r].req
      /\ desk'[r].next = desk[r].next + 1
    BY <1>1, <1>2, NextDesk DEF DesksInv, DeskWellFormed
<1>4. PICK n \in Nat : DOMAIN desk[r].req.list = 1 .. n
    BY <1>1, ReportReqFields, ListDomain
<1>5. desk[r].next \in Nat
    BY <1>1 DEF Desk
<1>6. ToPlace(r)' = ToPlace(r) \ {desk[r].next} /\ desk[r].next \in ToPlace(r)
    BY <1>1, <1>3, <1>4, <1>5 DEF ToPlace
<1>7. IsFiniteSet(ToPlace(r)) /\ Cardinality(ToPlace(r)) \in Nat
    BY <1>1, ToPlaceFinite DEF AtDesk
<1>8. Cardinality(ToPlace(r) \ {desk[r].next}) = Cardinality(ToPlace(r)) - 1
    BY <1>6, <1>7, FS_RemoveElement
<1> QED
    BY <1>1, <1>3, <1>6, <1>7, <1>8 DEF DeskLeft, AtDesk

LEMMA ReadShrinks ==
    ASSUME TypeInv, DesksInv, NEW r \in Readers,
           \/ ReadAttempts(r) \/ ReadSheet(r) \/ FindAttempt(r) \/ GetSheet(r)
    PROVE  DeskLeft(r)' < DeskLeft(r)
<1> USE DEF Doing
<1>1. AtDesk(r) /\ desk[r].req.op \in {"answers", "get"}
    BY DEF ReadAttempts, ReadSheet, FindAttempt, GetSheet, AtDesk
<1>2. desk[r] \in Desk /\ desk \in [Readers -> Desk]
    BY <1>1, AtWork DEF DesksInv, AtDesk
<1>3. ASSUME desk[r].pc = "query", NEW todo \in SUBSET AttemptIds,
             desk' = [desk EXCEPT ![r].pc = "sheets", ![r].todo = todo]
      PROVE  DeskLeft(r)' < DeskLeft(r)
    <2>1. /\ desk'[r].pc = "sheets" /\ desk'[r].todo = todo
          /\ desk'[r].req = desk[r].req
        BY <1>2, <1>3 DEF Desk
    <2> QED
        BY <1>1, <1>3, <2>1, RowsFinite DEF DeskLeft, AtDesk
<1>4. CASE ReadAttempts(r)
    BY <1>1, <1>3, <1>4, InReportType, AnswerShrinks DEF ReadAttempts
<1>5. CASE FindAttempt(r)
    <2>1. PICK a \in RowsOf(desk[r].req.user, desk[r].req.test) :
             desk' = [desk EXCEPT ![r].pc = "sheets", ![r].todo = {a}]
        BY <1>5 DEF FindAttempt
    <2>2. {a} \in SUBSET AttemptIds
        BY DEF RowsOf, Rows
    <2> QED
        BY <1>3, <1>5, <2>1, <2>2 DEF FindAttempt
<1>6. CASE GetSheet(r)
    BY <1>1, <1>6, AnswerShrinks DEF GetSheet
<1>7. CASE ReadSheet(r)
    <2>1. PICK a \in desk[r].todo :
             \/ Answer(r, 500)
             \/ desk' = [desk EXCEPT ![r].todo = @ \ {a}, ![r].sheets[a] = answers[a],
                            ![r].seen = IF answers[a] = NoAnswers THEN @ ELSE @ \cup {a}]
        BY <1>7 DEF ReadSheet
    <2>2. CASE Answer(r, 500)
        BY <1>1, <2>2, AnswerShrinks
    <2>3. CASE desk' = [desk EXCEPT ![r].todo = @ \ {a}, ![r].sheets[a] = answers[a],
                            ![r].seen = IF answers[a] = NoAnswers THEN @ ELSE @ \cup {a}]
        <3>1. /\ desk'[r].pc = desk[r].pc /\ desk'[r].req = desk[r].req
              /\ desk'[r].todo = desk[r].todo \ {a}
            BY <1>2, <2>3 DEF Desk
        <3>2. desk[r].todo \in SUBSET AttemptIds
            BY <1>2 DEF Desk
        <3>3. /\ Cardinality(desk[r].todo \ {a}) = Cardinality(desk[r].todo) - 1
              /\ Cardinality(desk[r].todo) \in Nat
            BY <3>2, RowsFinite, FS_RemoveElement
        <3> QED
            <4>1. desk[r].pc = "sheets" /\ desk[r].req.op = "answers"
                BY <1>7 DEF ReadSheet
            <4> QED
                BY <3>1, <3>3, <4>1 DEF DeskLeft, AtDesk
    <2> QED
        BY <2>1, <2>2, <2>3
<1> QED
    BY <1>4, <1>5, <1>6, <1>7

LEMMA ReportShrinks ==
    ASSUME TypeInv, DesksInv, NEW r \in Readers, ReportStep(r) \/ Fail(r)
    PROVE  DeskLeft(r)' < DeskLeft(r)
<1> USE DEF Doing
<1>1. AtDesk(r)
    BY DEF ReportStep, Fail, AdmitOrder, PlaceQuest, OrderReply, AdmitTakers, ListTakers,
           AdmitMarks, ReadMarks, AdmitAnswers, ReadAttempts, ReadSheet, SheetsReply,
           AdmitGet, FindAttempt, GetSheet, Admit, AtDesk
<1>2. CASE \/ AdmitOrder(r) \/ AdmitTakers(r) \/ AdmitMarks(r) \/ AdmitAnswers(r)
           \/ AdmitGet(r)
    BY <1>2, AdmitShrinks DEF AdmitOrder, AdmitTakers, AdmitMarks, AdmitAnswers, AdmitGet
<1>3. CASE PlaceQuest(r)
    BY <1>3, PlaceShrinks
<1>4. CASE ReadAttempts(r) \/ ReadSheet(r) \/ FindAttempt(r) \/ GetSheet(r)
    BY <1>4, ReadShrinks
<1>5. CASE ListTakers(r) \/ Fail(r)
    BY <1>1, <1>5, AnswerShrinks DEF ListTakers, Fail
<1>6. CASE OrderReply(r) \/ SheetsReply(r) \/ ReadMarks(r)
    <2>1. desk'[r].pc \in {"idle", "done"}
        <3>1. desk \in [Readers -> Desk] /\ desk[r] \in Desk
            BY DEF DesksInv
        <3>2. CASE OrderReply(r) \/ SheetsReply(r)
            BY <3>1, <3>2 DEF OrderReply, SheetsReply, Desk
        <3>3. CASE ReadMarks(r)
            <4>1. CASE Answer(r, 500)
                BY <3>1, <4>1 DEF Answer, IdleDesk
            <4>2. CASE ~Answer(r, 500)
                BY <3>1, <3>3, <4>2 DEF ReadMarks, Desk
            <4> QED
                BY <4>1, <4>2
        <3> QED
            BY <1>6, <3>2, <3>3
    <2> QED
        BY <1>1, <2>1, DoneShrinks
<1> QED
    BY <1>2, <1>3, <1>4, <1>5, <1>6 DEF ReportStep

ReportsBounded ==
    \A r \in Readers : DeskLeft(r) \in Nat /\ (DeskLeft(r) = 0 <=> ~AtDesk(r))

EachReportStepCounts ==
    \A r \in Readers : /\ ReportStep(r) \/ Fail(r) => DeskLeft(r)' < DeskLeft(r)
                       /\ AtDesk(r) => UNCHANGED DeskLeft(r)
                                       \/ DeskLeft(r)' < DeskLeft(r)

(* However many students hand in meanwhile, a report ends: its rows are    *)
(* those of its first query (TestRestController.cpp, get_user_answers), so *)
(* every call of the handler leaves it fewer, and nobody else's adds one.  *)
(* The order of a list of n questions takes n updates.                     *)
THEOREM ReportsEnd ==
    ReportSpec => []ReportsBounded /\ [][EachReportStepCounts]_rvars
<1>1. ASSUME TableInv, [ReportNext]_rvars, NEW r \in Readers, AtDesk(r)
      PROVE  UNCHANGED DeskLeft(r) \/ DeskLeft(r)' < DeskLeft(r)
    <2>a. DesksInv /\ TypeInv
        BY <1>1 DEF TableInv, ReportInv
    <2>1. ASSUME desk'[r].pc = desk[r].pc, desk'[r].req = desk[r].req,
                 desk'[r].next = desk[r].next, desk'[r].todo = desk[r].todo
          PROVE  DeskLeft(r)' = DeskLeft(r)
        BY <2>1 DEF DeskLeft, AtDesk, ToPlace
    <2>2. ASSUME NEW v \in Readers, ReaderStep(v)
          PROVE  UNCHANGED DeskLeft(r) \/ DeskLeft(r)' < DeskLeft(r)
        <3>1. CASE v # r
            <4>1. SameDesk(r)
                BY <1>1, <2>2, <3>1, DeskOfAnother
            <4>2. desk'[r].next = desk[r].next
                BY <2>a, <2>2, <3>1, ReaderAlone DEF PlaceQuest, DesksInv, Desk
            <4> QED
                BY <2>a, <2>1, <4>1, <4>2 DEF SameDesk
        <3>2. CASE v = r
            <4>1. ReportStep(r) \/ Fail(r)
                BY <1>1, <2>2, <3>2 DEF ReaderStep, ReportStep, Take, Release, AtDesk
            <4> QED
                BY <2>a, <4>1, ReportShrinks
        <3> QED
            BY <3>1, <3>2
    <2>3. CASE ServerStep
        <3>1. desk'[r] = [desk[r] EXCEPT !.kept = {l \in @ : links'[l] = links[l]}]
            BY <2>3 DEF ServerStep
        <3> QED
            BY <2>a, <2>1, <3>1 DEF DesksInv, Desk
    <2>4. CASE Death
        BY <1>1, <2>a, <2>4, DeathStops, DoneShrinks DEF IdleDesk
    <2>5. CASE UNCHANGED rvars
        BY <2>a, <2>1, <2>5 DEF rvars
    <2> QED
        BY <1>1, <2>2, <2>3, <2>4, <2>5, ReportNextCases
<1>2. TableInv => ReportsBounded
    BY DeskLeftType DEF TableInv, ReportInv, ReportsBounded
<1>3. TableInv /\ [ReportNext]_rvars => [EachReportStepCounts]_rvars
    BY <1>1, ReportShrinks DEF TableInv, ReportInv, EachReportStepCounts
<1> QED
    BY <1>2, <1>3, TableInvariant, PTL DEF ReportSpec
=============================================================================
