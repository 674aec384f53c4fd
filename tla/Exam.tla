-------------------------------- MODULE Exam --------------------------------
(***************************************************************************)
(* What the attempt handlers promise a student and a teacher, as if every  *)
(* operation were atomic: a student takes a test once; while the attempt   *)
(* is open the sheet is handed out and answered; handing it in closes it;  *)
(* the mark, published once, is the number of correct answers on the sheet *)
(* that was handed in.                                                     *)
(***************************************************************************)
EXTENDS Integers, FiniteSets

CONSTANTS Users, Tests, Quests, Versions, Answers, CorrectAnswer,
          AttemptIds, Slots, Absent, NoAnswer

VARIABLES state,    \* "absent", "open", "closed" or "marked"
          of,       \* the student and the test of an attempt
          sheet,    \* the rows handed out and the answers given
          mark      \* the published mark

examVars == <<state, of, sheet, mark>>

CorrectRows(s) == {r \in Slots : s[r] # Absent /\ s[r].answer = CorrectAnswer[s[r].quest]}

Init ==
    /\ state = [a \in AttemptIds |-> "absent"]
    /\ of = [a \in AttemptIds |-> Absent]
    /\ sheet = [a \in AttemptIds |-> [r \in Slots |-> Absent]]
    /\ mark = [a \in AttemptIds |-> -1]

Open(a) ==
    /\ state[a] = "absent"
    /\ \E u \in Users, t \in Tests :
          /\ \A b \in AttemptIds : of[b] # <<u, t>>
          /\ of' = [of EXCEPT ![a] = <<u, t>>]
    /\ state' = [state EXCEPT ![a] = "open"]
    /\ UNCHANGED <<sheet, mark>>

HandOut(a) ==
    /\ state[a] = "open"
    /\ \E r \in Slots, q \in Quests, v \in Versions :
          /\ sheet[a][r] = Absent
          /\ sheet' = [sheet EXCEPT ![a][r] =
                          [quest |-> q, version |-> v, answer |-> NoAnswer]]
    /\ UNCHANGED <<state, of, mark>>

\* A question may be on several rows of the sheet; all of them are answered.
Answer(a) ==
    /\ state[a] = "open"
    /\ \E q \in Quests, v \in Versions, n \in Answers :
          sheet' = [sheet EXCEPT ![a] = [r \in Slots |->
              IF @[r] # Absent /\ @[r].quest = q /\ @[r].version = v
              THEN [@[r] EXCEPT !.answer = n] ELSE @[r]]]
    /\ UNCHANGED <<state, of, mark>>

Close(a) ==
    /\ state[a] = "open"
    /\ state' = [state EXCEPT ![a] = "closed"]
    /\ UNCHANGED <<of, sheet, mark>>

Publish(a) ==
    /\ state[a] = "closed"
    /\ state' = [state EXCEPT ![a] = "marked"]
    /\ mark' = [mark EXCEPT ![a] = Cardinality(CorrectRows(sheet[a]))]
    /\ UNCHANGED <<of, sheet>>

Next == \E a \in AttemptIds :
           Open(a) \/ HandOut(a) \/ Answer(a) \/ Close(a) \/ Publish(a)

Spec == Init /\ [][Next]_examVars
=============================================================================
