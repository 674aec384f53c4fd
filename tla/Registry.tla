------------------------------ MODULE Registry ------------------------------
(***************************************************************************)
(* What registration promises the application server: each person is       *)
(* entered once, under an id nobody else has, and keeps it.                *)
(***************************************************************************)
CONSTANTS Ids, Emails

VARIABLE rows

Init == rows = {}

Enter(id, e) ==
    /\ \A r \in rows : r.id # id /\ r.email # e
    /\ rows' = rows \cup {[id |-> id, email |-> e]}

Next == \E id \in Ids, e \in Emails : Enter(id, e)

Spec == Init /\ [][Next]_rows
=============================================================================
