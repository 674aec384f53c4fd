------------------------- MODULE SignInSerial_proofs -------------------------
(***************************************************************************)
(* Theorems about the accounts sign-ins create: how many a person may get  *)
(* when sign-ins overlap, and, when they do not, that the counted ids are  *)
(* unique and the users table of the application server is the Registry;   *)
(* that every request ends, and, when nothing fails, ends with tokens.     *)
(***************************************************************************)
EXTENDS SignIn_proofs

USE SignInAssumption

-----------------------------------------------------------------------------
(* Effects of the steps that touch accounts.                               *)

\* The places in front of the insertion of a user.
Creating(e) ==
    {g \in Goroutines : call[g].pc \in {"count", "insert"} /\ EmailOfCall(g) = e}

\* Every other step leaves the documents alone and sends nobody to create one.
LEMMA QuietStep ==
    ASSUME SignInInv, Next, \A g \in Goroutines : ~Find(g) /\ ~Count(g) /\ ~Insert(g) /\ ~Undo(g)
    PROVE  /\ accounts' = accounts
           /\ \A g \in Goroutines : call'[g].pc \in {"count", "insert"} => call'[g] = call[g]
<1>1. TypeOK
  BY DEF SignInInv
<1> DEFINE Quiet == /\ accounts' = accounts
                    /\ \A g \in Goroutines :
                          call'[g].pc \in {"count", "insert"} => call'[g] = call[g]
<1>2. ASSUME NEW g \in Goroutines, Refind(g) PROVE Quiet
  <2>1. call'[g].pc \in {"idle", "register"} /\ \A h \in Goroutines : h # g => call'[h] = call[h]
    BY <1>1, <1>2, EndEffect DEF Refind, TypeOK, Call
  <2> QED
    BY <1>2, <2>1 DEF Refind
<1>3. ASSUME NEW m \in wire, Register(m) PROVE Quiet
  BY <1>3, RegisterEffect DEF Register
<1>4. ASSUME NEW g \in Goroutines, Expiry(g) \/ Store(g) \/ Deliver(g) PROVE Quiet
  <2>1. call'[g].pc \in {"idle", "store", "deliver"}
        /\ \A h \in Goroutines : h # g => call'[h] = call[h]
    BY <1>1, <1>4, EndEffect, GotoEffect DEF Expiry, Store, Deliver
  <2> QED
    BY <1>4, <2>1 DEF Expiry, Store, Deliver, userVars
<1>5. ASSUME NEW g \in Goroutines, NEW b \in Browsers, NEW p \in Browsers,
             NEW s \in Sessions, Authorize(g, b, p, s)
      PROVE  Quiet
  <2>1. call'[g].pc = "find" /\ \A h \in Goroutines : h # g => call'[h] = call[h]
    BY <1>1, <1>5 DEF Authorize, TypeOK, IdleCall
  <2> QED
    BY <1>5, <2>1 DEF Authorize, userVars
<1>6. CASE Crash
  BY <1>6 DEF Crash, IdleCall
<1>7. CASE UNCHANGED <<accounts, call>>
  BY <1>7
<1> QED
  BY <1>2, <1>3, <1>4, <1>5, <1>6, <1>7, NextSplit, InnerKeepsCalls
     DEF ServerStep, CallStep, Expire, Answer, Request, Callback, userVars

LEMMA FindEffect ==
    ASSUME SignInInv, NEW g \in Goroutines, Find(g)
    PROVE  /\ accounts' = accounts /\ appUsers' = appUsers /\ wire' = wire
           /\ call'[g].person = call[g].person \/ call'[g].pc = "idle"
           /\ call'[g].pc \in {"idle", "expiry", "count"}
           /\ call'[g].pc = "count" => DocsOf(EmailOfCall(g)) = {} \/ May("find")
           /\ \A h \in Goroutines : h # g => call'[h] = call[h]
<1>1. TypeOK /\ accounts' = accounts /\ appUsers' = appUsers /\ wire' = wire
  BY DEF SignInInv, Find, userVars
<1>2. CASE CallEnd(g)
  BY <1>1, <1>2, EndEffect
<1>3. ASSUME NEW d \in DocsOf(EmailOfCall(g)),
             call' = [call EXCEPT ![g].pc = "expiry", ![g].user = accounts[d]]
      PROVE  /\ call'[g].person = call[g].person /\ call'[g].pc = "expiry"
             /\ \A h \in Goroutines : h # g => call'[h] = call[h]
  BY <1>1, <1>3 DEF TypeOK, Call
<1>4. CASE /\ DocsOf(EmailOfCall(g)) = {} \/ May("find")
           /\ call' = [call EXCEPT ![g].pc = "count", ![g].register = TRUE]
  BY <1>1, <1>4 DEF TypeOK, Call
<1> QED
  BY <1>1, <1>2, <1>3, <1>4 DEF Find

LEMMA CountEffect ==
    ASSUME SignInInv, NEW g \in Goroutines, Count(g)
    PROVE  /\ accounts' = accounts /\ appUsers' = appUsers /\ wire' = wire
           /\ call'[g].person = call[g].person /\ call'[g].user = call[g].user
           /\ call'[g].pc \in {"insert", "refind"}
           /\ call'[g].pc = "insert" => call'[g].count = Cardinality(Docs)
           /\ \A h \in Goroutines : h # g => call'[h] = call[h]
<1>1. TypeOK /\ accounts' = accounts /\ appUsers' = appUsers /\ wire' = wire
  BY DEF SignInInv, Count, userVars
<1>2. CASE CallGoto(g, "refind")
  BY <1>1, <1>2, GotoEffect
<1>3. CASE call' = [call EXCEPT ![g].pc = "insert", ![g].count = Cardinality(Docs)]
  BY <1>1, <1>3 DEF TypeOK, Call
<1> QED
  BY <1>2, <1>3 DEF Count

LEMMA InsertEffect ==
    ASSUME SignInInv, NEW g \in Goroutines, Insert(g)
    PROVE  /\ appUsers' = appUsers /\ wire' = wire
           /\ call[g].pc = "insert" /\ call'[g].pc = "refind"
           /\ call'[g].person = call[g].person
           /\ \A h \in Goroutines : h # g => call'[h] = call[h]
           /\ \/ accounts' = accounts
              \/ \E d \in DocIds \ Docs :
                    /\ Docs' = Docs \cup {d}
                    /\ accounts'[d].id = call[g].count + 1
                    /\ accounts'[d].email = EmailOfCall(g)
                    /\ \A c \in Docs : accounts'[c] = accounts[c]
<1>1. TypeOK /\ CallKnows(g)
  BY DEF SignInInv
<1>2. /\ call[g].pc = "insert" /\ call'[g].pc = "refind"
      /\ call'[g].person = call[g].person
      /\ \A h \in Goroutines : h # g => call'[h] = call[h]
  BY <1>1 DEF Insert, TypeOK, Call
<1>3. ASSUME NEW d \in DocIds \ Docs,
             accounts' = [accounts EXCEPT ![d] = [id |-> call[g].count + 1,
                                                  email |-> EmailOfCall(g)]]
      PROVE  /\ Docs' = Docs \cup {d}
             /\ accounts'[d].id = call[g].count + 1
             /\ accounts'[d].email = EmailOfCall(g)
             /\ \A c \in Docs : accounts'[c] = accounts[c]
  <2>1. EmailOfCall(g) \in Emails /\ call[g].count + 1 \in Nat
    BY <1>1, <1>2, CallFields DEF Call
  <2>2. accounts'[d] = [id |-> call[g].count + 1, email |-> EmailOfCall(g)]
    BY <1>1, <1>3 DEF TypeOK
  <2>3. accounts'[d] # Nil
    BY <2>1, <2>2 DEF User
  <2>4. \A c \in DocIds \ {d} : accounts'[c] = accounts[c]
    BY <1>1, <1>3 DEF TypeOK
  <2> QED
    BY <2>2, <2>3, <2>4 DEF Docs
<1> QED
  BY <1>2, <1>3 DEF Insert

LEMMA UndoEffect ==
    ASSUME SignInInv, NEW g \in Goroutines, Undo(g)
    PROVE  /\ appUsers' = appUsers /\ wire' = wire /\ call'[g].pc = "idle"
           /\ \A h \in Goroutines : h # g => call'[h] = call[h]
           /\ \/ accounts' = accounts
              \/ \E d \in Docs : /\ accounts[d].id = call[g].user.id
                                 /\ Docs' = Docs \ {d}
                                 /\ \A c \in Docs' : accounts'[c] = accounts[c]
<1>1. TypeOK /\ appUsers' = appUsers /\ wire' = wire
  BY DEF SignInInv, Undo
<1>2. call'[g].pc = "idle" /\ \A h \in Goroutines : h # g => call'[h] = call[h]
  BY <1>1, EndEffect DEF Undo
<1>3. ASSUME NEW d \in Docs, accounts' = [accounts EXCEPT ![d] = Nil]
      PROVE  /\ Docs' = Docs \ {d}
             /\ \A c \in Docs' : accounts'[c] = accounts[c]
  BY <1>1, <1>3 DEF TypeOK, Docs
<1> QED
  BY <1>1, <1>2, <1>3 DEF Undo, RemoveById

-----------------------------------------------------------------------------
(* Overlapping sign-ins: one account for each goroutine at most.           *)

BoundInv ==
    \A e \in Emails :
        Cardinality(DocsOf(e)) + Cardinality(Creating(e)) <= Cardinality(Goroutines)

LEMMA SetsFinite ==
    /\ Cardinality(Goroutines) \in Nat
    /\ \A e : /\ IsFiniteSet(DocsOf(e)) /\ Cardinality(DocsOf(e)) \in Nat
             /\ IsFiniteSet(Creating(e)) /\ Cardinality(Creating(e)) \in Nat
             /\ Cardinality(Creating(e)) <= Cardinality(Goroutines)
<1>1. \A e : DocsOf(e) \subseteq DocIds /\ Creating(e) \subseteq Goroutines
  BY DEF DocsOf, Docs, Creating
<1> QED
  BY <1>1, FS_Subset, FS_CardinalityType

LEMMA SetsFiniteNext ==
    \A e : /\ IsFiniteSet(DocsOf(e)') /\ Cardinality(DocsOf(e)') \in Nat
          /\ IsFiniteSet(Creating(e)') /\ Cardinality(Creating(e)') \in Nat
          /\ Cardinality(Creating(e)') <= Cardinality(Goroutines)
<1>1. \A e : DocsOf(e)' \subseteq DocIds /\ Creating(e)' \subseteq Goroutines
  BY DEF DocsOf, Docs, Creating
<1> QED
  BY <1>1, FS_Subset, FS_CardinalityType

\* A step that lets neither set grow keeps the bound.
LEMMA BoundShrinks ==
    ASSUME BoundInv, NEW e \in Emails, DocsOf(e)' \subseteq DocsOf(e),
           Creating(e)' \subseteq Creating(e)
    PROVE  Cardinality(DocsOf(e)') + Cardinality(Creating(e)') <= Cardinality(Goroutines)
<1>1. /\ Cardinality(DocsOf(e)') <= Cardinality(DocsOf(e))
      /\ Cardinality(Creating(e)') <= Cardinality(Creating(e))
  BY SetsFinite, FS_Subset
<1> QED
  BY <1>1, SetsFinite, SetsFiniteNext DEF BoundInv

LEMMA BoundStep == ASSUME "find" \notin Faults, SignInInv, BoundInv, Next PROVE BoundInv'
<1> SUFFICES ASSUME NEW e \in Emails
             PROVE  Cardinality(DocsOf(e)') + Cardinality(Creating(e)')
                      <= Cardinality(Goroutines)
  BY DEF BoundInv
<1> DEFINE Bound == Cardinality(DocsOf(e)') + Cardinality(Creating(e)')
                      <= Cardinality(Goroutines)
<1>1. ASSUME NEW g \in Goroutines, Find(g) PROVE Bound
  <2>1. DocsOf(e)' = DocsOf(e)
    BY <1>1, FindEffect DEF DocsOf, Docs
  <2>2. CASE call'[g].pc = "count" /\ EmailOfCall(g)' = e
    <3>1. DocsOf(e) = {}
      BY <1>1, <2>2, FindEffect DEF EmailOfCall, May
    <3>2. Cardinality(DocsOf(e)') = 0
      BY <2>1, <3>1, FS_EmptySet
    <3> QED
      BY <3>2, SetsFiniteNext, SetsFinite
  <2>3. CASE ~(call'[g].pc = "count" /\ EmailOfCall(g)' = e)
    <3>1. Creating(e)' \subseteq Creating(e)
      BY <1>1, <2>3, FindEffect DEF Creating, EmailOfCall
    <3> QED
      BY <2>1, <3>1, BoundShrinks
  <2> QED
    BY <2>2, <2>3
<1>2. ASSUME NEW g \in Goroutines, Count(g) PROVE Bound
  <2>1. DocsOf(e)' = DocsOf(e)
    BY <1>2, CountEffect DEF DocsOf, Docs
  <2>2. Creating(e)' \subseteq Creating(e)
    BY <1>2, CountEffect DEF Creating, EmailOfCall, Count
  <2> QED
    BY <2>1, <2>2, BoundShrinks
<1>3. ASSUME NEW g \in Goroutines, Insert(g) PROVE Bound
  <2>1. Creating(e)' \subseteq Creating(e)
    BY <1>3, InsertEffect DEF Creating, EmailOfCall
  <2>2. CASE DocsOf(e)' \subseteq DocsOf(e)
    BY <2>1, <2>2, BoundShrinks
  <2>3. ASSUME NEW d \in DocIds \ Docs,
               Docs' = Docs \cup {d}, accounts'[d].email = EmailOfCall(g),
               \A c \in Docs : accounts'[c] = accounts[c]
        PROVE  Bound
    <3>1. CASE EmailOfCall(g) # e
      <4>1. DocsOf(e)' \subseteq DocsOf(e)
        BY <2>3, <3>1 DEF DocsOf
      <4> QED
        BY <2>1, <4>1, BoundShrinks
    <3>2. CASE EmailOfCall(g) = e
      <4>1. DocsOf(e)' \subseteq DocsOf(e) \cup {d}
        BY <2>3 DEF DocsOf
      <4>2. Creating(e)' \subseteq Creating(e) \ {g} /\ g \in Creating(e)
        BY <1>3, <3>2, InsertEffect DEF Creating, EmailOfCall
      <4>3. /\ IsFiniteSet(DocsOf(e) \cup {d})
            /\ Cardinality(DocsOf(e) \cup {d}) <= Cardinality(DocsOf(e)) + 1
        <5>1. IsFiniteSet(DocsOf(e)) /\ Cardinality(DocsOf(e)) \in Nat
          BY SetsFinite
        <5>2. Cardinality(DocsOf(e) \cup {d}) =
                IF d \in DocsOf(e) THEN Cardinality(DocsOf(e)) ELSE Cardinality(DocsOf(e)) + 1
          BY <5>1, FS_AddElement
        <5>3. IsFiniteSet(DocsOf(e) \cup {d})
          BY <5>1, FS_AddElement
        <5> QED
          BY <5>1, <5>2, <5>3
      <4>4. /\ IsFiniteSet(Creating(e) \ {g})
            /\ Cardinality(Creating(e) \ {g}) = Cardinality(Creating(e)) - 1
        BY <4>2, SetsFinite, FS_RemoveElement
      <4>5. Cardinality(DocsOf(e)') <= Cardinality(DocsOf(e) \cup {d})
        BY <4>1, <4>3, FS_Subset
      <4>6. Cardinality(Creating(e)') <= Cardinality(Creating(e) \ {g})
        BY <4>2, <4>4, FS_Subset
      <4>7. /\ Cardinality(DocsOf(e)') <= Cardinality(DocsOf(e)) + 1
            /\ Cardinality(Creating(e)') <= Cardinality(Creating(e)) - 1
        BY <4>3, <4>4, <4>5, <4>6, SetsFinite, SetsFiniteNext, FS_CardinalityType
      <4> QED
        BY <4>7, SetsFinite, SetsFiniteNext DEF BoundInv
    <3> QED
      BY <3>1, <3>2
  <2>4. CASE accounts' = accounts
    <3>1. DocsOf(e)' = DocsOf(e)
      BY <2>4 DEF DocsOf, Docs
    <3> QED
      BY <2>2, <3>1
  <2> QED
    BY <1>3, <2>3, <2>4, InsertEffect
<1>4. ASSUME NEW g \in Goroutines, Undo(g) PROVE Bound
  <2>1. Creating(e)' \subseteq Creating(e)
    BY <1>4, UndoEffect DEF Creating, EmailOfCall
  <2>2. DocsOf(e)' \subseteq DocsOf(e)
    BY <1>4, UndoEffect DEF DocsOf, Docs
  <2> QED
    BY <2>1, <2>2, BoundShrinks
<1>5. CASE \A g \in Goroutines : ~Find(g) /\ ~Count(g) /\ ~Insert(g) /\ ~Undo(g)
  <2>1. DocsOf(e)' = DocsOf(e) /\ Creating(e)' \subseteq Creating(e)
    BY <1>5, QuietStep DEF DocsOf, Docs, Creating, EmailOfCall
  <2> QED
    BY <2>1, BoundShrinks
<1> QED
  BY <1>1, <1>2, <1>3, <1>4, <1>5

(* Sign-ins of one new person that overlap create at most one account for  *)
(* each goroutine, when FindByEmail fails only for a person without an     *)
(* account (AuthenticationServerHandler.go:180-186).                       *)
THEOREM AccountsBounded ==
    ASSUME "find" \notin Faults
    PROVE  Spec => []AccountsBoundedByGoroutines
<1>1. Init => BoundInv
  <2>1. SUFFICES ASSUME Init, NEW e \in Emails
                 PROVE  Cardinality(DocsOf(e)) + Cardinality(Creating(e))
                          <= Cardinality(Goroutines)
    BY DEF BoundInv
  <2>2. DocsOf(e) = {}
    BY <2>1 DEF Init, DocsOf, Docs
  <2> QED
    BY <2>2, FS_EmptySet, SetsFinite
<1>2. BoundInv /\ UNCHANGED vars => BoundInv'
  BY DEF BoundInv, DocsOf, Docs, Creating, EmailOfCall, vars, userVars
<1>3. SignInInv /\ BoundInv /\ [Next]_vars => BoundInv'
  BY <1>2, BoundStep
<1>4. BoundInv => AccountsBoundedByGoroutines
  BY SetsFinite DEF BoundInv, AccountsBoundedByGoroutines
<1> QED
  BY <1>1, <1>3, <1>4, SignInInvariant, PTL DEF Spec

-----------------------------------------------------------------------------
(* Sign-ins one after the other: the ids of the documents are 1 .. n, and  *)
(* the one document that may be removed again is the last.                 *)

OneCall == \A g, h \in Goroutines : CallBusy(g) /\ CallBusy(h) => g = h

IdsInRange == \A d \in Docs : accounts[d].id \in 1 .. Cardinality(Docs)

\* What the sign-in in progress knows about the documents.
Stage(g) ==
    /\ call[g].pc \in {"count", "insert"} => DocsOf(EmailOfCall(g)) = {}
    /\ call[g].pc = "insert" => call[g].count = Cardinality(Docs)
    /\ call[g].pc = "refind" =>
          \A d \in DocsOf(EmailOfCall(g)) : accounts[d].id = Cardinality(Docs)
    /\ call[g].pc \in {"register", "undo"} =>
          /\ call[g].user.id = Cardinality(Docs)
          /\ \E d \in Docs : accounts[d] = call[g].user

SerialInv ==
    /\ OneCall /\ IdsInRange /\ UniqueAccounts
    /\ \A g \in Goroutines : Stage(g)

\* Only /authorize makes a goroutine busy.
LEMMA BusyStep ==
    ASSUME SignInInv, Next, NEW g \in Goroutines, CallBusy(g)', ~CallBusy(g)
    PROVE  /\ \E b, p \in Browsers, s \in Sessions : Authorize(g, b, p, s)
           /\ \A h \in Goroutines : h # g => call'[h] = call[h]
<1>1. TypeOK
  BY DEF SignInInv
<1>2. ASSUME NEW h \in Goroutines, CallStep(h) PROVE FALSE
  <2>1. call[h].pc # "idle" /\ \A f \in Goroutines : f # h => call'[f] = call[f]
    <3>1. CASE Find(h)
      BY <3>1, FindEffect DEF Find
    <3>2. CASE Count(h)
      BY <3>2, CountEffect DEF Count
    <3>3. CASE Insert(h)
      BY <3>3, InsertEffect
    <3>4. CASE Refind(h)
      BY <1>1, <3>4, EndEffect DEF Refind, TypeOK, Call
    <3>5. ASSUME NEW m \in wire, m.from = h, Register(m)
          PROVE  call[h].pc # "idle" /\ \A f \in Goroutines : f # h => call'[f] = call[f]
      BY <3>5, RegisterEffect
    <3>6. CASE Undo(h)
      BY <3>6, UndoEffect DEF Undo
    <3>7. CASE Expiry(h) \/ Store(h) \/ Deliver(h)
      BY <1>1, <3>7, EndEffect, GotoEffect DEF Expiry, Store, Deliver
    <3> QED
      BY <1>2, <3>1, <3>2, <3>3, <3>4, <3>5, <3>6, <3>7 DEF CallStep
  <2> QED
    BY <2>1 DEF CallBusy
<1>3. ASSUME NEW h \in Goroutines, NEW b \in Browsers, NEW p \in Browsers,
             NEW s \in Sessions, Authorize(h, b, p, s)
      PROVE  h = g /\ \A f \in Goroutines : f # g => call'[f] = call[f]
  BY <1>1, <1>3 DEF Authorize, TypeOK, CallBusy
<1>4. ASSUME NEW m \in wire, Register(m) PROVE FALSE
  BY <1>4, RegisterEffect DEF CallBusy
<1>5. CASE Crash
  BY <1>5 DEF Crash, IdleCall, CallBusy
<1>6. CASE UNCHANGED call
  BY <1>6 DEF CallBusy
<1>7. ASSUME NEW h \in Goroutines, \E b, p \in Browsers, s \in Sessions : Authorize(h, b, p, s)
      PROVE  /\ \E b, p \in Browsers, s \in Sessions : Authorize(g, b, p, s)
             /\ \A f \in Goroutines : f # g => call'[f] = call[f]
  BY <1>3, <1>7
<1>8. CASE ServerStep
  BY <1>2, <1>4, <1>5, <1>6, <1>7, <1>8 DEF ServerStep, Expire
<1> QED
  BY <1>6, <1>8, NextSplit, InnerKeepsCalls DEF Answer, Request, Callback

LEMMA OneCallStep == ASSUME ~Overlap, SignInInv, OneCall, Next PROVE OneCall'
<1> SUFFICES ASSUME NEW g \in Goroutines, NEW h \in Goroutines,
                    CallBusy(g)', CallBusy(h)', g # h
             PROVE  FALSE
  BY DEF OneCall
<1>1. CallBusy(g) \/ CallBusy(h)
  BY BusyStep DEF CallBusy
<1>2. CASE ~CallBusy(g)
  BY <1>1, <1>2, BusyStep DEF Authorize
<1>3. CASE ~CallBusy(h)
  BY <1>1, <1>3, BusyStep DEF Authorize
<1> QED
  BY <1>2, <1>3 DEF OneCall

\* The steps of the calls around registration, and what they leave alone.
LEMMA LaterStep ==
    ASSUME SignInInv, Next, \A g \in Goroutines : ~Find(g) /\ ~Count(g) /\ ~Insert(g) /\ ~Undo(g)
    PROVE  \A g \in Goroutines :
             \/ call'[g].pc \in {"idle", "find", "expiry", "store", "deliver"}
             \/ call'[g] = call[g]
             \/ /\ call[g].pc = "refind" /\ call'[g].pc = "register"
                /\ \E d \in DocsOf(EmailOfCall(g)) : call'[g].user = accounts[d]
             \/ /\ call[g].pc = "register" /\ call'[g].pc = "undo"
                /\ call'[g].user = call[g].user
<1>1. TypeOK
  BY DEF SignInInv
<1> TAKE g \in Goroutines
<1> DEFINE Later == \/ call'[g].pc \in {"idle", "find", "expiry", "store", "deliver"}
                    \/ call'[g] = call[g]
                    \/ /\ call[g].pc = "refind" /\ call'[g].pc = "register"
                       /\ \E d \in DocsOf(EmailOfCall(g)) : call'[g].user = accounts[d]
                    \/ /\ call[g].pc = "register" /\ call'[g].pc = "undo"
                       /\ call'[g].user = call[g].user
<1>2. ASSUME NEW h \in Goroutines, Refind(h) PROVE Later
  <2>1. CASE CallEnd(h)
    BY <1>1, <2>1, EndEffect
  <2>2. ASSUME NEW d \in DocsOf(EmailOfCall(h)),
               call' = [call EXCEPT ![h].pc = "register", ![h].user = accounts[d]]
        PROVE  Later
    <3>1. /\ call'[h].pc = "register" /\ call'[h].user = accounts[d]
          /\ \A f \in Goroutines : f # h => call'[f] = call[f]
      BY <1>1, <2>2 DEF TypeOK, Call
    <3> QED
      BY <1>2, <3>1 DEF Refind
  <2> QED
    BY <1>2, <2>1, <2>2 DEF Refind
<1>3. ASSUME NEW m \in wire, Register(m) PROVE Later
  BY <1>3, RegisterEffect
<1>4. ASSUME NEW h \in Goroutines, Expiry(h) \/ Store(h) \/ Deliver(h) PROVE Later
  BY <1>1, <1>4, EndEffect, GotoEffect DEF Expiry, Store, Deliver
<1>5. ASSUME NEW h \in Goroutines, NEW b \in Browsers, NEW p \in Browsers,
             NEW s \in Sessions, Authorize(h, b, p, s)
      PROVE  Later
  BY <1>1, <1>5 DEF Authorize, TypeOK, IdleCall
<1>6. CASE Crash
  BY <1>6 DEF Crash, IdleCall
<1>7. CASE UNCHANGED call
  BY <1>7
<1> QED
  BY <1>2, <1>3, <1>4, <1>5, <1>6, <1>7, NextSplit, InnerKeepsCalls
     DEF ServerStep, CallStep, Expire, Answer, Request, Callback

LEMMA SerialStep ==
    ASSUME ~Overlap, "find" \notin Faults, SignInInv, SerialInv, Next
    PROVE  SerialInv'
<1>1. OneCall' /\ OneCall /\ IdsInRange /\ UniqueAccounts /\ \A g \in Goroutines : Stage(g)
  BY OneCallStep DEF SerialInv
<1>2. TypeOK /\ Cardinality(Docs) \in Nat /\ IsFiniteSet(Docs)
  BY DocsFinite DEF SignInInv
<1>3. ASSUME NEW g \in Goroutines, call[g].pc # "idle",
             \A h \in Goroutines : h # g => call'[h] = call[h], Stage(g)'
      PROVE  \A h \in Goroutines : Stage(h)'
  <2>1. \A h \in Goroutines : h # g => call'[h].pc = "idle"
    BY <1>1, <1>3 DEF OneCall, CallBusy
  <2> QED
    BY <1>3, <2>1 DEF Stage
<1>4. ASSUME accounts' = accounts
      PROVE  IdsInRange' /\ UniqueAccounts' /\ Docs' = Docs /\ \A e : DocsOf(e)' = DocsOf(e)
  BY <1>1, <1>4 DEF IdsInRange, UniqueAccounts, Docs, DocsOf
<1>5. ASSUME NEW g \in Goroutines, Find(g) PROVE SerialInv'
  <2>1. Stage(g)'
    BY <1>4, <1>5, FindEffect DEF Stage, EmailOfCall, May
  <2> QED
    BY <1>1, <1>3, <1>4, <1>5, <2>1, FindEffect DEF SerialInv, Find
<1>6. ASSUME NEW g \in Goroutines, Count(g) PROVE SerialInv'
  <2>1. Stage(g)'
    BY <1>1, <1>4, <1>6, CountEffect DEF Stage, EmailOfCall, Count
  <2> QED
    BY <1>1, <1>3, <1>4, <1>6, <2>1, CountEffect DEF SerialInv, Count
<1>7. ASSUME NEW g \in Goroutines, Insert(g) PROVE SerialInv'
  <2>1. /\ call[g].pc = "insert" /\ call'[g].pc = "refind"
        /\ EmailOfCall(g)' = EmailOfCall(g)
        /\ DocsOf(EmailOfCall(g)) = {} /\ call[g].count = Cardinality(Docs)
    BY <1>1, <1>7, InsertEffect DEF Stage, EmailOfCall
  <2>2. CASE accounts' = accounts
    <3>1. Stage(g)'
      BY <1>4, <2>1, <2>2 DEF Stage
    <3> QED
      BY <1>1, <1>3, <1>4, <1>7, <2>1, <2>2, <3>1, InsertEffect DEF SerialInv
  <2>3. ASSUME NEW d \in DocIds \ Docs,
               Docs' = Docs \cup {d}, accounts'[d].id = call[g].count + 1,
               accounts'[d].email = EmailOfCall(g),
               \A c \in Docs : accounts'[c] = accounts[c]
        PROVE  SerialInv'
    <3>1. Cardinality(Docs') = Cardinality(Docs) + 1
      BY <1>2, <2>3, FS_AddElement
    <3>2. accounts'[d].id = Cardinality(Docs')
      BY <2>1, <2>3, <3>1
    <3>3. \A c \in Docs : /\ accounts'[c].id \in 1 .. Cardinality(Docs)
                         /\ accounts'[c].email # EmailOfCall(g)
      BY <1>1, <2>1, <2>3 DEF IdsInRange, DocsOf
    <3>4. IdsInRange'
      BY <1>2, <2>3, <3>1, <3>2, <3>3 DEF IdsInRange
    <3>5. UniqueAccounts'
      BY <1>1, <1>2, <2>3, <3>1, <3>2, <3>3 DEF UniqueAccounts
    <3>6. Stage(g)'
      <4>1. \A c \in DocsOf(EmailOfCall(g))' : c = d
        BY <2>1, <2>3, <3>3 DEF DocsOf
      <4> QED
        BY <2>1, <3>2, <4>1 DEF Stage
    <3> QED
      BY <1>1, <1>3, <1>7, <2>1, <3>4, <3>5, <3>6, InsertEffect DEF SerialInv
  <2> QED
    BY <1>7, <2>2, <2>3, InsertEffect
<1>8. ASSUME NEW g \in Goroutines, Undo(g) PROVE SerialInv'
  <2>1. call[g].pc = "undo" /\ call'[g].pc = "idle" /\ Stage(g)'
    BY <1>8, UndoEffect DEF Undo, Stage
  <2>2. CASE accounts' = accounts
    BY <1>1, <1>3, <1>4, <1>8, <2>1, <2>2, UndoEffect DEF SerialInv
  <2>3. ASSUME NEW d \in Docs, accounts[d].id = call[g].user.id, Docs' = Docs \ {d},
               \A c \in Docs' : accounts'[c] = accounts[c]
        PROVE  SerialInv'
    <3>1. Cardinality(Docs') = Cardinality(Docs) - 1
      BY <1>2, <2>3, FS_RemoveElement
    <3>2. accounts[d].id = Cardinality(Docs)
      BY <1>1, <2>1, <2>3 DEF Stage
    <3>3. \A c \in Docs' : accounts[c].id # accounts[d].id
      BY <1>1, <2>3 DEF UniqueAccounts
    <3>4. IdsInRange'
      BY <1>1, <1>2, <2>3, <3>1, <3>2, <3>3 DEF IdsInRange
    <3>5. UniqueAccounts'
      BY <1>1, <2>3 DEF UniqueAccounts
    <3> QED
      BY <1>1, <1>3, <1>8, <2>1, <3>4, <3>5, UndoEffect DEF SerialInv
  <2> QED
    BY <1>8, <2>2, <2>3, UndoEffect
<1>9. CASE \A g \in Goroutines : ~Find(g) /\ ~Count(g) /\ ~Insert(g) /\ ~Undo(g)
  <2>1. accounts' = accounts
    BY <1>9, QuietStep
  <2>2. ASSUME NEW g \in Goroutines PROVE Stage(g)'
    <3>1. CASE call'[g].pc \in {"idle", "find", "expiry", "store", "deliver"}
      BY <3>1 DEF Stage
    <3>2. CASE call'[g] = call[g]
      BY <1>1, <1>4, <2>1, <3>2 DEF Stage, EmailOfCall
    <3>3. CASE /\ call[g].pc = "refind" /\ call'[g].pc = "register"
               /\ \E d \in DocsOf(EmailOfCall(g)) : call'[g].user = accounts[d]
      BY <1>1, <1>4, <2>1, <3>3 DEF Stage, DocsOf
    <3>4. CASE /\ call[g].pc = "register" /\ call'[g].pc = "undo"
               /\ call'[g].user = call[g].user
      BY <1>1, <1>4, <2>1, <3>4 DEF Stage
    <3> QED
      BY <1>9, <3>1, <3>2, <3>3, <3>4, LaterStep
  <2> QED
    BY <1>1, <1>4, <2>1, <2>2 DEF SerialInv
<1> QED
  BY <1>5, <1>6, <1>7, <1>8, <1>9

LEMMA SerialInvariant ==
    ASSUME ~Overlap, "find" \notin Faults
    PROVE  Spec => []SerialInv
<1>1. Init => SerialInv
  BY DEF Init, SerialInv, OneCall, IdsInRange, UniqueAccounts, Stage, Docs, CallBusy, IdleCall
<1>2. SerialInv /\ UNCHANGED vars => SerialInv'
  <2> SUFFICES ASSUME SerialInv, UNCHANGED vars PROVE SerialInv'
    OBVIOUS
  <2>1. accounts' = accounts /\ call' = call
    BY DEF vars, userVars
  <2>2. Docs' = Docs /\ \A e : DocsOf(e)' = DocsOf(e)
    BY <2>1 DEF Docs, DocsOf
  <2>3. OneCall' /\ IdsInRange' /\ UniqueAccounts'
    BY <2>1, <2>2 DEF SerialInv, OneCall, CallBusy, IdsInRange, UniqueAccounts
  <2>4. ASSUME NEW g \in Goroutines PROVE Stage(g)'
    <3>1. Stage(g) /\ EmailOfCall(g)' = EmailOfCall(g)
      BY <2>1 DEF SerialInv, EmailOfCall
    <3> QED
      BY <2>1, <2>2, <3>1 DEF Stage
  <2> QED
    BY <2>3, <2>4 DEF SerialInv
<1>3. SignInInv /\ SerialInv /\ [Next]_vars => SerialInv'
  BY <1>2, SerialStep
<1> QED
  BY <1>1, <1>3, SignInInvariant, PTL DEF Spec

(* When sign-ins do not overlap no two accounts share an id or an email,   *)
(* although ids are counted and accounts removed (UserCreator.go:23-28).   *)
THEOREM AccountsUnique ==
    ASSUME ~Overlap, "find" \notin Faults
    PROVE  Spec => []UniqueAccounts
<1>1. SerialInv => UniqueAccounts
  BY DEF SerialInv
<1> QED
  BY <1>1, SerialInvariant, PTL

-----------------------------------------------------------------------------
(* The users table is the Registry, while no answer to a registration is   *)
(* lost: a row, and a request for one, keeps its account, and the account  *)
(* that is being registered is in neither.                                 *)

HasAccount(r) == \E d \in Docs : accounts[d] = r

Unregistered(g) ==
    /\ call[g].pc = "refind" =>
          \A d \in DocsOf(EmailOfCall(g)) :
             accounts[d] \notin appUsers /\ \A m \in wire : m.user # accounts[d]
    /\ call[g].pc = "register" =>
          call[g].user \notin appUsers /\ \A m \in wire : m.user = call[g].user => m.from = g
    /\ call[g].pc = "undo" =>
          call[g].user \notin appUsers /\ \A m \in wire : m.user # call[g].user

RowsInv ==
    /\ \A r \in appUsers : HasAccount(r)
    /\ \A m \in wire : HasAccount(m.user)
    /\ \A g \in Goroutines : Unregistered(g)

\* A step of g that leaves the tables alone, or one of nobody's.
LEMMA RowsQuiet ==
    ASSUME RowsInv, UNCHANGED <<accounts, appUsers>>,
           \A m \in wire' : m \in wire \/ \E n \in wire : m.user = n.user /\ m.from = Nil,
           \A g \in Goroutines :
              \/ call'[g].pc \notin {"refind", "register", "undo"}
              \/ call'[g] = call[g] /\ wire' \subseteq wire
              \/ call'[g].pc = "refind" /\ DocsOf(EmailOfCall(g))' = {}
    PROVE  RowsInv'
<1>1. \A r : HasAccount(r)' <=> HasAccount(r)
  BY DEF HasAccount, Docs
<1>2. ASSUME NEW g \in Goroutines PROVE Unregistered(g)'
  <2>1. CASE call'[g] = call[g] /\ wire' \subseteq wire
    BY <2>1 DEF RowsInv, Unregistered, DocsOf, Docs, EmailOfCall
  <2>2. CASE call'[g].pc \notin {"refind", "register", "undo"}
    BY <2>2 DEF Unregistered
  <2>3. CASE call'[g].pc = "refind" /\ DocsOf(EmailOfCall(g))' = {}
    BY <2>3 DEF Unregistered
  <2> QED
    BY <2>1, <2>2, <2>3
<1> QED
  BY <1>1, <1>2 DEF RowsInv

\* A request that is refused leaves the table alone.
LEMMA RefusedLeavesTable ==
    ASSUME "lost" \notin Faults, SignInInv, NEW m \in wire, Register(m),
           m.from # Nil, call'[m.from].pc = "undo"
    PROVE  appUsers' = appUsers
<1>1. TypeOK /\ m.from \in Goroutines
  BY DEF SignInInv, TypeOK
<1>2. CASE Answered(m.from, TRUE)
  BY <1>1, <1>2, GotoEffect DEF Answered
<1> QED
  BY <1>2 DEF Register, May

LEMMA RowsStep ==
    ASSUME ~Overlap, "find" \notin Faults, "lost" \notin Faults,
           SignInInv, SerialInv, RowsInv, Next
    PROVE  RowsInv'
<1>1. /\ TypeOK /\ WireMatches /\ OneCall /\ UniqueAccounts
      /\ \A g \in Goroutines : Stage(g)
  BY DEF SignInInv, SerialInv
<1>2. \A m \in wire : m \in [user : User, from : Goroutines \cup {Nil}]
  BY <1>1 DEF TypeOK
<1>3. ASSUME NEW g \in Goroutines, Find(g) PROVE RowsInv'
  BY <1>3, FindEffect, RowsQuiet
<1>4. ASSUME NEW g \in Goroutines, Count(g) PROVE RowsInv'
  <2>1. DocsOf(EmailOfCall(g)) = {}
    BY <1>1, <1>4 DEF Stage, Count
  <2>2. EmailOfCall(g)' = EmailOfCall(g) /\ accounts' = accounts
    BY <1>4, CountEffect DEF EmailOfCall
  <2>3. DocsOf(EmailOfCall(g))' = {}
    BY <2>1, <2>2 DEF DocsOf, Docs
  <2> QED
    BY <1>4, <2>3, CountEffect, RowsQuiet
<1>5. ASSUME NEW g \in Goroutines, Insert(g) PROVE RowsInv'
  <2>1. /\ call[g].pc = "insert" /\ call'[g].pc = "refind"
        /\ EmailOfCall(g)' = EmailOfCall(g) /\ DocsOf(EmailOfCall(g)) = {}
        /\ appUsers' = appUsers /\ wire' = wire
    BY <1>1, <1>5, InsertEffect DEF Stage, EmailOfCall
  <2>2. CASE accounts' = accounts
    <3>1. DocsOf(EmailOfCall(g))' = {}
      BY <2>1, <2>2 DEF DocsOf, Docs
    <3> QED
      BY <1>5, <2>1, <2>2, <3>1, InsertEffect, RowsQuiet
  <2>3. ASSUME NEW d \in DocIds \ Docs, Docs' = Docs \cup {d},
               accounts'[d].email = EmailOfCall(g),
               \A c \in Docs : accounts'[c] = accounts[c]
        PROVE  RowsInv'
    <3>1. \A r : HasAccount(r) => HasAccount(r)' /\ r.email # EmailOfCall(g)
      BY <2>1, <2>3 DEF HasAccount, DocsOf
    <3>2. \A c \in DocsOf(EmailOfCall(g))' : accounts'[c].email = EmailOfCall(g)
      BY <2>1 DEF DocsOf
    <3>6. ASSUME NEW c \in DocsOf(EmailOfCall(g))'
          PROVE  accounts'[c] \notin appUsers /\ \A m \in wire : m.user # accounts'[c]
      BY <3>1, <3>2 DEF RowsInv
    <3>3. Unregistered(g)'
      BY <2>1, <3>6 DEF Unregistered
    <3>4. \A h \in Goroutines : h # g => call'[h] = call[h] /\ call[h].pc = "idle"
      BY <1>1, <1>5, <2>1, InsertEffect DEF OneCall, CallBusy
    <3>5. \A h \in Goroutines : Unregistered(h)'
      BY <3>3, <3>4 DEF Unregistered
    <3> QED
      BY <2>1, <3>1, <3>5 DEF RowsInv
  <2> QED
    BY <1>5, <2>2, <2>3, InsertEffect
<1>6. ASSUME NEW g \in Goroutines, Refind(g) PROVE RowsInv'
  <2>1. UNCHANGED <<accounts, appUsers>> /\ call[g].pc = "refind"
    BY <1>6 DEF Refind
  <2>2. CASE CallEnd(g) /\ UNCHANGED wire
    BY <1>1, <2>1, <2>2, EndEffect, RowsQuiet
  <2>3. ASSUME NEW d \in DocsOf(EmailOfCall(g)),
               call' = [call EXCEPT ![g].pc = "register", ![g].user = accounts[d]],
               wire' = wire \cup {[user |-> accounts[d], from |-> g]}
        PROVE  RowsInv'
    <3>1. /\ call'[g].pc = "register" /\ call'[g].user = accounts[d]
          /\ \A h \in Goroutines : h # g => call'[h] = call[h]
      BY <1>1, <2>3 DEF TypeOK, Call
    <3>2. accounts[d] \notin appUsers /\ \A m \in wire : m.user # accounts[d]
      BY <2>1 DEF RowsInv, Unregistered
    <3>9. \A m \in wire' : m.user = accounts[d] => m.from = g
      BY <2>3, <3>2
    <3>3. Unregistered(g)'
      BY <2>1, <3>1, <3>2, <3>9 DEF Unregistered
    <3>4. \A h \in Goroutines : h # g => call'[h].pc = "idle"
      BY <1>1, <2>1, <3>1 DEF OneCall, CallBusy
    <3>5. \A h \in Goroutines : Unregistered(h)'
      BY <3>3, <3>4 DEF Unregistered
    <3>6. \A r : HasAccount(r) => HasAccount(r)'
      BY <2>1 DEF HasAccount, Docs
    <3>7. \A m \in wire' : HasAccount(m.user)'
      BY <2>3, <3>6 DEF RowsInv, HasAccount, DocsOf
    <3> QED
      BY <2>1, <3>5, <3>6, <3>7 DEF RowsInv
  <2> QED
    BY <1>6, <2>2, <2>3 DEF Refind
<1>7. ASSUME NEW m \in wire, Register(m) PROVE RowsInv'
  <2>1. /\ accounts' = accounts /\ wire' = wire \ {m}
        /\ appUsers' \subseteq appUsers \cup {m.user}
    BY <1>7 DEF Register
  <2>2. \A r : HasAccount(r) => HasAccount(r)'
    BY <2>1 DEF HasAccount, Docs
  <2>3. /\ \A r \in appUsers' : HasAccount(r)'
        /\ \A n \in wire' : HasAccount(n.user)'
    BY <2>1, <2>2 DEF RowsInv
  <2>4. CASE m.from = Nil /\ call' = call
    <3>1. ASSUME NEW g \in Goroutines PROVE Unregistered(g)'
      <4>1. Unregistered(g) /\ g # Nil
        BY DEF RowsInv
      <4> QED
        BY <2>1, <2>4, <4>1 DEF Unregistered, DocsOf, Docs, EmailOfCall
    <3> QED
      BY <2>3, <3>1 DEF RowsInv
  <2>5. CASE m.from \in Goroutines /\ call[m.from].pc = "register"
    <3>1. /\ call[m.from].user = m.user /\ call'[m.from].user = m.user
          /\ call'[m.from].pc \in {"expiry", "undo"}
          /\ \A h \in Goroutines : h # m.from => call'[h] = call[h]
      BY <1>7, <2>5, RegisterEffect
    <3>2. \A h \in Goroutines : h # m.from => call'[h].pc = "idle"
      BY <1>1, <2>5, <3>1 DEF OneCall, CallBusy
    <3>3. \A n \in wire : n.user = m.user => n = m
      <4> TAKE n \in wire
      <4>1. n.user = m.user => n.from = m.from
        BY <2>5, <3>1 DEF RowsInv, Unregistered
      <4> QED
        BY <1>2, <4>1
    <3>4. call'[m.from].pc = "undo" => appUsers' = appUsers
      BY <1>7, <2>5, RefusedLeavesTable
    <3>5. Unregistered(m.from)'
      BY <2>1, <2>5, <3>1, <3>3, <3>4 DEF RowsInv, Unregistered
    <3>6. \A h \in Goroutines : Unregistered(h)'
      BY <3>2, <3>5 DEF Unregistered
    <3> QED
      BY <2>3, <3>6 DEF RowsInv
  <2> QED
    BY <1>7, <2>4, <2>5, RegisterEffect
<1>8. ASSUME NEW g \in Goroutines, Undo(g) PROVE RowsInv'
  <2>1. /\ call[g].pc = "undo" /\ call'[g].pc = "idle"
        /\ appUsers' = appUsers /\ wire' = wire
        /\ \A h \in Goroutines : h # g => call'[h] = call[h]
    BY <1>8, UndoEffect DEF Undo
  <2>2. CASE accounts' = accounts
    BY <2>1, <2>2, RowsQuiet
  <2>3. ASSUME NEW d \in Docs, accounts[d].id = call[g].user.id, Docs' = Docs \ {d},
               \A c \in Docs' : accounts'[c] = accounts[c]
        PROVE  RowsInv'
    <3>1. accounts[d] = call[g].user
      BY <1>1, <2>1, <2>3 DEF Stage, UniqueAccounts
    <3>2. ASSUME NEW r, HasAccount(r), r # call[g].user PROVE HasAccount(r)'
      BY <2>3, <3>1, <3>2 DEF HasAccount
    <3>3. call[g].user \notin appUsers /\ \A m \in wire : m.user # call[g].user
      BY <2>1 DEF RowsInv, Unregistered
    <3>4. \A h \in Goroutines : call'[h].pc = "idle"
      BY <1>1, <2>1 DEF OneCall, CallBusy
    <3>5. \A h \in Goroutines : Unregistered(h)'
      BY <3>4 DEF Unregistered
    <3> QED
      BY <2>1, <3>2, <3>3, <3>5 DEF RowsInv
  <2> QED
    BY <1>8, <2>2, <2>3, UndoEffect
<1>9. ASSUME NEW g \in Goroutines, Expiry(g) \/ Store(g) \/ Deliver(g) PROVE RowsInv'
  <2>1. UNCHANGED <<accounts, appUsers, wire>>
    BY <1>9 DEF Expiry, Store, Deliver, userVars
  <2>2. call'[g].pc \in {"idle", "store", "deliver"}
        /\ \A h \in Goroutines : h # g => call'[h] = call[h]
    BY <1>1, <1>9, EndEffect, GotoEffect DEF Expiry, Store, Deliver
  <2> QED
    BY <2>1, <2>2, RowsQuiet
<1>10. ASSUME NEW g \in Goroutines, NEW b \in Browsers, NEW p \in Browsers,
             NEW s \in Sessions, Authorize(g, b, p, s)
       PROVE  RowsInv'
  <2>1. UNCHANGED <<accounts, appUsers, wire>>
    BY <1>10 DEF Authorize, userVars
  <2>2. call'[g].pc = "find" /\ \A h \in Goroutines : h # g => call'[h] = call[h]
    BY <1>1, <1>10 DEF Authorize, TypeOK, IdleCall
  <2> QED
    BY <2>1, <2>2, RowsQuiet
<1>11. CASE Crash
  <2>1. \A m \in wire' : \E n \in wire : m.user = n.user /\ m.from = Nil
    BY <1>2, <1>11 DEF Crash
  <2>2. \A g \in Goroutines : call'[g].pc = "idle"
    BY <1>11 DEF Crash, IdleCall
  <2> QED
    BY <1>11, <2>1, <2>2, RowsQuiet DEF Crash
<1>12. CASE UNCHANGED <<accounts, appUsers, wire, call>>
  BY <1>12, RowsQuiet
<1> QED
  BY <1>3, <1>4, <1>5, <1>6, <1>7, <1>8, <1>9, <1>10, <1>11, <1>12, NextSplit, InnerKeepsCalls
     DEF ServerStep, CallStep, Expire, Answer, Request, Callback, userVars

LEMMA RowsInvariant ==
    ASSUME ~Overlap, "find" \notin Faults, "lost" \notin Faults
    PROVE  Spec => []RowsInv
<1>1. Init => RowsInv
  BY DEF Init, RowsInv, Unregistered, IdleCall
<1>2. RowsInv /\ UNCHANGED vars => RowsInv'
  BY RowsQuiet DEF vars, userVars
<1>3. SignInInv /\ SerialInv /\ RowsInv /\ [Next]_vars => RowsInv'
  BY <1>2, RowsStep
<1> QED
  BY <1>1, <1>3, SignInInvariant, SerialInvariant, PTL DEF Spec

LEMMA RegistryStep ==
    ASSUME SignInInv, SerialInv, RowsInv, Next
    PROVE  [R!Next]_appUsers
<1>1. TypeOK /\ UniqueAccounts /\ IdsInRange
  BY DEF SignInInv, SerialInv
<1>2. ASSUME NEW m \in wire, appUsers' = appUsers \cup {m.user}, m.user \notin appUsers
      PROVE  R!Next
  <2>1. m.user \in User /\ appUsers \subseteq User
    BY <1>1 DEF TypeOK
  <2>2. PICK d \in Docs : accounts[d] = m.user
    BY DEF RowsInv, HasAccount
  <2>3. ASSUME NEW r \in appUsers, r.id = m.user.id \/ r.email = m.user.email
        PROVE  FALSE
    <3>1. PICK c \in Docs : accounts[c] = r
      BY DEF RowsInv, HasAccount
    <3>2. c = d
      BY <1>1, <2>2, <2>3, <3>1 DEF UniqueAccounts
    <3> QED
      BY <1>2, <2>2, <3>1, <3>2
  <2>4. m.user.id \in 1 .. Cardinality(DocIds)
    <3>1. Cardinality(Docs) <= Cardinality(DocIds) /\ Cardinality(DocIds) \in Nat
      BY FS_Subset, FS_CardinalityType DEF Docs
    <3> QED
      BY <1>1, <2>2, <3>1, DocsFinite DEF IdsInRange
  <2>5. m.user.email \in Emails /\ m.user = [id |-> m.user.id, email |-> m.user.email]
    BY <2>1 DEF User
  <2>6. R!Enter(m.user.id, m.user.email)
    BY <1>2, <2>3, <2>5 DEF R!Enter
  <2> QED
    BY <2>4, <2>5, <2>6 DEF R!Next
<1>3. ASSUME NEW m \in wire, Register(m) PROVE [R!Next]_appUsers
  <2>1. appUsers' = appUsers \/ appUsers' = appUsers \cup {m.user}
    BY <1>3 DEF Register
  <2>2. CASE m.user \in appUsers
    <3>1. appUsers \cup {m.user} = appUsers
      BY <2>2
    <3> QED
      BY <2>1, <3>1
  <2> QED
    BY <1>2, <2>1, <2>2
<1>4. ASSUME NEW g \in Goroutines, Find(g) \/ Count(g) \/ Insert(g) \/ Undo(g)
      PROVE  appUsers' = appUsers
  BY <1>4, FindEffect, CountEffect, InsertEffect, UndoEffect
<1>5. CASE UNCHANGED appUsers
  BY <1>5
<1> QED
  BY <1>3, <1>4, <1>5, NextSplit, InnerKeepsCalls
     DEF ServerStep, CallStep, Refind, Expiry, Store, Deliver, Authorize, Expire, Crash,
         Answer, Request, Callback, userVars

(* When sign-ins do not overlap and no answer to a registration is lost,   *)
(* the users table of the application server implements the Registry, also *)
(* with requests that arrive after a restart, refusals and undos           *)
(* (AuthenticationServerHandler.go:206-225, UserRestController.cpp:25-28). *)
THEOREM RegistryImplemented ==
    ASSUME ~Overlap, "find" \notin Faults, "lost" \notin Faults
    PROVE  Spec => ImplementsRegistry
<1>1. Init => R!Init
  BY DEF Init, R!Init
<1>2. SignInInv /\ SerialInv /\ RowsInv /\ [Next]_vars => [R!Next]_appUsers
  <2>1. UNCHANGED vars => UNCHANGED appUsers
    BY DEF vars, userVars
  <2> QED
    BY <2>1, RegistryStep
<1> QED
  BY <1>1, <1>2, SignInInvariant, SerialInvariant, RowsInvariant, PTL
     DEF Spec, ImplementsRegistry, R!Spec

-----------------------------------------------------------------------------
(* An account whose registration broke off.                                *)

Creation == {"count", "insert", "refind", "register", "undo"}

\* Where a request may have gone from: it registers while it is in Creation.
Progress(g) ==
    \/ call'[g].pc \in {"idle", "find"}
    \/ call'[g] = call[g]
    \/ /\ call[g].pc = "find" /\ call'[g].pc = "count" /\ call'[g].register
       /\ DocsOf(EmailOfCall(g)) = {} \/ May("find")
       /\ EmailOfCall(g)' = EmailOfCall(g)
    \/ /\ call[g].pc = "find" /\ call'[g].pc = "expiry"
       /\ call'[g].register = call[g].register /\ EmailOfCall(g)' = EmailOfCall(g)
    \/ /\ call[g].pc \notin {"idle", "find"}
       /\ call'[g].register = call[g].register /\ EmailOfCall(g)' = EmailOfCall(g)
       /\ call'[g].pc \in Creation => call[g].pc \in Creation

LEMMA ProgressStep == ASSUME SignInInv, Next PROVE \A g \in Goroutines : Progress(g)
<1>1. TypeOK
  BY DEF SignInInv
<1> TAKE g \in Goroutines
<1>2. ASSUME NEW h \in Goroutines, CallEnd(h) PROVE Progress(g)
  BY <1>1, <1>2, EndEffect DEF Progress
<1>3. ASSUME NEW h \in Goroutines, Find(h) PROVE Progress(g)
  <2>1. ASSUME NEW d \in DocsOf(EmailOfCall(h)),
               call' = [call EXCEPT ![h].pc = "expiry", ![h].user = accounts[d]]
        PROVE  Progress(g)
    <3>1. /\ call'[h].pc = "expiry" /\ call'[h].person = call[h].person
          /\ call'[h].register = call[h].register
          /\ \A f \in Goroutines : f # h => call'[f] = call[f]
      BY <1>1, <2>1 DEF TypeOK, Call
    <3> QED
      BY <1>3, <3>1 DEF Find, Progress, EmailOfCall
  <2>2. CASE /\ DocsOf(EmailOfCall(h)) = {} \/ May("find")
             /\ call' = [call EXCEPT ![h].pc = "count", ![h].register = TRUE]
    <3>1. /\ call'[h].pc = "count" /\ call'[h].person = call[h].person
          /\ call'[h].register
          /\ \A f \in Goroutines : f # h => call'[f] = call[f]
      BY <1>1, <2>2 DEF TypeOK, Call
    <3> QED
      BY <1>3, <2>2, <3>1 DEF Find, Progress, EmailOfCall
  <2> QED
    BY <1>2, <1>3, <2>1, <2>2 DEF Find
<1>4. ASSUME NEW h \in Goroutines, NEW pc, CallGoto(h, pc),
             call[h].pc \in {"expiry", "store"}, pc \notin Creation
      PROVE  Progress(g)
  BY <1>1, <1>4, GotoEffect DEF Progress, EmailOfCall, Creation
<1>5. ASSUME NEW h \in Goroutines, Count(h) PROVE Progress(g)
  <2>1. CASE call' = [call EXCEPT ![h].pc = "insert", ![h].count = Cardinality(Docs)]
    <3>1. /\ call'[h].pc = "insert" /\ call'[h].person = call[h].person
          /\ call'[h].register = call[h].register
          /\ \A f \in Goroutines : f # h => call'[f] = call[f]
      BY <1>1, <2>1 DEF TypeOK, Call
    <3> QED
      BY <1>5, <3>1 DEF Count, Progress, EmailOfCall, Creation
  <2>2. CASE CallGoto(h, "refind")
    <3>1. call[h].pc \in Creation
      BY <1>5 DEF Count, Creation
    <3> QED
      BY <1>1, <2>2, <3>1, GotoEffect DEF Progress, EmailOfCall, Creation
  <2> QED
    BY <1>5, <2>1, <2>2 DEF Count
<1>6. ASSUME NEW h \in Goroutines, Insert(h) PROVE Progress(g)
  <2>1. /\ call'[h].pc = "refind" /\ call'[h].person = call[h].person
        /\ call'[h].register = call[h].register
        /\ \A f \in Goroutines : f # h => call'[f] = call[f]
    BY <1>1, <1>6 DEF Insert, TypeOK, Call
  <2> QED
    BY <1>6, <2>1 DEF Insert, Progress, EmailOfCall, Creation
<1>7. ASSUME NEW h \in Goroutines, Refind(h) PROVE Progress(g)
  <2>1. ASSUME NEW d \in DocsOf(EmailOfCall(h)),
               call' = [call EXCEPT ![h].pc = "register", ![h].user = accounts[d]]
        PROVE  Progress(g)
    <3>1. /\ call'[h].pc = "register" /\ call'[h].person = call[h].person
          /\ call'[h].register = call[h].register
          /\ \A f \in Goroutines : f # h => call'[f] = call[f]
      BY <1>1, <2>1 DEF TypeOK, Call
    <3> QED
      BY <1>7, <3>1 DEF Refind, Progress, EmailOfCall, Creation
  <2> QED
    BY <1>2, <1>7, <2>1 DEF Refind
<1>8. ASSUME NEW m \in wire, Register(m) PROVE Progress(g)
  BY <1>8, RegisterEffect DEF Progress, EmailOfCall, Creation
<1>9. ASSUME NEW h \in Goroutines, Undo(h) \/ Expiry(h) \/ Store(h) \/ Deliver(h)
      PROVE  Progress(g)
  BY <1>2, <1>4, <1>9 DEF Undo, Expiry, Store, Deliver, Creation
<1>10. ASSUME NEW h \in Goroutines, NEW b \in Browsers, NEW p \in Browsers,
             NEW s \in Sessions, Authorize(h, b, p, s)
       PROVE  Progress(g)
  BY <1>1, <1>10 DEF Authorize, TypeOK, IdleCall, Progress
<1>11. CASE Crash
  BY <1>11 DEF Crash, IdleCall, Progress
<1>12. CASE UNCHANGED call
  BY <1>12 DEF Progress
<1> QED
  BY <1>3, <1>5, <1>6, <1>7, <1>8, <1>9, <1>10, <1>11, <1>12, NextSplit, InnerKeepsCalls
     DEF ServerStep, CallStep, Expire, Answer, Request, Callback

RegisterInv == \A g \in Goroutines : call[g].pc \in Creation => call[g].register

LEMMA RegisterInvariant == Spec => []RegisterInv
<1>1. Init => RegisterInv
  BY DEF Init, RegisterInv, IdleCall, Creation
<1>2. SignInInv /\ RegisterInv /\ [Next]_vars => RegisterInv'
  <2>1. ASSUME SignInInv, RegisterInv, Next PROVE RegisterInv'
    BY <2>1, ProgressStep DEF RegisterInv, Progress, Creation
  <2>2. RegisterInv /\ UNCHANGED vars => RegisterInv'
    BY DEF RegisterInv, vars
  <2> QED
    BY <2>1, <2>2
<1> QED
  BY <1>1, <1>2, SignInInvariant, PTL DEF Spec

\* What a step does to the tables and to the wire.
LEMMA TablesStep ==
    ASSUME SignInInv, Next
    PROVE  /\ \A r \in appUsers' : r \in appUsers \/ \E m \in wire : m.user = r
           /\ \A m \in wire' : \/ \E n \in wire : n.user = m.user
                               \/ \E g \in Goroutines : /\ call[g].pc = "refind"
                                                        /\ m.user.email = EmailOfCall(g)
           /\ \/ \A d \in Docs : d \in Docs' /\ accounts'[d] = accounts[d]
              \/ \E g \in Goroutines : Undo(g)
<1>1. TypeOK
  BY DEF SignInInv
<1> DEFINE Rows == \A r \in appUsers' : r \in appUsers \/ \E m \in wire : m.user = r
           Wires == \A m \in wire' : \/ \E n \in wire : n.user = m.user
                                     \/ \E g \in Goroutines : /\ call[g].pc = "refind"
                                                              /\ m.user.email = EmailOfCall(g)
           Kept == \/ \A d \in Docs : d \in Docs' /\ accounts'[d] = accounts[d]
                   \/ \E g \in Goroutines : Undo(g)
<1>2. CASE \E g \in Goroutines : Find(g) \/ Count(g) \/ Undo(g)
  BY <1>2, FindEffect, CountEffect, UndoEffect DEF Docs
<1>3. ASSUME NEW g \in Goroutines, Insert(g) PROVE Rows /\ Wires /\ Kept
  BY <1>3, InsertEffect DEF Docs
<1>4. ASSUME NEW g \in Goroutines, Refind(g) PROVE Rows /\ Wires /\ Kept
  <2>1. appUsers' = appUsers /\ accounts' = accounts /\ call[g].pc = "refind"
    BY <1>4 DEF Refind
  <2>2. Wires
    <3>1. ASSUME NEW d \in DocsOf(EmailOfCall(g)),
                 wire' = wire \cup {[user |-> accounts[d], from |-> g]}
          PROVE  Wires
      BY <2>1, <3>1 DEF DocsOf
    <3> QED
      BY <1>4, <3>1 DEF Refind
  <2> QED
    BY <2>1, <2>2 DEF Docs
<1>5. ASSUME NEW m \in wire, Register(m) PROVE Rows /\ Wires /\ Kept
  BY <1>5 DEF Register, Docs
<1>6. CASE Crash
  <2>1. Wires
    <3>1. \A m \in wire : [m EXCEPT !.from = Nil].user = m.user
      BY <1>1 DEF TypeOK
    <3> QED
      BY <1>6, <3>1 DEF Crash
  <2> QED
    BY <1>6, <2>1 DEF Crash, Docs
<1>7. CASE UNCHANGED <<accounts, wire, appUsers>>
  BY <1>7 DEF Docs
<1> QED
  BY <1>2, <1>3, <1>4, <1>5, <1>6, <1>7, NextSplit, InnerKeepsCalls
     DEF ServerStep, CallStep, Expiry, Store, Deliver, Authorize, Expire, Answer, Request,
         Callback, userVars

(* An account whose registration broke off is never registered, when       *)
(* sign-ins do not overlap: the next sign-in finds it and skips the        *)
(* registration (AuthenticationServerHandler.go:182-194).                  *)
THEOREM StrandedStays ==
    ASSUME ~Overlap, "find" \notin Faults
    PROVE  Spec => StrandedForever
<1>1. ASSUME SignInInv, SerialInv, RegisterInv, Next, NEW e \in Emails, Stranded(e)
      PROVE  Stranded(e)'
  <2>1. /\ UniqueAccounts /\ \A g \in Goroutines : Stage(g) /\ CallKnows(g)
    BY <1>1 DEF SignInInv, SerialInv
  <2>2. \A g \in Goroutines : call[g].pc \in Creation => EmailOfCall(g) # e
    BY <1>1 DEF Stranded, RegisterInv, CallBusy, Creation
  <2>3. \A r \in appUsers' : r.email # e
    BY <1>1, TablesStep DEF Stranded
  <2>4. \A m \in wire' : m.user.email # e
    BY <1>1, <2>2, TablesStep DEF Stranded, Creation
  <2>5. DocsOf(e)' # {}
    <3>1. PICK d \in Docs : accounts[d].email = e
      BY <1>1 DEF Stranded, DocsOf
    <3>2. ASSUME NEW g \in Goroutines, Undo(g), d \notin Docs' \/ accounts'[d] # accounts[d]
          PROVE  FALSE
      <4>1. accounts[d].id = call[g].user.id /\ call[g].pc = "undo"
        BY <1>1, <3>2, UndoEffect DEF Undo, Docs
      <4>2. accounts[d] = call[g].user
        BY <2>1, <4>1 DEF Stage, UniqueAccounts
      <4>3. accounts[d].email = EmailOfCall(g)
        BY <2>1, <4>1, <4>2 DEF CallKnows
      <4> QED
        BY <2>2, <3>1, <4>1, <4>3 DEF Creation
    <3>3. d \in Docs' /\ accounts'[d] = accounts[d]
      BY <1>1, <3>2, TablesStep
    <3> QED
      BY <3>1, <3>3 DEF DocsOf
  <2>6. ASSUME NEW g \in Goroutines, CallBusy(g)', EmailOfCall(g)' = e
        PROVE  call'[g].pc = "find" \/ ~call'[g].register
    <3>1. Progress(g)
      BY <1>1, ProgressStep
    <3>2. CallBusy(g) /\ EmailOfCall(g) = e => call[g].pc = "find" \/ ~call[g].register
      BY <1>1 DEF Stranded
    <3>3. call[g].pc = "find" => ~call[g].register
      BY <2>1 DEF CallKnows
    <3>4. DocsOf(e) # {}
      BY <1>1 DEF Stranded
    <3> QED
      BY <2>6, <3>1, <3>2, <3>3, <3>4 DEF Progress, CallBusy, EmailOfCall, May
  <2> QED
    BY <2>3, <2>4, <2>5, <2>6 DEF Stranded
<1>2. SignInInv /\ SerialInv /\ RegisterInv /\ [Next]_vars =>
        [\A e \in Emails : Stranded(e) => Stranded(e)']_vars
  BY <1>1
<1> QED
  BY <1>2, SignInInvariant, SerialInvariant, RegisterInvariant, PTL DEF Spec, StrandedForever

-----------------------------------------------------------------------------
(* The two user tables, while the process lives and MongoDB can be read    *)
(* and undone.  The document being created is the last one, or there is    *)
(* none, so that all the others are settled.                               *)

Reliable == ~Overlap /\ KeyedIds /\ \A f \in {"find", "read", "undo", "crash"} : ~May(f)

Making == {"refind", "register", "undo"}

LEMMA NoneBeingCreated ==
    ASSUME \A g \in Goroutines : call[g].pc \notin Making
    PROVE  Settled = Docs
  BY DEF Settled, BeingCreated, Making

LEMMA LastBeingCreated ==
    ASSUME SignInInv, SerialInv, NEW g \in Goroutines, call[g].pc \in Making
    PROVE  /\ DocsOf(EmailOfCall(g)) = {} => Settled = Docs
           /\ \A d \in DocsOf(EmailOfCall(g)) :
                 /\ Settled = Docs \ {d}
                 /\ accounts[d].id = Cardinality(Settled) + 1
<1>1. OneCall /\ UniqueAccounts /\ Stage(g) /\ CallKnows(g)
  BY DEF SignInInv, SerialInv
<1>2. \A h \in Goroutines : h # g => call[h].pc = "idle"
  BY <1>1 DEF OneCall, CallBusy, Making
<1>3. Settled = Docs \ DocsOf(EmailOfCall(g))
  BY <1>2 DEF Settled, BeingCreated, Making, DocsOf
<1>4. ASSUME NEW d \in DocsOf(EmailOfCall(g))
      PROVE  Settled = Docs \ {d} /\ accounts[d].id = Cardinality(Settled) + 1
  <2>1. d \in Docs /\ accounts[d].email = EmailOfCall(g)
    BY DEF DocsOf
  <2>2. DocsOf(EmailOfCall(g)) = {d}
    BY <1>1, <2>1 DEF UniqueAccounts, DocsOf
  <2>3. Cardinality(Docs \ {d}) = Cardinality(Docs) - 1
    BY <2>1, DocsFinite, FS_RemoveElement
  <2>4. accounts[d].id = Cardinality(Docs)
    <3>1. CASE call[g].pc = "refind"
      BY <1>1, <3>1 DEF Stage
    <3>2. CASE call[g].pc \in {"register", "undo"}
      <4>1. PICK c \in Docs : accounts[c] = call[g].user
        BY <1>1, <3>2 DEF Stage
      <4>2. c = d
        BY <1>1, <2>1, <3>2, <4>1 DEF CallKnows, UniqueAccounts
      <4> QED
        BY <1>1, <3>2, <4>1, <4>2 DEF Stage
    <3> QED
      BY <3>1, <3>2 DEF Making
  <2> QED
    BY <1>3, <2>2, <2>3, <2>4, DocsFinite
<1> QED
  BY <1>3, <1>4

\* A step leaves the settled documents and the rows alone, or it enters the row
\* of the document being created; then no row had its id.
Settles(m) ==
    /\ m \in wire /\ appUsers' = appUsers \cup {m.user} /\ Docs' = Docs /\ accounts' = accounts
    /\ m.user.id = Cardinality(Settled) + 1 /\ \A r \in appUsers : r.id # m.user.id
    /\ \E d \in Docs : accounts[d] = m.user
    /\ Settled' = Settled \/ Settled' = Docs

\* A row without its account afterwards has the id of the next newcomer.
Keeps ==
    /\ Settled' = Settled /\ appUsers' = appUsers
    /\ \A d \in Settled : accounts'[d] = accounts[d]
    /\ \A d \in Docs : \/ accounts[d].id = Cardinality(Settled) + 1
                       \/ d \in Docs' /\ accounts'[d] = accounts[d]

LEMMA SettledSame ==
    ASSUME UNCHANGED accounts,
           \A g \in Goroutines :
              /\ call'[g].pc \in Making <=> call[g].pc \in Making
              /\ call[g].pc \in Making => EmailOfCall(g)' = EmailOfCall(g)
    PROVE  Docs' = Docs /\ Settled' = Settled
  BY DEF Docs, Settled, BeingCreated, Making

LEMMA NoneBeingCreatedNext ==
    ASSUME \A g \in Goroutines : call'[g].pc \notin Making
    PROVE  Settled' = Docs'
  BY DEF Settled, BeingCreated, Making

LEMMA SettleStep ==
    ASSUME Reliable, SignInInv, SerialInv, \A m \in wire : m.from # Nil, Next
    PROVE  Keeps \/ \E m \in wire : Settles(m)
<1>1. /\ TypeOK /\ OneCall /\ UniqueAccounts
      /\ \A g \in Goroutines : Stage(g) /\ CallKnows(g)
  BY DEF SignInInv, SerialInv
<1>2. \A f \in {"find", "read", "undo", "crash"} : ~May(f)
  BY DEF Reliable
<1>3. ASSUME NEW g \in Goroutines, call[g].pc # "idle", NEW h \in Goroutines, h # g
      PROVE  call[h].pc = "idle"
  BY <1>1, <1>3 DEF OneCall, CallBusy
<1>4. ASSUME UNCHANGED <<accounts, appUsers>>,
             \A g \in Goroutines :
                /\ call'[g].pc \in Making <=> call[g].pc \in Making
                /\ call[g].pc \in Making => EmailOfCall(g)' = EmailOfCall(g)
      PROVE  Keeps
  BY <1>4, SettledSame DEF Keeps
<1>o. ASSUME UNCHANGED <<accounts, appUsers>>, NEW g \in Goroutines,
             call[g].pc \notin Making, call'[g].pc \notin Making,
             \A h \in Goroutines : h # g => call'[h] = call[h]
      PROVE  Keeps
  BY <1>4, <1>o DEF EmailOfCall
<1>5. ASSUME NEW g \in Goroutines, Find(g) PROVE Keeps
  <2>1. call[g].pc \notin Making /\ call'[g].pc \notin Making
    BY <1>5, FindEffect DEF Find, Making
  <2> QED
    BY <1>o, <1>5, <2>1, FindEffect
<1>6. ASSUME NEW g \in Goroutines, Count(g) PROVE Keeps
  <2>1. call'[g].pc = "insert"
    BY <1>1, <1>2, <1>6 DEF Count, TypeOK, Call
  <2>2. call[g].pc \notin Making /\ call'[g].pc \notin Making
    BY <1>6, <2>1 DEF Count, Making
  <2> QED
    BY <1>o, <1>6, <2>2, CountEffect
<1>7. ASSUME NEW g \in Goroutines, Insert(g) PROVE Keeps
  <2>1. /\ appUsers' = appUsers /\ call[g].pc = "insert" /\ call'[g].pc = "refind"
        /\ EmailOfCall(g)' = EmailOfCall(g) /\ DocsOf(EmailOfCall(g)) = {}
        /\ \A h \in Goroutines : h # g => call'[h].pc = "idle"
    BY <1>1, <1>3, <1>7, InsertEffect DEF Stage, EmailOfCall
  <2>2. Settled = Docs
    BY <1>3, <2>1, NoneBeingCreated DEF Making
  <2>3. Settled' = Docs' \ DocsOf(EmailOfCall(g))'
    BY <2>1 DEF Settled, BeingCreated, Making, DocsOf
  <2>4. CASE accounts' = accounts
    <3>1. Docs' = Docs /\ DocsOf(EmailOfCall(g))' = {}
      BY <2>1, <2>4 DEF Docs, DocsOf
    <3> QED
      BY <2>1, <2>2, <2>3, <2>4, <3>1 DEF Keeps
  <2>5. ASSUME NEW d \in DocIds \ Docs, Docs' = Docs \cup {d},
               accounts'[d].email = EmailOfCall(g), \A c \in Docs : accounts'[c] = accounts[c]
        PROVE  Keeps
    <3>1. DocsOf(EmailOfCall(g))' = {d}
      BY <2>1, <2>5 DEF DocsOf
    <3> QED
      BY <2>1, <2>2, <2>3, <2>5, <3>1 DEF Keeps
  <2> QED
    BY <1>7, <2>4, <2>5, InsertEffect
<1>8. ASSUME NEW g \in Goroutines, Refind(g) PROVE Keeps
  <2>1. UNCHANGED <<accounts, appUsers>> /\ call[g].pc = "refind"
    BY <1>8 DEF Refind
  <2>2. CASE DocsOf(EmailOfCall(g)) = {} /\ CallEnd(g)
    <3>1. \A h \in Goroutines : call'[h].pc = "idle"
      BY <1>1, <1>3, <2>1, <2>2, EndEffect
    <3>2. Settled = Docs
      BY <2>1, <2>2, LastBeingCreated DEF Making
    <3>3. Settled' = Docs' /\ Docs' = Docs
      BY <2>1, <3>1, NoneBeingCreatedNext DEF Making, Docs
    <3> QED
      BY <2>1, <3>2, <3>3 DEF Keeps
  <2>3. ASSUME NEW d \in DocsOf(EmailOfCall(g)),
               call' = [call EXCEPT ![g].pc = "register", ![g].user = accounts[d]]
        PROVE  Keeps
    <3>1. /\ call'[g].pc = "register" /\ call'[g].person = call[g].person
          /\ \A h \in Goroutines : h # g => call'[h] = call[h]
      BY <1>1, <2>3 DEF TypeOK, Call
    <3> QED
      BY <1>4, <2>1, <3>1 DEF Making, EmailOfCall
  <2> QED
    BY <1>2, <1>8, <2>2, <2>3 DEF Refind
<1>9. ASSUME NEW m \in wire, Register(m) PROVE Keeps \/ Settles(m)
  <2>1. /\ m.from \in Goroutines /\ call[m.from].pc = "register" /\ call[m.from].user = m.user
        /\ call'[m.from].pc \in {"expiry", "undo"} /\ accounts' = accounts
        /\ EmailOfCall(m.from)' = EmailOfCall(m.from)
        /\ \A h \in Goroutines : h # m.from => call'[h] = call[h]
    BY <1>9, RegisterEffect DEF EmailOfCall, Register
  <2>2. PICK d \in Docs : accounts[d] = m.user
    BY <1>1, <2>1 DEF Stage
  <2>3. d \in DocsOf(EmailOfCall(m.from))
    <3>1. CallKnows(m.from)
      BY <1>1, <2>1
    <3>2. call[m.from].user.email = EmailOfCall(m.from)
      BY <2>1, <3>1 DEF CallKnows
    <3> QED
      BY <2>1, <2>2, <3>2 DEF DocsOf
  <2>4. m.user.id = Cardinality(Settled) + 1
    BY <2>1, <2>2, <2>3, LastBeingCreated DEF Making
  <2>5. call'[m.from].pc = "undo" => Settled' = Settled /\ Docs' = Docs
    <3>1. ASSUME call'[m.from].pc = "undo", NEW g \in Goroutines
          PROVE  /\ call'[g].pc \in Making <=> call[g].pc \in Making
                 /\ EmailOfCall(g)' = EmailOfCall(g)
      BY <2>1, <3>1 DEF Making, EmailOfCall
    <3> QED
      BY <2>1, <3>1, SettledSame
  <2>6. call'[m.from].pc = "expiry" => Settled' = Docs /\ Docs' = Docs
    <3>1. ASSUME call'[m.from].pc = "expiry" PROVE \A h \in Goroutines : call'[h].pc \notin Making
      BY <1>3, <2>1, <3>1 DEF Making
    <3>2. Docs' = Docs
      BY <2>1 DEF Docs
    <3> QED
      BY <3>1, <3>2, NoneBeingCreatedNext
  <2>7. CASE \A r \in appUsers : r.id # m.user.id
    <3>1. CASE appUsers' = appUsers \cup {m.user}
      BY <2>1, <2>2, <2>4, <2>5, <2>6, <2>7, <3>1 DEF Settles
    <3>2. CASE UNCHANGED appUsers /\ Answered(m.from, FALSE)
      <4>1. call'[m.from].pc = "undo"
        BY <1>1, <2>1, <3>2, GotoEffect DEF Answered
      <4> QED
        BY <2>1, <2>5, <3>2, <4>1 DEF Keeps
    <3> QED
      BY <1>9, <3>1, <3>2 DEF Register
  <2>8. CASE ~(\A r \in appUsers : r.id # m.user.id)
    <3>1. UNCHANGED appUsers /\ Answered(m.from, FALSE)
      BY <1>9, <2>8 DEF Register, Reliable
    <3>2. call'[m.from].pc = "undo"
      BY <1>1, <2>1, <3>1, GotoEffect DEF Answered
    <3> QED
      BY <2>1, <2>5, <3>1, <3>2 DEF Keeps
  <2> QED
    BY <2>7, <2>8
<1>10. ASSUME NEW g \in Goroutines, Undo(g) PROVE Keeps
  <2>1. /\ call[g].pc = "undo" /\ appUsers' = appUsers
        /\ \A h \in Goroutines : call'[h].pc = "idle"
    BY <1>3, <1>10, UndoEffect DEF Undo
  <2>2. PICK c \in Docs : accounts[c] = call[g].user
    BY <1>1, <2>1 DEF Stage
  <2>3. PICK d \in Docs : /\ accounts[d].id = call[g].user.id
                          /\ accounts' = [accounts EXCEPT ![d] = Nil]
    BY <1>2, <1>10, <2>2 DEF Undo, RemoveById
  <2>4. d = c
    BY <1>1, <2>2, <2>3 DEF UniqueAccounts
  <2>5. d \in DocsOf(EmailOfCall(g))
    BY <1>1, <2>1, <2>2, <2>4 DEF CallKnows, DocsOf
  <2>6. Settled = Docs \ {d} /\ accounts[d].id = Cardinality(Settled) + 1
    BY <2>1, <2>5, LastBeingCreated DEF Making
  <2>7. Docs' = Docs \ {d} /\ \A b \in Docs' : accounts'[b] = accounts[b]
    BY <1>1, <2>3 DEF TypeOK, Docs
  <2>8. Settled' = Docs'
    BY <2>1, NoneBeingCreatedNext DEF Making
  <2>9. /\ Settled' = Settled
        /\ \A b \in Settled : accounts'[b] = accounts[b]
    BY <2>6, <2>7, <2>8
  <2>10. \A b \in Docs : b # d => b \in Docs' /\ accounts'[b] = accounts[b]
    BY <2>7
  <2>11. \A b \in Docs :
            \/ accounts[b].id = Cardinality(Settled) + 1
            \/ b \in Docs' /\ accounts'[b] = accounts[b]
    BY <2>6, <2>10
  <2> QED
    BY <2>1, <2>9, <2>11 DEF Keeps
<1>11. ASSUME NEW g \in Goroutines, Expiry(g) \/ Store(g) \/ Deliver(g) PROVE Keeps
  <2>1. UNCHANGED <<accounts, appUsers>> /\ call[g].pc \in {"expiry", "store", "deliver"}
    BY <1>11 DEF Expiry, Store, Deliver, userVars
  <2>2. call'[g].pc \in {"idle", "store", "deliver"}
        /\ \A h \in Goroutines : h # g => call'[h] = call[h]
    BY <1>1, <1>11, EndEffect, GotoEffect DEF Expiry, Store, Deliver
  <2> QED
    BY <1>4, <2>1, <2>2 DEF Making, EmailOfCall
<1>12. ASSUME NEW g \in Goroutines, NEW b \in Browsers, NEW p \in Browsers,
             NEW s \in Sessions, Authorize(g, b, p, s)
       PROVE  Keeps
  <2>1. UNCHANGED <<accounts, appUsers>> /\ call[g].pc = "idle"
    BY <1>12 DEF Authorize, userVars
  <2>2. call'[g].pc = "find" /\ \A h \in Goroutines : h # g => call'[h] = call[h]
    BY <1>1, <1>12 DEF Authorize, TypeOK, IdleCall
  <2> QED
    BY <1>4, <2>1, <2>2 DEF Making, EmailOfCall
<1>13. CASE UNCHANGED <<accounts, appUsers, call>>
  BY <1>4, <1>13 DEF EmailOfCall
<1> QED
  BY <1>2, <1>5, <1>6, <1>7, <1>8, <1>9, <1>10, <1>11, <1>12, <1>13, NextSplit, InnerKeepsCalls
     DEF ServerStep, CallStep, Expire, Crash, Answer, Request, Callback, userVars

-----------------------------------------------------------------------------
\* The rows and the settled documents.
SettledAgree ==
    /\ \A d \in Settled : accounts[d] \in appUsers
    /\ \A r \in appUsers :
          (\E d \in Docs : accounts[d] = r) \/ r.id = Cardinality(Settled) + 1

LEMMA SettledAgreeStep ==
    ASSUME Reliable, SignInInv, SerialInv, \A m \in wire : m.from # Nil, SettledAgree, Next
    PROVE  SettledAgree' /\ appUsers \subseteq appUsers'
<1>1. CASE Keeps
  <2>1. \A d \in Settled' : accounts'[d] \in appUsers'
    BY <1>1 DEF Keeps, SettledAgree
  <2>2. ASSUME NEW r \in appUsers'
        PROVE  (\E d \in Docs' : accounts'[d] = r) \/ r.id = Cardinality(Settled') + 1
    BY <1>1 DEF Keeps, SettledAgree
  <2> QED
    BY <1>1, <2>1, <2>2 DEF SettledAgree, Keeps
<1>2. ASSUME NEW m \in wire, Settles(m) PROVE SettledAgree' /\ appUsers \subseteq appUsers'
  <2>1. /\ appUsers' = appUsers \cup {m.user} /\ Docs' = Docs /\ accounts' = accounts
        /\ m.user.id = Cardinality(Settled) + 1 /\ \A r \in appUsers : r.id # m.user.id
        /\ \E d \in Docs : accounts[d] = m.user
        /\ Settled' = Settled \/ Settled' = Docs
    BY <1>2 DEF Settles
  <2>2. \A r \in appUsers' : \E d \in Docs' : accounts'[d] = r
    BY <2>1 DEF SettledAgree
  <2>3. \A d \in Docs : d \notin Settled => accounts[d] = m.user
    <3>1. PICK g \in Goroutines : g = m.from /\ call[g].pc = "register" /\ call[g].user = m.user
      BY DEF SignInInv, WireMatches, TypeOK
    <3>2. PICK c \in Docs : accounts[c] = m.user
      BY <2>1
    <3>3. CallKnows(g)
      BY DEF SignInInv
    <3>4. c \in DocsOf(EmailOfCall(g))
      BY <3>1, <3>2, <3>3 DEF CallKnows, DocsOf
    <3>5. Settled = Docs \ {c}
      BY <3>1, <3>4, LastBeingCreated DEF Making
    <3> QED
      BY <3>2, <3>5
  <2>4. \A d \in Settled' : accounts'[d] \in appUsers'
    BY <2>1, <2>3 DEF SettledAgree, Settled
  <2> QED
    BY <2>1, <2>2, <2>4 DEF SettledAgree
<1> QED
  BY <1>1, <1>2, SettleStep

\* Only Refind puts a request on the wire; it waits for the answer.
LEMMA SendersStep ==
    ASSUME Reliable, SignInInv, \A m \in wire : m.from # Nil, Next
    PROVE  \A m \in wire' : m.from # Nil
<1>1. ASSUME NEW g \in Goroutines, Refind(g) PROVE \A m \in wire' : m.from # Nil
  BY <1>1 DEF Refind
<1>2. ASSUME NEW g \in Goroutines, Find(g) \/ Count(g) \/ Insert(g) \/ Undo(g)
      PROVE  wire' = wire
  BY <1>2, FindEffect, CountEffect, InsertEffect, UndoEffect
<1>3. ASSUME NEW m \in wire, Register(m) PROVE wire' \subseteq wire
  BY <1>3 DEF Register
<1>4. ~Crash
  BY DEF Crash, Reliable
<1> QED
  BY <1>1, <1>2, <1>3, <1>4, NextSplit, InnerKeepsCalls
     DEF ServerStep, CallStep, Expiry, Store, Deliver, Authorize, Expire, Answer, Request,
         Callback, userVars

\* Who has gone past the registration, or needed none, has a row.
UsersHaveRows ==
    \A g \in Goroutines : call[g].pc \in {"expiry", "store", "deliver"} => call[g].user \in appUsers

LEMMA UsersStep ==
    ASSUME Reliable, SignInInv, SerialInv, SettledAgree, UsersHaveRows,
           appUsers \subseteq appUsers', Next
    PROVE  UsersHaveRows'
<1>1. TypeOK /\ OneCall /\ \A g \in Goroutines : call'[g] = call[g] =>
         (call'[g].pc \in {"expiry", "store", "deliver"} => call'[g].user \in appUsers')
  BY DEF SignInInv, SerialInv, UsersHaveRows
<1>2. ASSUME NEW g \in Goroutines, \A h \in Goroutines : h # g => call'[h] = call[h],
             \/ call'[g].pc \notin {"expiry", "store", "deliver"}
             \/ call'[g].user \in appUsers'
      PROVE  UsersHaveRows'
  BY <1>1, <1>2 DEF UsersHaveRows
<1>3. ASSUME NEW g \in Goroutines, CallEnd(g) PROVE UsersHaveRows'
  BY <1>1, <1>2, <1>3, EndEffect
<1>4. ASSUME NEW g \in Goroutines, Find(g) PROVE UsersHaveRows'
  <2>1. ASSUME NEW d \in DocsOf(EmailOfCall(g)),
               call' = [call EXCEPT ![g].pc = "expiry", ![g].user = accounts[d]]
        PROVE  UsersHaveRows'
    <3>1. call'[g].user = accounts[d] /\ \A h \in Goroutines : h # g => call'[h] = call[h]
      BY <1>1, <2>1 DEF TypeOK, Call
    <3>2. \A h \in Goroutines : call[h].pc \notin Making
      BY <1>1, <1>4 DEF Find, OneCall, CallBusy, Making
    <3>3. accounts[d] \in appUsers
      BY <3>2, NoneBeingCreated DEF SettledAgree, DocsOf
    <3> QED
      BY <1>2, <3>1, <3>3
  <2>2. CASE call' = [call EXCEPT ![g].pc = "count", ![g].register = TRUE]
    <3>1. call'[g].pc = "count" /\ \A h \in Goroutines : h # g => call'[h] = call[h]
      BY <1>1, <2>2 DEF TypeOK, Call
    <3> QED
      BY <1>2, <3>1
  <2> QED
    BY <1>3, <1>4, <2>1, <2>2 DEF Find
<1>5. ASSUME NEW g \in Goroutines, Count(g) \/ Insert(g) \/ Undo(g) PROVE UsersHaveRows'
  <2>1. /\ call'[g].pc \notin {"expiry", "store", "deliver"}
        /\ \A h \in Goroutines : h # g => call'[h] = call[h]
    BY <1>5, CountEffect, InsertEffect, UndoEffect
  <2> QED
    BY <1>2, <2>1
<1>6. ASSUME NEW g \in Goroutines, Refind(g) PROVE UsersHaveRows'
  <2>1. ASSUME NEW d \in DocsOf(EmailOfCall(g)),
               call' = [call EXCEPT ![g].pc = "register", ![g].user = accounts[d]]
        PROVE  UsersHaveRows'
    <3>1. call'[g].pc = "register" /\ \A h \in Goroutines : h # g => call'[h] = call[h]
      BY <1>1, <2>1 DEF TypeOK, Call
    <3> QED
      BY <1>2, <3>1
  <2> QED
    BY <1>3, <1>6, <2>1 DEF Refind
<1>7. ASSUME NEW m \in wire, Register(m) PROVE UsersHaveRows'
  <2>1. CASE call' = call
    BY <1>1, <2>1 DEF UsersHaveRows
  <2>2. CASE m.from \in Goroutines /\ call' # call
    <3>1. /\ call'[m.from].pc \in {"expiry", "undo"}
          /\ call'[m.from].pc = "expiry" => m.user \in appUsers'
          /\ call'[m.from].user = m.user
          /\ \A h \in Goroutines : h # m.from => call'[h] = call[h]
      BY <1>7, <2>2, RegisterEffect
    <3> QED
      BY <1>2, <2>2, <3>1
  <2> QED
    BY <1>7, <2>1, <2>2, RegisterEffect
<1>8. ASSUME NEW g \in Goroutines, Expiry(g) \/ Store(g) PROVE UsersHaveRows'
  <2>1. ASSUME NEW pc, CallGoto(g, pc) PROVE UsersHaveRows'
    <3>1. call[g].user \in appUsers /\ call'[g].user = call[g].user
          /\ \A h \in Goroutines : h # g => call'[h] = call[h]
      BY <1>1, <1>8, <2>1, GotoEffect DEF Expiry, Store, UsersHaveRows
    <3> QED
      BY <1>2, <3>1
  <2> QED
    BY <1>3, <1>8, <2>1 DEF Expiry, Store
<1>9. ASSUME NEW g \in Goroutines, Deliver(g) PROVE UsersHaveRows'
  BY <1>3, <1>9 DEF Deliver
<1>10. ASSUME NEW g \in Goroutines, NEW b \in Browsers, NEW p \in Browsers,
             NEW s \in Sessions, Authorize(g, b, p, s)
       PROVE  UsersHaveRows'
  <2>1. call'[g].pc = "find" /\ \A h \in Goroutines : h # g => call'[h] = call[h]
    BY <1>1, <1>10 DEF Authorize, TypeOK, IdleCall
  <2> QED
    BY <1>2, <2>1
<1>11. CASE UNCHANGED call
  BY <1>1, <1>11 DEF UsersHaveRows
<1>12. ~Crash
  BY DEF Crash, Reliable
<1> QED
  BY <1>4, <1>5, <1>6, <1>7, <1>8, <1>9, <1>10, <1>11, <1>12, NextSplit, InnerKeepsCalls
     DEF ServerStep, CallStep, Expire, Answer, Request, Callback

\* So has whoever the tokens of a state or of a session are for.
TokensHaveRows ==
    /\ \A s \in Sessions : tokens[s] # Nil /\ tokens[s].jwt # Nil => tokens[s].jwt \in appUsers
    /\ \A s \in Sessions : HasTokens(s) => records[s] \in appUsers

LEMMA TokensRowsStep ==
    ASSUME SignInInv, UsersHaveRows, TokensHaveRows, appUsers \subseteq appUsers', Next
    PROVE  TokensHaveRows'
<1>1. TypeOK /\ Nil \notin User /\ Anonymous \notin User
  BY DEF SignInInv, User
<1> SUFFICES ASSUME NEW s \in Sessions
             PROVE  /\ tokens'[s] # Nil /\ tokens'[s].jwt # Nil => tokens'[s].jwt \in appUsers'
                    /\ records'[s] \in User => records'[s] \in appUsers'
  BY DEF TokensHaveRows, HasTokens
<1>2. /\ tokens[s] # Nil /\ tokens[s].jwt # Nil => tokens[s].jwt \in appUsers'
      /\ records[s] \in User => records[s] \in appUsers'
  BY DEF TokensHaveRows, HasTokens
<1> DEFINE Good == /\ tokens'[s] # Nil /\ tokens'[s].jwt # Nil => tokens'[s].jwt \in appUsers'
                   /\ records'[s] \in User => records'[s] \in appUsers'
<1>3. ASSUME NEW t \in Tasks, InnerStep(t) PROVE Good
  <2>1. tokens'[s] = tokens[s] \/ tokens'[s].jwt = Nil
    BY <1>1, <1>3 DEF InnerStep, Look, Save, Show, Ask, Remove, Revoke, NewLogin, Logout, TypeOK
  <2>2. records'[s] \in {records[s], Anonymous, Nil}
    BY <1>1, <1>3 DEF InnerStep, Look, Save, Show, Ask, Remove, Revoke, SaveAuthToken,
                      RemoveTokens, TypeOK
  <2> QED
    BY <1>1, <1>2, <2>1, <2>2
<1>4. ASSUME NEW g \in Goroutines, Store(g) PROVE Good
  <2>1. /\ call[g].user \in appUsers /\ tokens[call[g].state] # Nil /\ call[g].state \in Sessions
        /\ records' = records
    BY <1>4, CallFields DEF Store, UsersHaveRows, SignInInv, CallKnows, webVars
  <2>2. tokens'[s] = tokens[s] \/ tokens'[s].jwt = call[g].user
    BY <1>1, <1>4, <2>1 DEF Store, TypeOK, TokenData
  <2> QED
    BY <1>2, <2>1, <2>2
<1>5. ASSUME NEW g \in Goroutines, Deliver(g) PROVE Good
  <2>1. /\ tokens[call[g].state] # Nil /\ tokens[call[g].state].jwt # Nil
        /\ call[g].state \in Sessions /\ tokens' = tokens
    BY <1>5, CallFields DEF Deliver, SignInInv, CallKnows
  <2>2. tokens[call[g].state].jwt \in appUsers
    BY <2>1 DEF TokensHaveRows
  <2>3. records'[s] = records[s] \/ records'[s] = tokens[call[g].state].jwt
    BY <1>1, <1>5 DEF Deliver, SaveJWTTokens, TypeOK
  <2> QED
    BY <1>2, <2>1, <2>2, <2>3
<1>6. ASSUME NEW r \in Sessions, Expire(r) PROVE Good
  <2>1. /\ records' = records
        /\ \/ tokens'[s] = tokens[s]
           \/ tokens[s] # Nil /\ tokens'[s].jwt = tokens[s].jwt
    BY <1>1, <1>6 DEF Expire, TypeOK, TokenData, webVars
  <2> QED
    BY <1>2, <2>1
<1>7. CASE Crash
  BY <1>2, <1>7 DEF Crash, webVars
<1>8. CASE UNCHANGED <<tokens, records>>
  BY <1>2, <1>8
<1> QED
  BY <1>3, <1>4, <1>5, <1>6, <1>7, <1>8, NextSplit
     DEF ServerStep, CallStep, Find, Count, Insert, Refind, Register, Undo, Expiry, Authorize,
         Answer, Request, Callback, webVars

AgreeInv ==
    /\ \A m \in wire : m.from # Nil
    /\ SettledAgree /\ UsersHaveRows /\ TokensHaveRows

LEMMA AgreeInvariant == ASSUME Reliable PROVE Spec => []AgreeInv
<1>1. Init => AgreeInv
  BY DEF Init, AgreeInv, SettledAgree, UsersHaveRows, TokensHaveRows, HasTokens, IdleCall,
         Settled, Docs, User
<1>2. SignInInv /\ SerialInv /\ AgreeInv /\ [Next]_vars => AgreeInv'
  <2>1. ASSUME SignInInv, SerialInv, AgreeInv, Next PROVE AgreeInv'
    BY <2>1, SettledAgreeStep, SendersStep, UsersStep, TokensRowsStep DEF AgreeInv
  <2>2. AgreeInv /\ UNCHANGED vars => AgreeInv'
    BY DEF AgreeInv, SettledAgree, UsersHaveRows, TokensHaveRows, HasTokens, Settled, Docs,
           BeingCreated, EmailOfCall, vars, webVars, userVars
  <2> QED
    BY <2>1, <2>2
<1>3. ~Overlap /\ "find" \notin Faults
  BY DEF Reliable, May
<1> QED
  BY <1>1, <1>2, <1>3, SignInInvariant, SerialInvariant, PTL DEF Spec

(* While the process lives and MongoDB answers reads and undos, sign-ins   *)
(* that do not overlap keep the two user tables in step, up to the one row *)
(* a lost answer leaves (AuthenticationServerHandler.go:206-225,           *)
(* UserRestController.cpp:25-28).                                          *)
THEOREM TablesStayInStep == ASSUME Reliable PROVE Spec => []TablesAgree
<1>1. AgreeInv => TablesAgree
  BY DEF AgreeInv, SettledAgree, TokensHaveRows, TablesAgree
<1> QED
  BY <1>1, AgreeInvariant, PTL

(* That row locks the newcomers out: it has the id of the document the     *)
(* next registration is for, and no later step settles a document or adds  *)
(* a row (UserCreator.go:23-28).                                           *)
THEOREM NewcomersLockedOut == ASSUME Reliable PROVE Spec => LostAnswerLocksOutNewcomers
<1>1. ASSUME SignInInv, SerialInv, AgreeInv, Next, IdTaken
      PROVE  IdTaken' /\ appUsers' = appUsers /\ Settled' = Settled
  <2>1. \A m \in wire : ~Settles(m)
    BY <1>1 DEF Settles, IdTaken
  <2>2. Keeps
    BY <1>1, <2>1, SettleStep DEF AgreeInv
  <2> QED
    BY <1>1, <2>2 DEF Keeps, IdTaken
<1>2. SignInInv /\ SerialInv /\ AgreeInv /\ [Next]_vars =>
        [IdTaken => IdTaken' /\ appUsers' = appUsers /\ Settled' = Settled]_vars
  BY <1>1
<1>3. ~Overlap /\ "find" \notin Faults
  BY DEF Reliable, May
<1> QED
  BY <1>2, <1>3, SignInInvariant, SerialInvariant, AgreeInvariant, PTL
     DEF Spec, LostAnswerLocksOutNewcomers

LEMMA SettlesEnters ==
    ASSUME SignInInv, SerialInv, SettledAgree, NEW m \in wire, Settles(m)
    PROVE  R!Next
<1>1. TypeOK /\ UniqueAccounts /\ IdsInRange
  BY DEF SignInInv, SerialInv
<1>2. m.user \in User /\ appUsers \subseteq User
  BY <1>1 DEF TypeOK
<1>3. PICK d \in Docs : accounts[d] = m.user
  BY DEF Settles
<1>4. ASSUME NEW r \in appUsers, r.email = m.user.email PROVE FALSE
  <2>1. r.id # m.user.id /\ r.id # Cardinality(Settled) + 1
    BY DEF Settles
  <2>2. PICK c \in Docs : accounts[c] = r
    BY <2>1 DEF SettledAgree
  <2>3. c = d
    BY <1>1, <1>3, <1>4, <2>2 DEF UniqueAccounts
  <2> QED
    BY <1>3, <2>1, <2>2, <2>3
<1>5. m.user.id \in 1 .. Cardinality(DocIds)
  <2>1. Cardinality(Docs) <= Cardinality(DocIds) /\ Cardinality(DocIds) \in Nat
    BY FS_Subset, FS_CardinalityType DEF Docs
  <2> QED
    BY <1>1, <1>3, <2>1, DocsFinite DEF IdsInRange
<1>6. m.user.email \in Emails /\ m.user = [id |-> m.user.id, email |-> m.user.email]
  BY <1>2 DEF User
<1>7. R!Enter(m.user.id, m.user.email)
  BY <1>4, <1>6 DEF R!Enter, Settles
<1> QED
  BY <1>5, <1>6, <1>7 DEF R!Next

(* The users table is the Registry also when answers to registrations are  *)
(* lost, as long as the account of each is undone and its row keeps the    *)
(* next registration out: nobody is entered twice                          *)
(* (AuthenticationServerHandler.go:213-222, UserRestController.cpp:25-28). *)
THEOREM RegistryDespiteLostAnswers == ASSUME Reliable PROVE Spec => ImplementsRegistry
<1>1. Init => R!Init
  BY DEF Init, R!Init
<1>2. SignInInv /\ SerialInv /\ AgreeInv /\ [Next]_vars => [R!Next]_appUsers
  <2>1. UNCHANGED vars => UNCHANGED appUsers
    BY DEF vars, userVars
  <2>2. ASSUME SignInInv, SerialInv, AgreeInv, Next PROVE [R!Next]_appUsers
    <3>1. CASE Keeps
      BY <3>1 DEF Keeps
    <3>2. ASSUME NEW m \in wire, Settles(m) PROVE R!Next
      BY <2>2, <3>2, SettlesEnters DEF AgreeInv
    <3> QED
      BY <2>2, <3>1, <3>2, SettleStep DEF AgreeInv
  <2> QED
    BY <2>1, <2>2
<1>3. ~Overlap /\ "find" \notin Faults
  BY DEF Reliable, May
<1> QED
  BY <1>1, <1>2, <1>3, SignInInvariant, SerialInvariant, AgreeInvariant, PTL
     DEF Spec, ImplementsRegistry, R!Spec

-----------------------------------------------------------------------------
(* Every request ends: the safety half of SignInAnswered.                  *)

\* At most how many steps a handler, or a page, still has to make.
CallOrder == [idle |-> 0, deliver |-> 1, undo |-> 1, store |-> 2, expiry |-> 3,
              register |-> 4, refind |-> 5, insert |-> 6, count |-> 7, find |-> 8]
TaskOrder == [idle |-> 0, done |-> 1, show |-> 2, ask |-> 2, revoke |-> 2,
              save |-> 3, remove |-> 3, look |-> 4]

CallLeft(g) == CallOrder[call[g].pc]
TaskLeft(t) == TaskOrder[task[t].pc]

LeftBounded ==
    /\ \A g \in Goroutines : CallLeft(g) \in 0 .. 8 /\ (CallLeft(g) = 0 <=> ~CallBusy(g))
    /\ \A t \in Tasks : TaskLeft(t) \in 0 .. 4 /\ (TaskLeft(t) = 0 <=> task[t].pc = "idle")

\* A step of a handler counts down, and nobody else moves a handler but a death.
EachHandlerCounts ==
    /\ \A g \in Goroutines :
          /\ CallStep(g) => CallLeft(g)' < CallLeft(g)
          /\ CallBusy(g) /\ call'[g] # call[g] => CallLeft(g)' < CallLeft(g)
    /\ \A t \in Tasks :
          /\ TaskStep(t) => TaskLeft(t)' < TaskLeft(t)
          /\ task[t].pc # "idle" /\ task'[t] # task[t] => TaskLeft(t)' < TaskLeft(t)

LEMMA CallOrderIs ==
    /\ CallOrder["idle"] = 0 /\ CallOrder["deliver"] = 1 /\ CallOrder["undo"] = 1
    /\ CallOrder["store"] = 2 /\ CallOrder["expiry"] = 3 /\ CallOrder["register"] = 4
    /\ CallOrder["refind"] = 5 /\ CallOrder["insert"] = 6 /\ CallOrder["count"] = 7
    /\ CallOrder["find"] = 8
  BY DEF CallOrder

LEMMA TaskOrderIs ==
    /\ TaskOrder["idle"] = 0 /\ TaskOrder["done"] = 1 /\ TaskOrder["show"] = 2
    /\ TaskOrder["ask"] = 2 /\ TaskOrder["revoke"] = 2 /\ TaskOrder["save"] = 3
    /\ TaskOrder["remove"] = 3 /\ TaskOrder["look"] = 4
  BY DEF TaskOrder

LEMMA LeftIsBounded == ASSUME TypeOK PROVE LeftBounded
<1>1. ASSUME NEW g \in Goroutines
      PROVE  CallLeft(g) \in 0 .. 8 /\ (CallLeft(g) = 0 <=> ~CallBusy(g))
  BY CallOrderIs DEF TypeOK, Call, CallLeft, CallBusy
<1>2. ASSUME NEW t \in Tasks
      PROVE  TaskLeft(t) \in 0 .. 4 /\ (TaskLeft(t) = 0 <=> task[t].pc = "idle")
  BY TaskOrderIs DEF TypeOK, Task, TaskLeft
<1> QED
  BY <1>1, <1>2 DEF LeftBounded

LEMMA RefindEffect ==
    ASSUME SignInInv, NEW g \in Goroutines, Refind(g)
    PROVE  /\ call[g].pc = "refind" /\ call'[g].pc \in {"idle", "register"}
           /\ call'[g].pc = "register" => [user |-> call'[g].user, from |-> g] \in wire'
           /\ wire \subseteq wire'
           /\ \A h \in Goroutines : h # g => call'[h] = call[h]
<1>1. TypeOK
  BY DEF SignInInv
<1>2. CASE CallEnd(g) /\ UNCHANGED wire
  BY <1>1, <1>2, EndEffect DEF Refind
<1>3. ASSUME NEW d \in DocsOf(EmailOfCall(g)),
             call' = [call EXCEPT ![g].pc = "register", ![g].user = accounts[d]],
             wire' = wire \cup {[user |-> accounts[d], from |-> g]}
      PROVE  /\ call'[g].pc = "register" /\ call'[g].user = accounts[d]
             /\ \A h \in Goroutines : h # g => call'[h] = call[h]
  BY <1>1, <1>3 DEF TypeOK, Call
<1>4. Refind(g) => call[g].pc = "refind"
  BY DEF Refind
<1> QED
  BY <1>2, <1>3, <1>4 DEF Refind

\* Where each step of a handler goes, which other handlers it leaves alone.
LEMMA CallCounts ==
    ASSUME SignInInv, NEW g \in Goroutines, CallStep(g)
    PROVE  /\ CallLeft(g)' < CallLeft(g)
           /\ \A h \in Goroutines : h # g => call'[h] = call[h]
<1> USE CallOrderIs DEF CallLeft
<1>1. TypeOK
  BY DEF SignInInv
<1>2. CASE Find(g)
  BY <1>2, FindEffect DEF Find
<1>3. CASE Count(g)
  BY <1>3, CountEffect DEF Count
<1>4. CASE Insert(g)
  BY <1>4, InsertEffect
<1>5. CASE Refind(g)
  <2>1. /\ call[g].pc = "refind" /\ call'[g].pc \in {"idle", "register"}
        /\ \A h \in Goroutines : h # g => call'[h] = call[h]
    BY <1>5, RefindEffect
  <2> QED
    BY <2>1
<1>6. ASSUME NEW m \in wire, m.from = g, Register(m)
      PROVE  /\ call[g].pc = "register" /\ call'[g].pc \in {"expiry", "undo"}
             /\ \A h \in Goroutines : h # g => call'[h] = call[h]
  <2>1. m.from # Nil
    BY <1>6
  <2> QED
    BY <1>6, <2>1, RegisterEffect
<1>7. CASE Undo(g)
  BY <1>7, UndoEffect DEF Undo
<1>8. CASE Expiry(g) \/ Store(g) \/ Deliver(g)
  <2>1. CASE Expiry(g)
    BY <1>1, <2>1, EndEffect, GotoEffect DEF Expiry
  <2>2. CASE Store(g)
    BY <1>1, <2>2, GotoEffect DEF Store
  <2>3. CASE Deliver(g)
    BY <1>1, <2>3, EndEffect DEF Deliver
  <2> QED
    BY <1>8, <2>1, <2>2, <2>3
<1> QED
  BY <1>2, <1>3, <1>4, <1>5, <1>6, <1>7, <1>8 DEF CallStep

LEMMA CallsCount ==
    ASSUME SignInInv, Next, NEW g \in Goroutines, CallBusy(g), call'[g] # call[g]
    PROVE  CallLeft(g)' < CallLeft(g)
<1>1. TypeOK
  BY DEF SignInInv
<1>2. CallLeft(g) \in 1 .. 8
  BY <1>1, LeftIsBounded DEF LeftBounded
<1>3. ASSUME NEW h \in Goroutines, CallStep(h) PROVE CallLeft(g)' < CallLeft(g)
  BY <1>3, CallCounts
<1>4. ASSUME NEW h \in Goroutines, NEW b \in Browsers, NEW p \in Browsers,
             NEW s \in Sessions, Authorize(h, b, p, s)
      PROVE  FALSE
  <2>1. h # g /\ \A f \in Goroutines : f # h => call'[f] = call[f]
    BY <1>1, <1>4 DEF Authorize, TypeOK, CallBusy
  <2> QED
    BY <2>1
<1>5. ASSUME NEW m \in wire, Register(m) PROVE CallLeft(g)' < CallLeft(g)
  <2>1. m.from = g
    BY <1>5, RegisterEffect
  <2> QED
    BY <1>3, <1>5, <2>1 DEF CallStep
<1>6. CASE Crash
  <2>1. call'[g].pc = "idle"
    BY <1>6 DEF Crash, IdleCall
  <2> QED
    BY <1>2, <2>1, CallOrderIs DEF CallLeft
<1>7. CASE call' = call
  BY <1>7
<1> QED
  BY <1>3, <1>4, <1>5, <1>6, <1>7, NextSplit, InnerKeepsCalls
     DEF ServerStep, Expire, Answer, Request, Callback

LEMMA TaskCounts ==
    ASSUME SignInInv, NEW t \in Tasks, TaskStep(t)
    PROVE  /\ TaskLeft(t)' < TaskLeft(t)
           /\ \A u \in Tasks : u # t => task'[u] = task[u]
<1> USE TaskOrderIs DEF TaskLeft
<1>1. TypeOK
  BY DEF SignInInv
<1>2. CASE Look(t)
  BY <1>1, <1>2, TaskGotoEffect DEF Look
<1>3. CASE Save(t)
  BY <1>1, <1>3, TaskGotoEffect, TaskReplyEffect DEF Save
<1>4. CASE Show(t) \/ Ask(t) \/ Revoke(t)
  BY <1>1, <1>4, TaskReplyEffect DEF Show, Ask, Revoke
<1>5. CASE Remove(t)
  BY <1>1, <1>5, TaskGotoEffect, TaskReplyEffect DEF Remove
<1>6. CASE Answer(t)
  <2>1. /\ task[t].pc = "done" /\ task'[t].pc = "idle"
        /\ \A u \in Tasks : u # t => task'[u] = task[u]
    BY <1>1, <1>6 DEF Answer, TypeOK, IdleTask
  <2> QED
    BY <2>1
<1> QED
  BY <1>2, <1>3, <1>4, <1>5, <1>6 DEF TaskStep

LEMMA TasksCount ==
    ASSUME SignInInv, Next, NEW t \in Tasks, task[t].pc # "idle", task'[t] # task[t]
    PROVE  TaskLeft(t)' < TaskLeft(t)
<1>1. ASSUME NEW u \in Tasks, TaskStep(u) PROVE TaskLeft(t)' < TaskLeft(t)
  BY <1>1, TaskCounts
<1>2. ASSUME NEW u \in Tasks, NEW b \in Browsers, NEW op \in Ops, Request(u, b, op)
      PROVE  FALSE
  <2>1. u # t /\ \A v \in Tasks : v # u => task'[v] = task[v]
    BY <1>2, RequestTask DEF Request
  <2> QED
    BY <2>1
<1>3. CASE ServerStep
  BY <1>3, ServerKeepsWeb
<1>4. ASSUME NEW b \in Browsers, NEW s \in Sessions, Callback(b, s) PROVE FALSE
  BY <1>4 DEF Callback, webVars
<1> QED
  BY <1>1, <1>2, <1>3, <1>4, NextSplit DEF TaskStep, InnerStep

(* A handler of the authorization server makes at most eight steps and a   *)
(* page of the web server four, each counting down, whatever else happens  *)
(* and whichever calls fail: no retry, and nobody moves a handler back     *)
(* (AuthenticationServerHandler.go:163-261, AuthorizationService.java:45). *)
THEOREM SignInRequestsEnd == Spec => []LeftBounded /\ [][EachHandlerCounts]_vars
<1>1. SignInInv => LeftBounded
  BY LeftIsBounded DEF SignInInv
<1>2. SignInInv /\ [Next]_vars => [EachHandlerCounts]_vars
  BY CallCounts, CallsCount, TaskCounts, TasksCount DEF EachHandlerCounts
<1> QED
  BY <1>1, <1>2, SignInInvariant, PTL DEF Spec

\* A handler that waits for the application server has its request on the wire.
RequestOnItsWay ==
    \A g \in Goroutines :
        call[g].pc = "register" => [user |-> call[g].user, from |-> g] \in wire

LEMMA OnItsWayStep == ASSUME SignInInv, RequestOnItsWay, Next PROVE RequestOnItsWay'
<1>1. TypeOK
  BY DEF SignInInv
<1> DEFINE Waits(g) == call[g].pc = "register" => [user |-> call[g].user, from |-> g] \in wire
<1>2. \A g \in Goroutines : Waits(g)
  BY DEF RequestOnItsWay
<1>3. ASSUME NEW h \in Goroutines, NEW g \in Goroutines, wire \subseteq wire',
             call'[h].pc # "register" \/ Waits(h)',
             \A f \in Goroutines : f # h => call'[f] = call[f]
      PROVE  Waits(g)'
  BY <1>2, <1>3
<1>4. ASSUME NEW h \in Goroutines, Find(h) PROVE RequestOnItsWay'
  BY <1>3, <1>4, FindEffect DEF RequestOnItsWay
<1>5. ASSUME NEW h \in Goroutines, Count(h) PROVE RequestOnItsWay'
  BY <1>3, <1>5, CountEffect DEF RequestOnItsWay
<1>6. ASSUME NEW h \in Goroutines, Insert(h) PROVE RequestOnItsWay'
  BY <1>3, <1>6, InsertEffect DEF RequestOnItsWay
<1>7. ASSUME NEW h \in Goroutines, Refind(h) PROVE RequestOnItsWay'
  BY <1>3, <1>7, RefindEffect DEF RequestOnItsWay
<1>8. ASSUME NEW h \in Goroutines, Undo(h) PROVE RequestOnItsWay'
  BY <1>3, <1>8, UndoEffect DEF RequestOnItsWay
<1>9. ASSUME NEW h \in Goroutines, Expiry(h) \/ Store(h) \/ Deliver(h) PROVE RequestOnItsWay'
  <2>1. /\ wire' = wire /\ call'[h].pc # "register"
        /\ \A f \in Goroutines : f # h => call'[f] = call[f]
    BY <1>1, <1>9, EndEffect, GotoEffect DEF Expiry, Store, Deliver, userVars
  <2> QED
    BY <1>3, <2>1 DEF RequestOnItsWay
<1>10. ASSUME NEW h \in Goroutines, NEW b \in Browsers, NEW p \in Browsers,
             NEW s \in Sessions, Authorize(h, b, p, s)
       PROVE  RequestOnItsWay'
  <2>1. /\ wire' = wire /\ call'[h].pc = "find"
        /\ \A f \in Goroutines : f # h => call'[f] = call[f]
    BY <1>1, <1>10 DEF Authorize, TypeOK, IdleCall, userVars
  <2> QED
    BY <1>3, <2>1 DEF RequestOnItsWay
<1>11. ASSUME NEW m \in wire, Register(m), NEW g \in Goroutines, call'[g].pc = "register"
       PROVE  [user |-> call'[g].user, from |-> g] \in wire'
  <2>1. m.from # g /\ call'[g] = call[g]
    BY <1>11, RegisterEffect
  <2>2. [user |-> call[g].user, from |-> g] \in wire
    BY <1>2, <1>11, <2>1
  <2>3. [user |-> call[g].user, from |-> g] # m
    BY <2>1
  <2> QED
    BY <1>11, <2>1, <2>2, <2>3 DEF Register
<1>12. CASE Crash
  BY <1>12 DEF Crash, IdleCall, RequestOnItsWay
<1>13. CASE UNCHANGED <<wire, call>>
  BY <1>13 DEF RequestOnItsWay
<1>14. CASE ServerStep
  BY <1>4, <1>5, <1>6, <1>7, <1>8, <1>9, <1>10, <1>11, <1>12, <1>13, <1>14
     DEF ServerStep, CallStep, Expire, userVars, RequestOnItsWay
<1> QED
  BY <1>13, <1>14, NextSplit, InnerKeepsCalls DEF Answer, Request, Callback, userVars

(* No handler waits for an answer nobody is going to give: its request is  *)
(* on the wire until the application server has handled it, and the        *)
(* request of one sender answers no other                                  *)
(* (AuthenticationServerHandler.go:207-225).                               *)
THEOREM NobodyWaitsInVain == Spec => []RequestOnItsWay
<1>1. Init => RequestOnItsWay
  BY DEF Init, RequestOnItsWay, IdleCall
<1>2. RequestOnItsWay /\ UNCHANGED vars => RequestOnItsWay'
  BY DEF RequestOnItsWay, vars, userVars
<1>3. SignInInv /\ RequestOnItsWay /\ [Next]_vars => RequestOnItsWay'
  BY <1>2, OnItsWayStep
<1> QED
  BY <1>1, <1>3, SignInInvariant, PTL DEF Spec

-----------------------------------------------------------------------------
(* Sign-ins that nothing fails and that come one after the other go        *)
(* through: the safety half of SignInCompletes.                            *)

\* Only the web server's own call of /login, and an undoing nobody asks for, may fail.
Calm == ~Overlap /\ Faults \subseteq {"auth", "undo"}

LoginSound(t) ==
    /\ task[t].pc # "idle" /\ task[t].op = "login" =>
          task[t].fresh /\ task[t].pc \notin {"remove", "revoke"}
    /\ task[t].pc = "done" /\ task[t].op = "login" /\ task[t].code = 302 =>
          Unexpired(task[t].session)

\* A browser sent to the provider has a cookie, and its state an entry that is good.
SentSound == \A c \in sent : cookie[c[1]] # Nil /\ Unexpired(c[2])

CallSound(g) ==
    /\ call[g].pc = "refind" => DocsOf(EmailOfCall(g)) # {}
    /\ call[g].pc # "undo"

SoundInv ==
    /\ SentSound
    /\ \A t \in Tasks : LoginSound(t)
    /\ \A g \in Goroutines : CallSound(g)

LEMMA FreshEntry == LET e == [live |-> TRUE, jwt |-> Nil] IN e # Nil /\ e.live
<1>1. [live |-> TRUE, jwt |-> Nil] \in [live : BOOLEAN, jwt : User \cup {Nil}]
  OBVIOUS
<1> QED
  BY <1>1 DEF User

LEMMA EntryStaysLive ==
    ASSUME Calm, SignInInv, Next, NEW s \in Sessions, Unexpired(s)
    PROVE  Unexpired(s)'
<1>1. TypeOK /\ tokens[s] \in TokenData /\ tokens[s] # Nil /\ tokens[s].live
  BY DEF SignInInv, TypeOK, Unexpired
<1>2. ~Crash /\ ~Expire(s) /\ \A r \in Sessions : ~Expire(r)
  BY DEF Calm, Crash, Expire, May
<1>3. ASSUME NEW t \in Tasks, Ask(t) PROVE Unexpired(s)'
  BY <1>1, <1>3, FreshEntry DEF Ask, NewLogin, Unexpired, TypeOK
<1>4. ASSUME NEW g \in Goroutines, Store(g) PROVE Unexpired(s)'
  <2>1. tokens' = [tokens EXCEPT ![call[g].state].jwt = call[g].user]
        /\ call[g].user \in User \cup {Nil}
    BY <1>1, <1>4 DEF Store, TypeOK, Call
  <2>2. CASE call[g].state = s
    <3>1. tokens'[s] = [tokens[s] EXCEPT !.jwt = call[g].user]
      BY <1>1, <2>1, <2>2 DEF TypeOK
    <3>2. tokens'[s] \in TokenData /\ tokens'[s].live
      BY <1>1, <2>1, <3>1 DEF TokenData
    <3> QED
      BY <3>2 DEF Unexpired, TokenData, User
  <2>3. CASE call[g].state # s
    BY <1>1, <2>1, <2>3 DEF TypeOK, Unexpired
  <2> QED
    BY <2>2, <2>3
<1>5. CASE tokens' = tokens
  BY <1>1, <1>5 DEF Unexpired
<1>6. ASSUME NEW t \in Tasks, InnerStep(t) PROVE Unexpired(s)'
  BY <1>3, <1>5, <1>6 DEF InnerStep, Look, Save, Show, Remove, Revoke, Logout
<1>7. CASE ServerStep
  BY <1>2, <1>4, <1>5, <1>7
     DEF ServerStep, CallStep, Find, Count, Insert, Refind, Register, Undo, Expiry, Deliver,
         Authorize
<1> QED
  BY <1>5, <1>6, <1>7, NextSplit DEF Answer, Request, Callback

LEMMA InnerLogin ==
    ASSUME Calm, SignInInv, NEW t \in Tasks, LoginSound(t), InnerStep(t)
    PROVE  LoginSound(t)'
<1>1. TypeOK /\ task[t].pc # "idle" /\ task[t].session \in Sessions
  <2>1. task[t].pc # "idle"
    BY DEF InnerStep, Look, Save, Show, Ask, Remove, Revoke
  <2> QED
    BY <2>1 DEF SignInInv, Ownership
<1>2. ASSUME NEW pc, TaskGoto(t, pc), pc \notin {"done", "remove"},
             pc = "revoke" => task[t].op # "login"
      PROVE  LoginSound(t)'
  <2>1. /\ task'[t].pc = pc /\ task'[t].op = task[t].op /\ task'[t].fresh = task[t].fresh
    BY <1>1, <1>2 DEF TaskGoto, TypeOK, Task
  <2> QED
    BY <1>1, <1>2, <2>1 DEF LoginSound
<1>3. ASSUME NEW code, TaskReply(t, code),
             code = 302 /\ task[t].op = "login" =>
                tokens'[task[t].session] # Nil /\ tokens'[task[t].session].live
      PROVE  LoginSound(t)'
  <2>1. /\ task'[t].pc = "done" /\ task'[t].op = task[t].op /\ task'[t].fresh = task[t].fresh
        /\ task'[t].code = code /\ task'[t].session = task[t].session
    BY <1>1, <1>3 DEF TaskReply, TypeOK, Task
  <2> QED
    BY <1>1, <1>3, <2>1 DEF LoginSound, Unexpired
<1>4. CASE Look(t)
  BY <1>2, <1>4 DEF Look
<1>5. CASE Save(t)
  BY <1>2, <1>3, <1>5 DEF Save
<1>6. CASE Show(t)
  BY <1>3, <1>6 DEF Show
<1>7. CASE Ask(t)
  <2>1. CASE TaskReply(t, 500)
    BY <1>3, <2>1
  <2>2. CASE NewLogin(task[t].session) /\ TaskReply(t, 302)
    <3>1. tokens'[task[t].session] = [live |-> TRUE, jwt |-> Nil]
      BY <1>1, <2>2 DEF NewLogin, TypeOK
    <3>2. tokens'[task[t].session] # Nil /\ tokens'[task[t].session].live
      BY <3>1, FreshEntry
    <3> QED
      BY <1>1, <1>3, <2>2, <3>2
  <2> QED
    BY <1>7, <2>1, <2>2 DEF Ask
<1>8. CASE Remove(t)
  <2>1. task[t].op # "login"
    BY <1>8 DEF Remove, LoginSound
  <2> QED
    BY <1>2, <1>3, <1>8, <2>1 DEF Remove
<1>9. CASE Revoke(t)
  <2>1. task[t].op # "login"
    BY <1>9 DEF Revoke, LoginSound
  <2> QED
    BY <1>3, <1>9, <2>1 DEF Revoke
<1> QED
  BY <1>4, <1>5, <1>6, <1>7, <1>8, <1>9 DEF InnerStep

LEMMA LoginsSoundStep ==
    ASSUME Calm, SignInInv, SoundInv, Next, NEW t \in Tasks
    PROVE  LoginSound(t)'
<1>1. TypeOK /\ LoginSound(t)
  BY DEF SignInInv, SoundInv
<1>2. CASE task'[t] = task[t]
  <2>1. task[t].pc # "idle" => task[t].session \in Sessions
    BY DEF SignInInv, Ownership
  <2>2. task[t].pc # "idle" /\ Unexpired(task[t].session) => Unexpired(task[t].session)'
    <3>1. ASSUME NEW s \in Sessions, Unexpired(s) PROVE Unexpired(s)'
      BY <3>1, EntryStaysLive
    <3> QED
      BY <1>2, <2>1, <3>1 DEF Unexpired
  <2> QED
    BY <1>1, <1>2, <2>2 DEF LoginSound, Unexpired
<1>3. ASSUME NEW u \in Tasks, InnerStep(u) PROVE LoginSound(t)'
  <2>1. CASE u = t
    BY <1>1, <1>3, <2>1, InnerLogin
  <2>2. CASE u # t
    BY <1>1, <1>2, <1>3, <2>2, InnerTask
  <2> QED
    BY <2>1, <2>2
<1>4. ASSUME NEW u \in Tasks, Answer(u) PROVE LoginSound(t)'
  <2>1. task'[u].pc = "idle" /\ \A v \in Tasks : v # u => task'[v] = task[v]
    BY <1>1, <1>4 DEF Answer, TypeOK, IdleTask
  <2> QED
    BY <1>2, <2>1 DEF LoginSound
<1>5. ASSUME NEW u \in Tasks, NEW b \in Browsers, NEW op \in Ops, Request(u, b, op)
      PROVE  LoginSound(t)'
  <2>1. /\ task'[u].op = op /\ task'[u].pc \in {"look", "remove"}
        /\ \A v \in Tasks : v # u => task'[v] = task[v]
    BY <1>5, RequestTask
  <2>2. CASE op = "login"
    <3>1. PICK s \in Unopened :
            task' = [task EXCEPT ![u] = [IdleTask EXCEPT !.pc = "look", !.op = op,
                          !.browser = b, !.session = s, !.fresh = TRUE]]
      BY <1>5, <2>2 DEF Request
    <3>2. task'[u].fresh /\ task'[u].pc = "look"
      BY <1>1, <3>1 DEF TypeOK, IdleTask
    <3> QED
      BY <1>2, <2>1, <3>2 DEF LoginSound
  <2>3. CASE op # "login"
    BY <1>2, <2>1, <2>3 DEF LoginSound
  <2> QED
    BY <2>2, <2>3
<1>6. CASE ServerStep
  BY <1>2, <1>6, ServerKeepsWeb
<1> QED
  BY <1>2, <1>3, <1>4, <1>5, <1>6, NextSplit DEF Callback, webVars

LEMMA SentSoundStep == ASSUME Calm, SignInInv, SoundInv, Next PROVE SentSound'
<1>1. TypeOK /\ Ownership /\ SentSound /\ \A t \in Tasks : LoginSound(t)
  BY DEF SignInInv, SoundInv
<1>2. ASSUME NEW c \in sent PROVE Unexpired(c[2])'
  <2>1. c[2] \in Sessions /\ Unexpired(c[2])
    BY <1>1 DEF TypeOK, SentSound
  <2> QED
    BY <2>1, EntryStaysLive
<1>3. CASE UNCHANGED <<cookie, sent>>
  BY <1>1, <1>2, <1>3 DEF SentSound
<1>4. ASSUME NEW t \in Tasks, Answer(t) PROVE SentSound'
  <2>1. task[t].session \in Sessions /\ task[t].browser \in Browsers /\ task[t].session # Nil
        /\ task[t].pc = "done"
    BY <1>1, <1>4 DEF Ownership, Answer
  <2>2. \A b \in Browsers : cookie[b] # Nil => cookie'[b] # Nil
    BY <1>1, <1>4, <2>1 DEF Answer, TypeOK
  <2>3. ASSUME NEW c \in sent' PROVE cookie'[c[1]] # Nil /\ Unexpired(c[2])'
    <3>1. CASE c \in sent
      <4>1. c[1] \in Browsers /\ cookie[c[1]] # Nil
        BY <1>1, <3>1 DEF TypeOK, SentSound
      <4> QED
        BY <1>2, <2>2, <3>1, <4>1
    <3>2. CASE c \notin sent
      <4>1. /\ task[t].op = "login" /\ task[t].code = 302
            /\ c = <<task[t].browser, task[t].session>>
        BY <1>4, <2>3, <3>2 DEF Answer
      <4>2. task[t].fresh /\ Unexpired(task[t].session)
        BY <1>1, <2>1, <4>1 DEF LoginSound
      <4>3. cookie'[task[t].browser] = task[t].session
        BY <1>1, <1>4, <2>1, <4>2 DEF Answer, TypeOK
      <4>4. c[1] = task[t].browser /\ c[2] = task[t].session
        BY <4>1
      <4>5. c[2] \in Sessions /\ Unexpired(c[2])
        BY <2>1, <4>2, <4>4
      <4> QED
        BY <2>1, <4>3, <4>4, <4>5, EntryStaysLive
    <3> QED
      BY <3>1, <3>2
  <2> QED
    BY <2>3 DEF SentSound
<1> QED
  BY <1>3, <1>4, NextSplit, InnerKeepsCalls, ServerKeepsWeb DEF Request, Callback, browserVars

\* A registration on its way is not refused: no row has the id of a new account.
LEMMA IdIsFree ==
    ASSUME SignInInv, SerialInv, RowsInv, NEW m \in wire, m.from # Nil, NEW r \in appUsers
    PROVE  r.id # m.user.id
<1>1. TypeOK /\ WireMatches /\ UniqueAccounts /\ HasAccount(r) /\ HasAccount(m.user)
  BY DEF SignInInv, SerialInv, RowsInv
<1>2. m.from \in Goroutines /\ call[m.from].pc = "register" /\ call[m.from].user = m.user
  BY <1>1 DEF TypeOK, WireMatches
<1>3. m.user \notin appUsers
  BY <1>2 DEF RowsInv, Unregistered
<1>4. PICK c \in Docs : accounts[c] = r
  BY <1>1 DEF HasAccount
<1>5. PICK d \in Docs : accounts[d] = m.user
  BY <1>1 DEF HasAccount
<1>6. accounts[c].id = accounts[d].id => c = d
  BY <1>1, <1>4, <1>5 DEF UniqueAccounts
<1> QED
  BY <1>3, <1>4, <1>5, <1>6

\* Each step of a handler that nothing fails leads on, and the last one delivers.
Delivered(g) == call[g].session # Nil => records'[call[g].session] \in User

LEMMA CallLeadsOn ==
    ASSUME Calm, SignInInv, SerialInv, RowsInv, SoundInv, NEW g \in Goroutines, CallStep(g)
    PROVE  CallSound(g)' /\ (call'[g].pc = "idle" => Delivered(g))
<1> DEFINE Goal == CallSound(g)' /\ (call'[g].pc = "idle" => Delivered(g))
<1>1. TypeOK /\ CallSound(g) /\ CallKnows(g) /\ call[g] \in Call
  BY DEF SignInInv, SoundInv, TypeOK
<1>2. /\ ~May("read") /\ ~May("write") /\ ~May("lost") /\ ~May("refuse")
      /\ ~May("web") /\ ~May("redis") /\ ~May("find")
  BY DEF Calm, May
<1>3. ASSUME NEW pc, call'[g].pc = pc, pc \notin {"idle", "refind", "undo"},
             call'[g].session = call[g].session, call[g].pc # "idle"
      PROVE  Goal
  BY <1>1, <1>3 DEF CallSound, CallBusy
<1>4. CASE Find(g)
  <2>1. CASE \E d \in DocsOf(EmailOfCall(g)) :
               call' = [call EXCEPT ![g].pc = "expiry", ![g].user = accounts[d]]
    <3>1. call'[g].pc = "expiry" /\ call'[g].session = call[g].session
      BY <1>1, <2>1 DEF TypeOK, Call
    <3> QED
      BY <1>3, <1>4, <3>1 DEF Find
  <2>2. CASE call' = [call EXCEPT ![g].pc = "count", ![g].register = TRUE]
    <3>1. call'[g].pc = "count" /\ call'[g].session = call[g].session
      BY <1>1, <2>2 DEF TypeOK, Call
    <3> QED
      BY <1>3, <1>4, <3>1 DEF Find
  <2> QED
    BY <1>2, <1>4, <2>1, <2>2 DEF Find
<1>5. CASE Count(g)
  <2>1. call' = [call EXCEPT ![g].pc = "insert", ![g].count = Cardinality(Docs)]
    BY <1>2, <1>5 DEF Count
  <2>2. call'[g].pc = "insert" /\ call'[g].session = call[g].session
    BY <1>1, <2>1 DEF TypeOK, Call
  <2> QED
    BY <1>3, <1>5, <2>2 DEF Count
<1>6. CASE Insert(g)
  <2>1. /\ call'[g].pc = "refind" /\ call'[g].session = call[g].session
        /\ call'[g].person = call[g].person /\ call[g].pc = "insert"
    BY <1>1, <1>6 DEF Insert, TypeOK, Call
  <2>2. PICK d \in DocIds \ Docs :
          accounts' = [accounts EXCEPT ![d] = [id |-> call[g].count + 1,
                                               email |-> EmailOfCall(g)]]
    BY <1>2, <1>6 DEF Insert
  <2>3. EmailOfCall(g) \in Emails /\ call[g].count + 1 \in Nat
    BY <1>1, <2>1, CallFields DEF Call
  <2>4. accounts'[d] = [id |-> call[g].count + 1, email |-> EmailOfCall(g)]
    BY <1>1, <2>2 DEF TypeOK
  <2>5. accounts'[d] # Nil /\ accounts'[d].email = EmailOfCall(g)
    BY <2>3, <2>4 DEF User
  <2>6. EmailOfCall(g)' = EmailOfCall(g)
    BY <2>1 DEF EmailOfCall
  <2>7. d \in DocsOf(EmailOfCall(g))'
    BY <2>5, <2>6 DEF DocsOf, Docs
  <2> QED
    BY <1>1, <2>1, <2>7 DEF CallSound, CallBusy
<1>7. CASE Refind(g)
  <2>1. PICK d \in DocsOf(EmailOfCall(g)) :
          call' = [call EXCEPT ![g].pc = "register", ![g].user = accounts[d]]
    BY <1>1, <1>2, <1>7 DEF Refind, CallSound
  <2>2. call'[g].pc = "register" /\ call'[g].session = call[g].session
    BY <1>1, <2>1 DEF TypeOK, Call
  <2> QED
    BY <1>3, <1>7, <2>2 DEF Refind
<1>8. ASSUME NEW m \in wire, m.from = g, Register(m) PROVE Goal
  <2>1. m.from # Nil /\ \A r \in appUsers : r.id # m.user.id
    <3>1. m.from # Nil
      BY <1>8
    <3> QED
      BY <3>1, IdIsFree
  <2>2. Answered(g, TRUE)
    BY <1>2, <1>8, <2>1 DEF Register
  <2>3. CallGoto(g, "expiry")
    BY <1>8, <2>1, <2>2 DEF Answered
  <2>4. call[g].pc = "register"
    BY <1>8, <2>1, RegisterEffect
  <2> QED
    BY <1>1, <1>3, <2>3, <2>4, GotoEffect
<1>9. ~Undo(g)
  BY <1>1 DEF Undo, CallSound
<1>10. CASE Expiry(g)
  <2>1. PICK login \in sent : login[2] = call[g].state
    BY <1>1, <1>10 DEF Expiry, CallKnows
  <2>2. Unexpired(call[g].state)
    BY <2>1 DEF SoundInv, SentSound
  <2> QED
    BY <1>1, <1>3, <1>10, <2>2, GotoEffect DEF Expiry
<1>11. CASE Store(g)
  BY <1>1, <1>3, <1>11, GotoEffect DEF Store
<1>12. CASE Deliver(g)
  <2>1. call'[g].pc = "idle" /\ call[g].pc = "deliver"
    BY <1>1, <1>12, EndEffect DEF Deliver
  <2>2. call[g].session \in Sessions \cup {Nil} /\ call[g].state \in Sessions
    BY <1>1, <2>1, CallFields DEF CallBusy, Call
  <2>3. tokens[call[g].state].jwt \in User
    BY <1>1, <2>1, <2>2 DEF CallKnows, TypeOK, TokenData
  <2>4. call[g].session # Nil => records'[call[g].session] = tokens[call[g].state].jwt
    BY <1>1, <1>2, <1>12, <2>2 DEF Deliver, SaveJWTTokens, TypeOK
  <2>5. Delivered(g)
    BY <2>2, <2>3, <2>4 DEF Delivered
  <2> QED
    BY <2>1, <2>5 DEF CallSound, CallBusy
<1> QED
  BY <1>4, <1>5, <1>6, <1>7, <1>8, <1>9, <1>10, <1>11, <1>12 DEF CallStep

\* The only other steps that move a handler, while nobody dies.
LEMMA CallsLeadOn ==
    ASSUME Calm, SignInInv, SerialInv, RowsInv, SoundInv, Next, NEW g \in Goroutines
    PROVE  CallSound(g)' /\ (CallBusy(g) /\ ~CallBusy(g)' => Delivered(g))
<1> DEFINE Goal == CallSound(g)' /\ (CallBusy(g) /\ ~CallBusy(g)' => Delivered(g))
<1>1. TypeOK /\ CallSound(g) /\ OneCall
  BY DEF SignInInv, SoundInv, SerialInv
<1>2. CASE ~CallBusy(g)'
  <2>1. CallSound(g)'
    BY <1>2 DEF CallSound, CallBusy
  <2>2. CASE CallStep(g)
    BY <1>2, <2>1, <2>2, CallLeadsOn DEF CallBusy
  <2>3. CASE ~CallStep(g)
    <3>1. ~CallBusy(g) \/ call'[g] = call[g]
      <4>1. ASSUME NEW h \in Goroutines, CallStep(h) PROVE call'[g] = call[g]
        BY <2>3, <4>1, CallCounts
      <4>2. ASSUME NEW h \in Goroutines, NEW b \in Browsers, NEW p \in Browsers,
                   NEW s \in Sessions, Authorize(h, b, p, s)
            PROVE  ~CallBusy(g)
        BY <1>1, <4>2 DEF Authorize, Calm
      <4>3. ASSUME NEW m \in wire, Register(m) PROVE call'[g] = call[g]
        <5>1. m.from # g
          BY <2>3, <4>3 DEF CallStep
        <5> QED
          BY <4>3, <5>1, RegisterEffect
      <4>4. ~Crash
        BY DEF Calm, Crash, May
      <4>5. CASE call' = call
        BY <4>5
      <4> QED
        BY <4>1, <4>2, <4>3, <4>4, <4>5, NextSplit, InnerKeepsCalls
           DEF ServerStep, Expire, Answer, Request, Callback
    <3> QED
      BY <1>2, <2>1, <3>1 DEF CallBusy
  <2> QED
    BY <2>2, <2>3
<1>3. CASE CallBusy(g)'
  <2>1. ASSUME NEW h \in Goroutines, CallStep(h) PROVE Goal
    <3>1. CASE h = g
      BY <1>3, <2>1, <3>1, CallLeadsOn
    <3>2. CASE h # g
      <4>1. call'[g] = call[g]
        BY <2>1, <3>2, CallCounts
      <4>2. ASSUME NEW m \in wire, m.from = h, Register(m) PROVE CallBusy(h)
        <5>1. m.from # Nil
          BY <4>2
        <5> QED
          BY <4>2, <5>1, RegisterEffect DEF CallBusy
      <4>3. CallBusy(h)
        BY <2>1, <4>2
           DEF CallStep, Find, Count, Insert, Refind, Undo, Expiry, Store, Deliver, CallBusy
      <4> QED
        BY <1>1, <1>3, <3>2, <4>1, <4>3 DEF OneCall, CallBusy
    <3> QED
      BY <3>1, <3>2
  <2>2. ASSUME NEW h \in Goroutines, NEW b \in Browsers, NEW p \in Browsers,
             NEW s \in Sessions, Authorize(h, b, p, s)
        PROVE  Goal
    <3>1. \A f \in Goroutines : ~CallBusy(f)
      BY <2>2 DEF Authorize, Calm
    <3>2. h = g
      BY <1>1, <1>3, <2>2, <3>1 DEF Authorize, TypeOK, CallBusy
    <3>3. call'[g].pc = "find"
      BY <1>1, <2>2, <3>2 DEF Authorize, TypeOK, IdleCall
    <3> QED
      BY <1>3, <3>3 DEF CallSound, CallBusy
  <2>3. ASSUME NEW m \in wire, Register(m) PROVE Goal
    <3>1. CASE m.from = g
      BY <2>1, <2>3, <3>1 DEF CallStep
    <3>2. CASE m.from # g
      <4>1. call'[g] = call[g] /\ accounts' = accounts
        BY <2>3, <3>2, RegisterEffect DEF Register
      <4> QED
        BY <1>1, <1>3, <4>1 DEF CallSound, CallBusy, DocsOf, Docs, EmailOfCall
    <3> QED
      BY <3>1, <3>2
  <2>4. ~Crash
    BY DEF Calm, Crash, May
  <2>5. CASE UNCHANGED <<call, accounts>>
    BY <1>1, <1>3, <2>5 DEF CallSound, CallBusy, DocsOf, Docs, EmailOfCall
  <2> QED
    BY <2>1, <2>2, <2>3, <2>4, <2>5, NextSplit, InnerKeepsCalls
       DEF ServerStep, Expire, Answer, Request, Callback, userVars
<1> QED
  BY <1>2, <1>3

LEMMA SoundInvariant == ASSUME Calm PROVE Spec => []SoundInv
<1>1. Init => SoundInv
  <2>1. ASSUME Init PROVE SentSound
    <3>1. ASSUME NEW c \in sent PROVE cookie[c[1]] # Nil /\ Unexpired(c[2])
      <4>1. c \in Begun /\ c = <<c[1], c[2]>> /\ c[1] \in Browsers /\ c[2] \in Sessions
        BY <2>1, <3>1 DEF Init
      <4>2. /\ cookie[c[1]] = CHOOSE s \in Sessions : <<c[1], s>> \in Begun
            /\ (CHOOSE s \in Sessions : <<c[1], s>> \in Begun) \in Sessions
        BY <2>1, <4>1 DEF Init
      <4>3. BegunBy(c[2]) # {}
        BY <4>1 DEF BegunBy
      <4>4. tokens[c[2]] = [live |-> TRUE, jwt |-> Nil]
        BY <2>1, <4>1, <4>3 DEF Init
      <4> QED
        BY <4>2, <4>4, FreshEntry DEF Unexpired
    <3> QED
      BY <3>1 DEF SentSound
  <2>2. Init => \A t \in Tasks : LoginSound(t)
    BY DEF Init, LoginSound, IdleTask
  <2>3. Init => \A g \in Goroutines : CallSound(g)
    BY DEF Init, CallSound, CallBusy, IdleCall
  <2> QED
    BY <2>1, <2>2, <2>3 DEF SoundInv
<1>2. SoundInv /\ UNCHANGED vars => SoundInv'
  BY DEF SoundInv, SentSound, LoginSound, CallSound, Unexpired, CallBusy, EmailOfCall, DocsOf,
         Docs, vars, webVars, browserVars, userVars
<1>3. SignInInv /\ SerialInv /\ RowsInv /\ SoundInv /\ [Next]_vars => SoundInv'
  <2>1. ASSUME SignInInv, SerialInv, RowsInv, SoundInv, Next PROVE SoundInv'
    BY <2>1, SentSoundStep, LoginsSoundStep, CallsLeadOn DEF SoundInv
  <2> QED
    BY <1>2, <2>1
<1>4. ~Overlap /\ "find" \notin Faults /\ "lost" \notin Faults
  BY DEF Calm
<1>5. (Spec => []SerialInv) /\ (Spec => []RowsInv)
  BY <1>4, SerialInvariant, RowsInvariant
<1> QED
  BY <1>1, <1>3, <1>5, SignInInvariant, PTL DEF Spec

EachSignInDelivers ==
    \A g \in Goroutines, s \in Sessions :
        CallBusy(g) /\ ~CallBusy(g)' /\ call[g].session = s => HasTokens(s)'

(* When nothing fails and sign-ins come one after the other, an /authorize *)
(* request that came with a cookie ends in one way only: with tokens in    *)
(* the record of that session, whosever link it was.  The newcomer's id is *)
(* free and the entry of the state good                                    *)
(* (AuthenticationServerHandler.go:175-265).                               *)
THEOREM SignInsDeliver ==
    ASSUME ~Overlap, Faults \subseteq {"auth", "undo"}
    PROVE  Spec => [][EachSignInDelivers]_vars
<1>1. Calm
  BY DEF Calm
<1>2. SignInInv /\ SerialInv /\ RowsInv /\ SoundInv /\ [Next]_vars => [EachSignInDelivers]_vars
  BY <1>1, CallsLeadOn DEF EachSignInDelivers, Delivered, HasTokens
<1>3. "find" \notin Faults /\ "lost" \notin Faults
  OBVIOUS
<1>4. (Spec => []SerialInv) /\ (Spec => []RowsInv) /\ (Spec => []SoundInv)
  BY <1>1, <1>3, SerialInvariant, RowsInvariant, SoundInvariant
<1> QED
  BY <1>2, <1>4, SignInInvariant, PTL DEF Spec

=============================================================================
