---------------------------- MODULE SignIn_proofs ----------------------------
(***************************************************************************)
(* Theorems about SignIn for every set of browsers, goroutines, threads,   *)
(* sessions and documents.                                                 *)
(***************************************************************************)
EXTENDS SignIn, FiniteSetTheorems, TLAPS

USE SignInAssumption

-----------------------------------------------------------------------------
(* The inductive invariant.                                                *)

\* A session is handed to one browser, which alone signs in with it.
Ownership ==
    /\ \A c \in sent : owner[c[2]] = c[1]
    /\ granted \subseteq sent
    /\ \A b \in Browsers : cookie[b] # Nil => owner[cookie[b]] = b
    /\ \A t \in Tasks : task[t].pc # "idle" =>
          /\ task[t].op \in Ops /\ task[t].browser \in Browsers
          /\ task[t].session \in Sessions
          /\ owner[task[t].session] = task[t].browser

\* Tokens are in sessions some browser holds.
TokensOwned == \A s \in Sessions : HasTokens(s) => owner[s] # Nil

\* What a goroutine has established when it is where it is.
CallKnows(g) ==
    /\ call[g].pc # "idle" =>
          /\ call[g].person \in Browsers
          /\ \E login \in sent : login[2] = call[g].state
          /\ call[g].session # Nil => owner[call[g].session] # Nil
    /\ call[g].pc \in {"register", "undo", "expiry", "store", "deliver"} =>
          call[g].user # Nil /\ call[g].user.email = EmailOfCall(g)
    /\ call[g].pc \in {"store", "deliver"} => tokens[call[g].state] # Nil
    /\ call[g].pc = "deliver" => tokens[call[g].state].jwt # Nil
    /\ call[g].pc = "find" => ~call[g].register

\* A login that is not answered yet is the only one that knows its session.
LoginPrivate ==
    \A t \in Tasks : task[t].pc # "idle" /\ task[t].op = "login" =>
        /\ \A c \in sent : c[2] # task[t].session
        /\ \A u \in Tasks \ {t} : task[u].pc # "idle" /\ task[u].op = "login" =>
              task[u].session # task[t].session

AskOfLogin == \A t \in Tasks : task[t].pc = "ask" => task[t].op = "login"

\* A request on the wire is the one its sender waits for.
WireMatches ==
    \A m \in wire : m.from # Nil =>
        call[m.from].pc = "register" /\ call[m.from].user = m.user

SignInInv ==
    /\ TypeOK /\ Ownership /\ TokensOwned /\ LoginPrivate /\ AskOfLogin
    /\ \A g \in Goroutines : CallKnows(g)
    /\ WireMatches /\ FirstSignInHasRow

-----------------------------------------------------------------------------
LEMMA CallFields ==
    ASSUME TypeOK, NEW g \in Goroutines, call[g].pc # "idle", CallKnows(g)
    PROVE  /\ call[g] \in Call
           /\ call[g].person \in Browsers /\ call[g].state \in Sessions
           /\ EmailOfCall(g) \in Emails
<1>1. call[g].person \in Browsers /\ call[g].state \in Sessions
  BY DEF TypeOK, CallKnows
<1> QED
  BY <1>1 DEF TypeOK, EmailOfCall

LEMMA DocsFinite == /\ IsFiniteSet(Docs) /\ Cardinality(Docs) \in Nat
  BY FS_Subset, FS_CardinalityType DEF Docs

LEMMA IdleCallType == IdleCall \in Call
  BY DEF IdleCall, Call

LEMMA IdleTaskType == IdleTask \in Task
  BY DEF IdleTask, Task

-----------------------------------------------------------------------------
(* Every handler keeps the state typed.                                    *)

LEMMA CallGotoType ==
    ASSUME TypeOK, NEW g \in Goroutines,
           NEW pc \in {"find", "count", "insert", "refind", "register",
                       "undo", "expiry", "store", "deliver"},
           CallGoto(g, pc)
    PROVE  call' \in [Goroutines -> Call]
  BY DEF TypeOK, CallGoto, Call

LEMMA CallEndType ==
    ASSUME TypeOK, NEW g \in Goroutines, CallEnd(g)
    PROVE  call' \in [Goroutines -> Call]
  BY IdleCallType DEF TypeOK, CallEnd

LEMMA FindType == ASSUME SignInInv, NEW g \in Goroutines, Find(g) PROVE TypeOK'
<1>1. TypeOK /\ call[g] \in Call
  BY DEF SignInInv, TypeOK
<1>2. CASE CallEnd(g)
  BY <1>1, <1>2, CallEndType DEF Find, TypeOK, webVars, browserVars, userVars
<1>3. CASE \E d \in DocsOf(EmailOfCall(g)) :
             call' = [call EXCEPT ![g].pc = "expiry", ![g].user = accounts[d]]
  <2>1. PICK d \in DocsOf(EmailOfCall(g)) :
             call' = [call EXCEPT ![g].pc = "expiry", ![g].user = accounts[d]]
    BY <1>3
  <2>2. accounts[d] \in User
    BY <1>1 DEF TypeOK, DocsOf, Docs
  <2>3. call' \in [Goroutines -> Call]
    BY <1>1, <2>1, <2>2 DEF TypeOK, Call
  <2> QED
    BY <1>1, <2>3 DEF Find, TypeOK, webVars, browserVars, userVars
<1>4. CASE call' = [call EXCEPT ![g].pc = "count", ![g].register = TRUE]
  <2>1. call' \in [Goroutines -> Call]
    BY <1>1, <1>4 DEF TypeOK, Call
  <2> QED
    BY <1>1, <2>1 DEF Find, TypeOK, webVars, browserVars, userVars
<1> QED
  BY <1>2, <1>3, <1>4 DEF Find

LEMMA CountType == ASSUME SignInInv, NEW g \in Goroutines, Count(g) PROVE TypeOK'
<1>1. TypeOK /\ call[g] \in Call
  BY DEF SignInInv, TypeOK
<1>2. CASE call' = [call EXCEPT ![g].pc = "insert", ![g].count = Cardinality(Docs)]
  <2>1. call' \in [Goroutines -> Call]
    BY <1>1, <1>2, DocsFinite DEF TypeOK, Call
  <2> QED
    BY <1>1, <2>1 DEF Count, TypeOK, webVars, browserVars, userVars
<1>3. CASE CallGoto(g, "refind")
  BY <1>1, <1>3, CallGotoType DEF Count, TypeOK, webVars, browserVars, userVars
<1> QED
  BY <1>2, <1>3 DEF Count

LEMMA InsertType == ASSUME SignInInv, NEW g \in Goroutines, Insert(g) PROVE TypeOK'
<1>1. TypeOK /\ call[g] \in Call /\ CallKnows(g)
  BY DEF SignInInv, TypeOK
<1>2. call' \in [Goroutines -> Call]
  BY <1>1 DEF Insert, TypeOK, Call
<1>3. EmailOfCall(g) \in Emails /\ call[g].count + 1 \in Nat
  BY <1>1, CallFields DEF Insert, Call
<1>4. accounts' \in [DocIds -> User \cup {Nil}]
  BY <1>1, <1>3 DEF Insert, TypeOK, User
<1> QED
  BY <1>1, <1>2, <1>4 DEF Insert, TypeOK, webVars, browserVars

LEMMA RefindType == ASSUME SignInInv, NEW g \in Goroutines, Refind(g) PROVE TypeOK'
<1>1. TypeOK /\ call[g] \in Call
  BY DEF SignInInv, TypeOK
<1>2. CASE CallEnd(g) /\ UNCHANGED wire
  BY <1>1, <1>2, CallEndType DEF Refind, TypeOK, webVars, browserVars
<1>3. CASE \E d \in DocsOf(EmailOfCall(g)) :
             /\ call' = [call EXCEPT ![g].pc = "register", ![g].user = accounts[d]]
             /\ wire' = wire \cup {[user |-> accounts[d], from |-> g]}
  <2>1. PICK d \in DocsOf(EmailOfCall(g)) :
             /\ call' = [call EXCEPT ![g].pc = "register", ![g].user = accounts[d]]
             /\ wire' = wire \cup {[user |-> accounts[d], from |-> g]}
    BY <1>3
  <2>2. accounts[d] \in User
    BY <1>1 DEF TypeOK, DocsOf, Docs
  <2>3. call' \in [Goroutines -> Call]
    BY <1>1, <2>1, <2>2 DEF TypeOK, Call
  <2>4. wire' \subseteq [user : User, from : Goroutines \cup {Nil}]
    BY <1>1, <2>1, <2>2 DEF TypeOK
  <2> QED
    BY <1>1, <2>3, <2>4 DEF Refind, TypeOK, webVars, browserVars
<1> QED
  BY <1>2, <1>3 DEF Refind

LEMMA AnsweredType ==
    ASSUME TypeOK, NEW from \in Goroutines \cup {Nil}, NEW ok \in BOOLEAN,
           Answered(from, ok)
    PROVE  call' \in [Goroutines -> Call]
  BY CallGotoType DEF Answered, TypeOK

LEMMA RegisterType == ASSUME SignInInv, NEW m \in wire, Register(m) PROVE TypeOK'
<1>1. TypeOK /\ m \in [user : User, from : Goroutines \cup {Nil}]
  BY DEF SignInInv, TypeOK
<1>2. \E ok \in BOOLEAN : Answered(m.from, ok)
  BY DEF Register
<1>3. call' \in [Goroutines -> Call]
  BY <1>1, <1>2, AnsweredType
<1>4. appUsers' \subseteq User /\ wire' \subseteq wire
  BY <1>1 DEF Register, TypeOK
<1> QED
  BY <1>1, <1>3, <1>4 DEF Register, TypeOK, webVars, browserVars

LEMMA UndoType == ASSUME SignInInv, NEW g \in Goroutines, Undo(g) PROVE TypeOK'
<1>1. TypeOK
  BY DEF SignInInv
<1>2. accounts' \in [DocIds -> User \cup {Nil}]
  BY <1>1 DEF Undo, RemoveById, TypeOK, Docs
<1>3. call' \in [Goroutines -> Call]
  BY <1>1, CallEndType DEF Undo
<1> QED
  BY <1>1, <1>2, <1>3 DEF Undo, TypeOK, webVars, browserVars

LEMMA ExpiryType == ASSUME SignInInv, NEW g \in Goroutines, Expiry(g) PROVE TypeOK'
<1>1. TypeOK
  BY DEF SignInInv
<1>2. call' \in [Goroutines -> Call]
  BY <1>1, CallEndType, CallGotoType DEF Expiry
<1> QED
  BY <1>1, <1>2 DEF Expiry, TypeOK, webVars, browserVars, userVars

LEMMA StoreType == ASSUME SignInInv, NEW g \in Goroutines, Store(g) PROVE TypeOK'
<1>1. TypeOK /\ CallKnows(g) /\ call[g] \in Call /\ call[g].state \in Sessions
  BY CallFields DEF SignInInv, Store
<1>2. call' \in [Goroutines -> Call]
  BY <1>1, CallGotoType DEF Store
<1>3. tokens[call[g].state] \in TokenData /\ call[g].user \in User
  BY <1>1 DEF Store, CallKnows, TypeOK, Call
<1>4. tokens' \in [Sessions -> TokenData \cup {Nil}]
  BY <1>1, <1>3 DEF Store, TypeOK, TokenData
<1> QED
  BY <1>1, <1>2, <1>4 DEF Store, TypeOK, webVars, browserVars, userVars

LEMMA DeliverType == ASSUME SignInInv, NEW g \in Goroutines, Deliver(g) PROVE TypeOK'
<1>1. TypeOK /\ CallKnows(g) /\ call[g] \in Call /\ call[g].state \in Sessions
  BY CallFields DEF SignInInv, Deliver
<1>2. call' \in [Goroutines -> Call]
  BY <1>1, CallEndType DEF Deliver
<1>3. tokens[call[g].state] \in TokenData
  BY <1>1 DEF Deliver, CallKnows, TypeOK
<1>4. tokens[call[g].state].jwt \in Record
  BY <1>3 DEF TokenData, Record
<1>5. records' \in [Sessions -> Record]
  BY <1>1, <1>4 DEF Deliver, SaveJWTTokens, TypeOK, Call
<1> QED
  BY <1>1, <1>2, <1>5 DEF Deliver, TypeOK, browserVars, userVars

LEMMA AuthorizeType ==
    ASSUME SignInInv, NEW g \in Goroutines, NEW b \in Browsers, NEW p \in Browsers,
           NEW s \in Sessions, Authorize(g, b, p, s)
    PROVE  TypeOK'
<1>1. TypeOK /\ cookie[b] \in Sessions \cup {Nil}
  BY DEF SignInInv, TypeOK
<1>2. call' \in [Goroutines -> Call]
  BY <1>1, IdleCallType DEF Authorize, TypeOK, Call
<1> QED
  BY <1>1, <1>2 DEF Authorize, TypeOK, webVars, browserVars, userVars

LEMMA CallbackType ==
    ASSUME SignInInv, NEW b \in Browsers, NEW s \in Sessions, Callback(b, s)
    PROVE  TypeOK'
  BY DEF SignInInv, Callback, TypeOK, webVars, userVars

LEMMA ExpireType == ASSUME SignInInv, NEW s \in Sessions, Expire(s) PROVE TypeOK'
<1>1. TypeOK
  BY DEF SignInInv
<1>2. tokens[s] \in TokenData
  BY <1>1 DEF Expire, TypeOK
<1>3. [tokens[s] EXCEPT !.live = FALSE] \in TokenData
  BY <1>2 DEF TokenData
<1>4. tokens' = [tokens EXCEPT ![s] = [tokens[s] EXCEPT !.live = FALSE]]
  BY DEF Expire
<1>5. tokens' \in [Sessions -> TokenData \cup {Nil}]
  BY <1>1, <1>3, <1>4 DEF TypeOK
<1> QED
  BY <1>1, <1>5 DEF Expire, TypeOK, webVars, browserVars, userVars

LEMMA CrashType == ASSUME SignInInv, Crash PROVE TypeOK'
<1>1. TypeOK
  BY DEF SignInInv
<1>2. wire' \subseteq [user : User, from : Goroutines \cup {Nil}]
  BY <1>1 DEF Crash, TypeOK
<1>3. call' \in [Goroutines -> Call]
  BY IdleCallType DEF Crash
<1> QED
  BY <1>1, <1>2, <1>3 DEF Crash, TypeOK, webVars, browserVars

(* The pages of the web server.                                            *)

LEMMA TaskGotoType ==
    ASSUME TypeOK, NEW t \in Tasks,
           NEW pc \in {"save", "show", "ask", "revoke"}, TaskGoto(t, pc)
    PROVE  task' \in [Tasks -> Task]
  BY DEF TypeOK, TaskGoto, Task

LEMMA TaskReplyType ==
    ASSUME TypeOK, NEW t \in Tasks, NEW code \in {200, 302, 500}, TaskReply(t, code)
    PROVE  task' \in [Tasks -> Task]
<1>1. task[t] \in Task
  BY DEF TypeOK
<1>2. [task[t] EXCEPT !.pc = "done"] \in Task
  BY <1>1 DEF Task
<1>3. [[task[t] EXCEPT !.pc = "done"] EXCEPT !.code = code] \in Task
  <2> DEFINE r == [task[t] EXCEPT !.pc = "done"]
  <2>1. r \in Task /\ code \in {0, 200, 302, 500}
    BY <1>2
  <2> HIDE DEF r
  <2>2. [r EXCEPT !.code = code] \in Task
    BY <2>1, Z3 DEF Task
  <2> QED
    BY <2>2, Zenon DEF r
<1>4. [task[t] EXCEPT !.pc = "done", !.code = code] \in Task
  BY <1>3
<1> QED
  BY <1>4 DEF TypeOK, TaskReply

LEMMA RequestType ==
    ASSUME SignInInv, NEW t \in Tasks, NEW b \in Browsers, NEW op \in Ops,
           Request(t, b, op)
    PROVE  TypeOK'
<1>1. TypeOK
  BY DEF SignInInv
<1> DEFINE pc == IF op \in {"logout", "logout_all"} THEN "remove" ELSE "look"
<1>2. CASE /\ cookie[b] \in live
           /\ task' = [task EXCEPT ![t] = [IdleTask EXCEPT !.pc = pc, !.op = op,
                            !.browser = b, !.session = cookie[b]]]
           /\ UNCHANGED <<owner, live>>
  <2>1. cookie[b] \in Sessions
    BY <1>1, <1>2 DEF TypeOK
  <2>2. [IdleTask EXCEPT !.pc = pc, !.op = op, !.browser = b, !.session = cookie[b]]
          \in Task
    BY <2>1 DEF IdleTask, Task
  <2>3. task' \in [Tasks -> Task]
    BY <1>1, <1>2, <2>2 DEF TypeOK
  <2> QED
    BY <1>1, <1>2, <2>3 DEF Request, TypeOK, browserVars, userVars
<1>3. CASE \E s \in Unopened :
              /\ task' = [task EXCEPT ![t] = [IdleTask EXCEPT !.pc = pc, !.op = op,
                               !.browser = b, !.session = s, !.fresh = TRUE]]
              /\ OpenSession(b, s, {cookie[b]})
  <2>1. PICK s \in Unopened :
              /\ task' = [task EXCEPT ![t] = [IdleTask EXCEPT !.pc = pc, !.op = op,
                               !.browser = b, !.session = s, !.fresh = TRUE]]
              /\ OpenSession(b, s, {cookie[b]})
    BY <1>3
  <2>2. [IdleTask EXCEPT !.pc = pc, !.op = op, !.browser = b, !.session = s,
                         !.fresh = TRUE] \in Task
    BY <2>1 DEF IdleTask, Task, Unopened
  <2>3. task' \in [Tasks -> Task]
    BY <1>1, <2>1, <2>2 DEF TypeOK
  <2>4. /\ owner' \in [Sessions -> Browsers \cup {Nil}]
        /\ live' \subseteq Sessions
    BY <1>1, <2>1 DEF TypeOK, OpenSession, Unopened
  <2> QED
    BY <1>1, <2>3, <2>4 DEF Request, TypeOK, browserVars, userVars
<1> QED
  BY <1>2, <1>3 DEF Request

LEMMA LookType == ASSUME SignInInv, NEW t \in Tasks, Look(t) PROVE TypeOK'
<1>1. TypeOK
  BY DEF SignInInv
<1>2. task' \in [Tasks -> Task]
  BY <1>1, TaskGotoType DEF Look
<1> QED
  BY <1>1, <1>2 DEF Look, TypeOK, browserVars, userVars

LEMMA SaveType == ASSUME SignInInv, NEW t \in Tasks, Save(t) PROVE TypeOK'
<1>1. TypeOK
  BY DEF SignInInv
<1>2. task' \in [Tasks -> Task]
  BY <1>1, TaskGotoType, TaskReplyType DEF Save
<1>3. records' \in [Sessions -> Record]
  BY <1>1 DEF Save, SaveAuthToken, TypeOK, Record
<1> QED
  BY <1>1, <1>2, <1>3 DEF Save, TypeOK, browserVars, userVars

LEMMA ShowType == ASSUME SignInInv, NEW t \in Tasks, Show(t) PROVE TypeOK'
<1>1. TypeOK
  BY DEF SignInInv
<1>2. task' \in [Tasks -> Task]
  BY <1>1, TaskReplyType DEF Show
<1> QED
  BY <1>1, <1>2 DEF Show, TypeOK, browserVars, userVars

LEMMA AskType == ASSUME SignInInv, NEW t \in Tasks, Ask(t) PROVE TypeOK'
<1>1. TypeOK
  BY DEF SignInInv
<1>2. task' \in [Tasks -> Task]
  BY <1>1, TaskReplyType DEF Ask
<1>3. [live |-> TRUE, jwt |-> Nil] \in TokenData
  BY DEF TokenData
<1>4. tokens' \in [Sessions -> TokenData \cup {Nil}]
  BY <1>1, <1>3 DEF Ask, NewLogin, TypeOK
<1> QED
  BY <1>1, <1>2, <1>4 DEF Ask, TypeOK, browserVars, userVars

LEMMA RemoveType == ASSUME SignInInv, NEW t \in Tasks, Remove(t) PROVE TypeOK'
<1>1. TypeOK
  BY DEF SignInInv
<1>2. task' \in [Tasks -> Task]
  BY <1>1, TaskGotoType, TaskReplyType DEF Remove
<1>3. records' \in [Sessions -> Record]
  BY <1>1 DEF Remove, RemoveTokens, TypeOK, Record
<1> QED
  BY <1>1, <1>2, <1>3 DEF Remove, TypeOK, browserVars, userVars

LEMMA RevokeType == ASSUME SignInInv, NEW t \in Tasks, Revoke(t) PROVE TypeOK'
<1>1. TypeOK
  BY DEF SignInInv
<1>2. task' \in [Tasks -> Task]
  BY <1>1, TaskReplyType DEF Revoke
<1> QED
  BY <1>1, <1>2 DEF Revoke, TypeOK, browserVars, userVars

LEMMA AnswerType == ASSUME SignInInv, NEW t \in Tasks, Answer(t) PROVE TypeOK'
<1>1. /\ TypeOK
      /\ task[t].browser \in Browsers /\ task[t].session \in Sessions
  BY DEF SignInInv, Ownership, Answer
<1>2. task' \in [Tasks -> Task]
  BY <1>1, IdleTaskType DEF Answer, TypeOK
<1>3. cookie' \in [Browsers -> Sessions \cup {Nil}] /\ sent' \subseteq Browsers \X Sessions
  BY <1>1 DEF Answer, TypeOK
<1> QED
  BY <1>1, <1>2, <1>3 DEF Answer, TypeOK, userVars

LEMMA InitType == ASSUME Init PROVE TypeOK
<1>1. \A s \in Sessions : BegunBy(s) \subseteq Browsers
  BY DEF BegunBy
<1>2. owner \in [Sessions -> Browsers \cup {Nil}]
  BY <1>1 DEF Init
<1>3. /\ records \in [Sessions -> Record]
      /\ tokens \in [Sessions -> TokenData \cup {Nil}]
  BY DEF Init, Record, TokenData
<1>4. cookie \in [Browsers -> Sessions \cup {Nil}]
  BY DEF Init
<1>5. live \subseteq Sessions
  BY DEF Init
<1> QED
  BY <1>2, <1>3, <1>4, <1>5, IdleCallType, IdleTaskType DEF Init, TypeOK

LEMMA TypeStep == ASSUME SignInInv, Next PROVE TypeOK'
<1>1. ASSUME NEW t \in Tasks, TaskStep(t) PROVE TypeOK'
  BY <1>1, LookType, SaveType, ShowType, AskType, RemoveType, RevokeType, AnswerType
     DEF TaskStep
<1>2. ASSUME NEW t \in Tasks, NEW b \in Browsers, NEW op \in Ops, Request(t, b, op)
      PROVE  TypeOK'
  BY <1>2, RequestType
<1>3. ASSUME NEW g \in Goroutines, CallStep(g) PROVE TypeOK'
  BY <1>3, FindType, CountType, InsertType, RefindType, RegisterType, UndoType,
     ExpiryType, StoreType, DeliverType
     DEF CallStep
<1> QED
  BY <1>1, <1>2, <1>3, AuthorizeType, CallbackType, ExpireType, RegisterType, CrashType
     DEF Next

-----------------------------------------------------------------------------
(* Which steps leave what alone.                                           *)

InnerStep(t) == Look(t) \/ Save(t) \/ Show(t) \/ Ask(t) \/ Remove(t) \/ Revoke(t)

ServerStep ==
    \/ \E g \in Goroutines :
          CallStep(g) \/ \E b, p \in Browsers, s \in Sessions : Authorize(g, b, p, s)
    \/ \E s \in Sessions : Expire(s)
    \/ \E m \in wire : Register(m)
    \/ Crash

LEMMA NextSplit ==
    ASSUME Next
    PROVE  \/ \E t \in Tasks : InnerStep(t)
           \/ \E t \in Tasks : Answer(t)
           \/ \E t \in Tasks, b \in Browsers, op \in Ops : Request(t, b, op)
           \/ \E b \in Browsers, s \in Sessions : Callback(b, s)
           \/ ServerStep
  BY DEF Next, TaskStep, InnerStep, ServerStep

LEMMA ServerKeepsWeb ==
    ASSUME ServerStep
    PROVE  UNCHANGED <<owner, live, task, cookie, sent, granted>>
<1>1. ASSUME NEW g \in Goroutines, CallStep(g)
      PROVE  UNCHANGED <<owner, live, task, cookie, sent, granted>>
  BY <1>1 DEF CallStep, Find, Count, Insert, Refind, Register, Undo, Expiry, Store,
              Deliver, webVars, browserVars
<1> QED
  BY <1>1 DEF ServerStep, Authorize, Expire, Register, Crash, webVars, browserVars

LEMMA InnerKeepsCalls ==
    ASSUME NEW t \in Tasks, InnerStep(t)
    PROVE  UNCHANGED <<owner, live, cookie, sent, granted, accounts, wire, appUsers, call>>
  BY DEF InnerStep, Look, Save, Show, Ask, Remove, Revoke, browserVars, userVars

LEMMA TaskGotoEffect ==
    ASSUME TypeOK, NEW t \in Tasks, NEW pc, TaskGoto(t, pc)
    PROVE  /\ task'[t].pc = pc
           /\ \A u \in Tasks : /\ task'[u].op = task[u].op
                               /\ task'[u].browser = task[u].browser
                               /\ task'[u].session = task[u].session
                               /\ u # t => task'[u] = task[u]
  BY DEF TypeOK, Task, TaskGoto

LEMMA TaskReplyEffect ==
    ASSUME TypeOK, NEW t \in Tasks, NEW code, TaskReply(t, code)
    PROVE  /\ task'[t].pc = "done"
           /\ \A u \in Tasks : /\ task'[u].op = task[u].op
                               /\ task'[u].browser = task[u].browser
                               /\ task'[u].session = task[u].session
                               /\ u # t => task'[u] = task[u]
  BY DEF TypeOK, Task, TaskReply

LEMMA InnerTask ==
    ASSUME TypeOK, NEW t \in Tasks, InnerStep(t)
    PROVE  /\ task[t].pc # "idle"
           /\ \A u \in Tasks : /\ task'[u].op = task[u].op
                               /\ task'[u].browser = task[u].browser
                               /\ task'[u].session = task[u].session
                               /\ u # t => task'[u] = task[u]
<1>1. (\E pc : TaskGoto(t, pc)) \/ \E code : TaskReply(t, code)
  BY DEF InnerStep, Look, Save, Show, Ask, Remove, Revoke
<1>2. task[t].pc # "idle"
  BY DEF InnerStep, Look, Save, Show, Ask, Remove, Revoke
<1> QED
  BY <1>1, <1>2, TaskGotoEffect, TaskReplyEffect

\* A page request that has just arrived.
LEMMA RequestTask ==
    ASSUME SignInInv, NEW t \in Tasks, NEW b \in Browsers, NEW op \in Ops,
           Request(t, b, op)
    PROVE  \E s \in Sessions :
             /\ \/ owner' = owner /\ owner[s] = b /\ op # "login"
                \/ owner[s] = Nil /\ owner' = [owner EXCEPT ![s] = b]
             /\ task'[t].pc \in {"look", "remove"} /\ task'[t].op = op
             /\ task'[t].browser = b /\ task'[t].session = s
             /\ \A u \in Tasks : u # t => task'[u] = task[u]
<1>1. TypeOK /\ Ownership
  BY DEF SignInInv
<1> DEFINE pc == IF op \in {"logout", "logout_all"} THEN "remove" ELSE "look"
<1>2. CASE /\ cookie[b] \in live /\ op # "login"
           /\ task' = [task EXCEPT ![t] = [IdleTask EXCEPT !.pc = pc, !.op = op,
                            !.browser = b, !.session = cookie[b]]]
           /\ UNCHANGED <<owner, live>>
  <2>1. cookie[b] \in Sessions /\ owner[cookie[b]] = b
    BY <1>1, <1>2 DEF TypeOK, Ownership
  <2> QED
    BY <1>1, <1>2, <2>1 DEF TypeOK, IdleTask
<1>3. CASE \E s \in Unopened :
              /\ task' = [task EXCEPT ![t] = [IdleTask EXCEPT !.pc = pc, !.op = op,
                               !.browser = b, !.session = s, !.fresh = TRUE]]
              /\ OpenSession(b, s, {cookie[b]})
  <2>1. PICK s \in Unopened :
              /\ task' = [task EXCEPT ![t] = [IdleTask EXCEPT !.pc = pc, !.op = op,
                               !.browser = b, !.session = s, !.fresh = TRUE]]
              /\ OpenSession(b, s, {cookie[b]})
    BY <1>3
  <2>2. /\ task'[t].pc \in {"look", "remove"} /\ task'[t].op = op
        /\ task'[t].browser = b /\ task'[t].session = s
        /\ \A u \in Tasks : u # t => task'[u] = task[u]
    BY <1>1, <2>1 DEF TypeOK, IdleTask
  <2>3. s \in Sessions /\ owner[s] = Nil /\ owner' = [owner EXCEPT ![s] = b]
    BY <2>1 DEF OpenSession, Unopened
  <2> QED
    BY <2>2, <2>3
<1> QED
  BY <1>2, <1>3 DEF Request

-----------------------------------------------------------------------------
(* The rest of the invariant, part by part.                                *)

LEMMA OwnershipStep == ASSUME SignInInv, Next PROVE Ownership'
<1>1. TypeOK /\ Ownership
  BY DEF SignInInv
<1>2. ASSUME NEW t \in Tasks, InnerStep(t) PROVE Ownership'
  BY <1>1, <1>2, InnerKeepsCalls, InnerTask DEF Ownership
<1>3. ASSUME NEW t \in Tasks, Answer(t) PROVE Ownership'
  <2>1. /\ task[t].browser \in Browsers /\ task[t].session \in Sessions
        /\ owner[task[t].session] = task[t].browser
    BY <1>1, <1>3 DEF Ownership, Answer
  <2>2. UNCHANGED <<owner, granted>> /\ sent \subseteq sent'
    BY <1>3 DEF Answer
  <2>3. \A c \in sent' : owner'[c[2]] = c[1]
    BY <1>1, <1>3, <2>1 DEF Ownership, Answer
  <2>4. \A b \in Browsers : cookie'[b] # Nil => owner'[cookie'[b]] = b
    BY <1>1, <1>3, <2>1 DEF Ownership, Answer, TypeOK
  <2>5. \A u \in Tasks : task'[u].pc # "idle" => task'[u] = task[u]
    BY <1>1, <1>3 DEF Answer, TypeOK, IdleTask
  <2> QED
    BY <1>1, <2>2, <2>3, <2>4, <2>5 DEF Ownership
<1>4. ASSUME NEW t \in Tasks, NEW b \in Browsers, NEW op \in Ops, Request(t, b, op)
      PROVE  Ownership'
  <2>1. UNCHANGED <<cookie, sent, granted>>
    BY <1>4 DEF Request, browserVars
  <2>2. PICK s \in Sessions :
             /\ \/ owner' = owner /\ owner[s] = b /\ op # "login"
                \/ owner[s] = Nil /\ owner' = [owner EXCEPT ![s] = b]
             /\ task'[t].pc \in {"look", "remove"} /\ task'[t].op = op
             /\ task'[t].browser = b /\ task'[t].session = s
             /\ \A u \in Tasks : u # t => task'[u] = task[u]
    BY <1>4, RequestTask
  <2>3. owner'[s] = b /\ \A r \in Sessions : owner[r] # Nil => owner'[r] = owner[r]
    BY <1>1, <2>2 DEF TypeOK
  <2>4. \A c \in sent : c[1] \in Browsers /\ c[2] \in Sessions
    BY <1>1 DEF TypeOK
  <2>5. \A c \in sent : owner'[c[2]] = c[1]
    BY <1>1, <2>3, <2>4 DEF Ownership
  <2>6. \A c \in Browsers : cookie[c] # Nil => owner'[cookie[c]] = c
    BY <1>1, <2>3 DEF Ownership, TypeOK
  <2>7. \A u \in Tasks : task'[u].pc # "idle" =>
          /\ task'[u].op \in Ops /\ task'[u].browser \in Browsers
          /\ task'[u].session \in Sessions
          /\ owner'[task'[u].session] = task'[u].browser
    BY <1>1, <2>2, <2>3 DEF Ownership
  <2> QED
    BY <1>1, <2>1, <2>5, <2>6, <2>7 DEF Ownership
<1>5. ASSUME NEW b \in Browsers, NEW s \in Sessions, Callback(b, s) PROVE Ownership'
  BY <1>1, <1>5 DEF Callback, Ownership, webVars
<1>6. CASE ServerStep
  BY <1>1, <1>6, ServerKeepsWeb DEF Ownership
<1> QED
  BY <1>2, <1>3, <1>4, <1>5, <1>6, NextSplit

LEMMA LoginStep == ASSUME SignInInv, Next PROVE (LoginPrivate /\ AskOfLogin)'
<1>1. TypeOK /\ Ownership /\ LoginPrivate /\ AskOfLogin
  BY DEF SignInInv
<1>2. ASSUME NEW t \in Tasks, InnerStep(t) PROVE (LoginPrivate /\ AskOfLogin)'
  <2>1. task'[t].pc = "ask" => task[t].op = "login"
    <3>1. CASE Look(t)
      BY <1>1, <3>1, TaskGotoEffect DEF Look
    <3>2. CASE Save(t)
      BY <1>1, <3>2, TaskGotoEffect, TaskReplyEffect DEF Save
    <3>3. CASE Show(t) \/ Ask(t) \/ Remove(t) \/ Revoke(t)
      BY <1>1, <3>3, TaskGotoEffect, TaskReplyEffect DEF Show, Ask, Remove, Revoke
    <3> QED
      BY <1>2, <3>1, <3>2, <3>3 DEF InnerStep
  <2>2. LoginPrivate'
    BY <1>1, <1>2, InnerTask, InnerKeepsCalls DEF LoginPrivate
  <2> QED
    BY <1>1, <1>2, <2>1, <2>2, InnerTask DEF AskOfLogin
<1>3. ASSUME NEW t \in Tasks, Answer(t) PROVE (LoginPrivate /\ AskOfLogin)'
  <2>1. \A u \in Tasks : task'[u].pc # "idle" => task'[u] = task[u] /\ u # t
    BY <1>1, <1>3 DEF Answer, TypeOK, IdleTask
  <2>2. task[t].pc # "idle" /\ task'[t].pc = "idle"
    BY <1>1, <1>3 DEF Answer, TypeOK, IdleTask
  <2>3. \A c \in sent' : c \in sent \/ (task[t].op = "login" /\ c[2] = task[t].session)
    BY <1>3 DEF Answer
  <2>4. ASSUME NEW u \in Tasks, task'[u].pc # "idle", task'[u].op = "login",
               NEW c \in sent'
        PROVE  c[2] # task'[u].session
    BY <1>1, <2>1, <2>2, <2>3, <2>4 DEF LoginPrivate
  <2> QED
    BY <1>1, <2>1, <2>2, <2>4 DEF LoginPrivate, AskOfLogin
<1>4. ASSUME NEW t \in Tasks, NEW b \in Browsers, NEW op \in Ops, Request(t, b, op)
      PROVE  (LoginPrivate /\ AskOfLogin)'
  <2>1. UNCHANGED sent
    BY <1>4 DEF Request, browserVars
  <2>2. PICK s \in Sessions :
             /\ \/ owner' = owner /\ owner[s] = b /\ op # "login"
                \/ owner[s] = Nil /\ owner' = [owner EXCEPT ![s] = b]
             /\ task'[t].pc \in {"look", "remove"} /\ task'[t].op = op
             /\ task'[t].browser = b /\ task'[t].session = s
             /\ \A u \in Tasks : u # t => task'[u] = task[u]
    BY <1>4, RequestTask
  <2>3. ASSUME op = "login", NEW u \in Tasks, u # t, task[u].pc # "idle"
        PROVE  task[u].session # s
    BY <1>1, <2>2, <2>3 DEF Ownership
  <2>4. ASSUME op = "login", NEW c \in sent PROVE c[2] # s
    BY <1>1, <2>2, <2>4 DEF Ownership, TypeOK
  <2> QED
    BY <1>1, <2>1, <2>2, <2>3, <2>4 DEF LoginPrivate, AskOfLogin
<1>5. ASSUME NEW b \in Browsers, NEW s \in Sessions, Callback(b, s)
      PROVE  (LoginPrivate /\ AskOfLogin)'
  BY <1>1, <1>5 DEF Callback, LoginPrivate, AskOfLogin, webVars
<1>6. CASE ServerStep
  BY <1>1, <1>6, ServerKeepsWeb DEF LoginPrivate, AskOfLogin
<1> QED
  BY <1>2, <1>3, <1>4, <1>5, <1>6, NextSplit

(* Tokens.                                                                 *)

\* A session keeps the browser it was handed to.
LEMMA OwnerKept ==
    ASSUME SignInInv, Next, NEW s \in Sessions, owner[s] # Nil
    PROVE  owner'[s] = owner[s]
<1>1. ASSUME NEW t \in Tasks, NEW b \in Browsers, NEW op \in Ops, Request(t, b, op)
      PROVE  owner'[s] = owner[s]
  BY <1>1, RequestTask DEF SignInInv, TypeOK
<1> QED
  BY <1>1, NextSplit, InnerKeepsCalls, ServerKeepsWeb DEF Answer, Callback, webVars

LEMMA TokensStep == ASSUME SignInInv, Next PROVE TokensOwned'
<1>1. TypeOK /\ TokensOwned /\ \A g \in Goroutines : CallKnows(g)
  BY DEF SignInInv
<1>2. Anonymous \notin User /\ Nil \notin User
  BY DEF User
<1>3. \A s \in Sessions : owner[s] # Nil => owner'[s] = owner[s]
  BY <1>1, OwnerKept
<1>4. \A s \in Sessions : records'[s] \in {records[s], Anonymous, Nil} \/ owner[s] # Nil
  <2>1. ASSUME NEW t \in Tasks, InnerStep(t), NEW s \in Sessions
        PROVE  records'[s] \in {records[s], Anonymous, Nil}
    BY <1>1, <2>1 DEF InnerStep, Look, Save, Show, Ask, Remove, Revoke,
                      SaveAuthToken, RemoveTokens, TypeOK
  <2>2. ASSUME NEW g \in Goroutines, Deliver(g), NEW s \in Sessions
        PROVE  records'[s] = records[s] \/ owner[s] # Nil
    BY <1>1, <2>2 DEF Deliver, SaveJWTTokens, TypeOK, CallKnows
  <2>3. CASE records' = records
    BY <2>3
  <2> QED
    BY <2>1, <2>2, <2>3, NextSplit
       DEF ServerStep, CallStep, Authorize, Find, Count, Insert, Refind, Register, Undo,
           Expiry, Store, Expire, Crash, Answer, Request, Callback, webVars
<1> QED
  BY <1>1, <1>2, <1>3, <1>4 DEF TokensOwned, HasTokens

-----------------------------------------------------------------------------
(* What each goroutine knows.                                              *)

LEMMA OtherCall ==
    ASSUME SignInInv, NEW h \in Goroutines, call'[h] = call[h], sent \subseteq sent',
           \A s \in Sessions : owner[s] # Nil => owner'[s] = owner[s],
           \A c \in sent : tokens[c[2]] # Nil => tokens'[c[2]] # Nil,
           \A c \in sent : tokens[c[2]] # Nil /\ tokens[c[2]].jwt # Nil
                          => tokens'[c[2]].jwt # Nil
    PROVE  CallKnows(h)'
<1>1. CallKnows(h) /\ TypeOK
  BY DEF SignInInv
<1>2. CASE call[h].pc = "idle"
  BY <1>2 DEF CallKnows
<1>3. CASE call[h].pc # "idle"
  <2>1. PICK login \in sent : login[2] = call[h].state
    BY <1>1, <1>3 DEF CallKnows
  <2>2. tokens[call[h].state] # Nil => tokens'[call[h].state] # Nil
    BY <2>1
  <2>3. tokens[call[h].state] # Nil /\ tokens[call[h].state].jwt # Nil
        => tokens'[call[h].state].jwt # Nil
    BY <2>1
  <2>4. call[h].session \in Sessions \cup {Nil}
    BY <1>1, <1>3, CallFields DEF TypeOK, Call
  <2>5. call[h].session # Nil => owner'[call[h].session] # Nil
    BY <1>1, <1>3, <2>4 DEF CallKnows
  <2>6. call[h].person \in Browsers /\ \E c \in sent' : c[2] = call[h].state
    BY <1>1, <1>3, <2>1 DEF CallKnows
  <2> QED
    BY <1>1, <1>3, <2>2, <2>3, <2>5, <2>6 DEF CallKnows, EmailOfCall
<1> QED
  BY <1>2, <1>3

\* A goroutine that goes on to pc and leaves everything else of its request alone.
LEMMA SameCall ==
    ASSUME SignInInv, NEW g \in Goroutines, call[g].pc # "idle", UNCHANGED <<sent, owner>>,
           call'[g].person = call[g].person, call'[g].state = call[g].state,
           call'[g].session = call[g].session
    PROVE  /\ call'[g].person \in Browsers
           /\ \E login \in sent' : login[2] = call'[g].state
           /\ call'[g].session # Nil => owner'[call'[g].session] # Nil
  BY DEF SignInInv, CallKnows

LEMMA GotoEffect ==
    ASSUME TypeOK, NEW g \in Goroutines, NEW pc, CallGoto(g, pc)
    PROVE  /\ call'[g].pc = pc /\ call'[g].person = call[g].person
           /\ call'[g].state = call[g].state /\ call'[g].session = call[g].session
           /\ call'[g].user = call[g].user /\ call'[g].count = call[g].count
           /\ call'[g].register = call[g].register
           /\ \A h \in Goroutines : h # g => call'[h] = call[h]
  BY DEF TypeOK, Call, CallGoto

LEMMA EndEffect ==
    ASSUME TypeOK, NEW g \in Goroutines, CallEnd(g)
    PROVE  call'[g].pc = "idle" /\ \A h \in Goroutines : h # g => call'[h] = call[h]
  BY DEF TypeOK, CallEnd, IdleCall

\* A step of goroutine g that ends or goes to an earlier place leaves all knowing.
LEMMA CallStepKnows ==
    ASSUME SignInInv, NEW g \in Goroutines, call[g].pc # "idle",
           UNCHANGED <<sent, owner, tokens>>,
           \A h \in Goroutines : h # g => call'[h] = call[h],
           \/ call'[g].pc = "idle"
           \/ /\ call'[g].person = call[g].person /\ call'[g].state = call[g].state
              /\ call'[g].session = call[g].session
              /\ call'[g].pc \in {"count", "insert", "refind"}
           \/ /\ call'[g].person = call[g].person /\ call'[g].state = call[g].state
              /\ call'[g].session = call[g].session
              /\ call'[g].pc \in {"register", "undo", "expiry"}
              /\ call'[g].user # Nil /\ call'[g].user.email = EmailOfCall(g)
           \/ /\ call'[g].person = call[g].person /\ call'[g].state = call[g].state
              /\ call'[g].session = call[g].session /\ call'[g].pc = "store"
              /\ call'[g].user # Nil /\ call'[g].user.email = EmailOfCall(g)
              /\ tokens[call[g].state] # Nil
    PROVE  \A h \in Goroutines : CallKnows(h)'
<1>1. \A h \in Goroutines : h # g => CallKnows(h)'
  BY OtherCall
<1>2. CallKnows(g)'
  BY SameCall DEF CallKnows, EmailOfCall
<1> QED
  BY <1>1, <1>2

LEMMA FindKnows ==
    ASSUME SignInInv, NEW g \in Goroutines, Find(g)
    PROVE  \A h \in Goroutines : CallKnows(h)'
<1>1. TypeOK /\ call[g] \in Call /\ UNCHANGED <<sent, owner, tokens>>
  BY DEF SignInInv, TypeOK, Find, webVars, browserVars
<1>2. CASE CallEnd(g)
  BY <1>1, <1>2, EndEffect, CallStepKnows DEF Find
<1>3. ASSUME NEW d \in DocsOf(EmailOfCall(g)),
             call' = [call EXCEPT ![g].pc = "expiry", ![g].user = accounts[d]]
      PROVE  \A h \in Goroutines : CallKnows(h)'
  <2>1. accounts[d] # Nil /\ accounts[d].email = EmailOfCall(g)
    BY DEF DocsOf, Docs
  <2>2. /\ call'[g].pc = "expiry" /\ call'[g].user = accounts[d]
        /\ call'[g].person = call[g].person /\ call'[g].state = call[g].state
        /\ call'[g].session = call[g].session
        /\ \A h \in Goroutines : h # g => call'[h] = call[h]
    BY <1>1, <1>3 DEF TypeOK, Call
  <2> QED
    BY <1>1, <2>1, <2>2, CallStepKnows DEF Find
<1>4. CASE call' = [call EXCEPT ![g].pc = "count", ![g].register = TRUE]
  <2>1. /\ call'[g].pc = "count"
        /\ call'[g].person = call[g].person /\ call'[g].state = call[g].state
        /\ call'[g].session = call[g].session
        /\ \A h \in Goroutines : h # g => call'[h] = call[h]
    BY <1>1, <1>4 DEF TypeOK, Call
  <2> QED
    BY <1>1, <2>1, CallStepKnows DEF Find
<1> QED
  BY <1>2, <1>3, <1>4 DEF Find

LEMMA CountKnows ==
    ASSUME SignInInv, NEW g \in Goroutines, Count(g)
    PROVE  \A h \in Goroutines : CallKnows(h)'
<1>1. TypeOK /\ call[g] \in Call /\ UNCHANGED <<sent, owner, tokens>>
  BY DEF SignInInv, TypeOK, Count, webVars, browserVars
<1>2. /\ call'[g].pc \in {"insert", "refind"}
      /\ call'[g].person = call[g].person /\ call'[g].state = call[g].state
      /\ call'[g].session = call[g].session
      /\ \A h \in Goroutines : h # g => call'[h] = call[h]
  BY <1>1, GotoEffect DEF Count, TypeOK, Call
<1> QED
  BY <1>1, <1>2, CallStepKnows DEF Count

LEMMA InsertKnows ==
    ASSUME SignInInv, NEW g \in Goroutines, Insert(g)
    PROVE  \A h \in Goroutines : CallKnows(h)'
<1>1. TypeOK /\ call[g] \in Call /\ UNCHANGED <<sent, owner, tokens>>
  BY DEF SignInInv, TypeOK, Insert, webVars, browserVars
<1>2. /\ call'[g].pc = "refind"
      /\ call'[g].person = call[g].person /\ call'[g].state = call[g].state
      /\ call'[g].session = call[g].session
      /\ \A h \in Goroutines : h # g => call'[h] = call[h]
  BY <1>1 DEF Insert, TypeOK, Call
<1> QED
  BY <1>1, <1>2, CallStepKnows DEF Insert

LEMMA RefindKnows ==
    ASSUME SignInInv, NEW g \in Goroutines, Refind(g)
    PROVE  \A h \in Goroutines : CallKnows(h)'
<1>1. TypeOK /\ call[g] \in Call /\ UNCHANGED <<sent, owner, tokens>>
  BY DEF SignInInv, TypeOK, Refind, webVars, browserVars
<1>2. CASE CallEnd(g)
  BY <1>1, <1>2, EndEffect, CallStepKnows DEF Refind
<1>3. ASSUME NEW d \in DocsOf(EmailOfCall(g)),
             call' = [call EXCEPT ![g].pc = "register", ![g].user = accounts[d]]
      PROVE  \A h \in Goroutines : CallKnows(h)'
  <2>1. accounts[d] # Nil /\ accounts[d].email = EmailOfCall(g)
    BY DEF DocsOf, Docs
  <2>2. /\ call'[g].pc = "register" /\ call'[g].user = accounts[d]
        /\ call'[g].person = call[g].person /\ call'[g].state = call[g].state
        /\ call'[g].session = call[g].session
        /\ \A h \in Goroutines : h # g => call'[h] = call[h]
    BY <1>1, <1>3 DEF TypeOK, Call
  <2> QED
    BY <1>1, <2>1, <2>2, CallStepKnows DEF Refind
<1> QED
  BY <1>2, <1>3 DEF Refind

\* The sender of a request on the wire, if it still waits, goes on.
LEMMA RegisterEffect ==
    ASSUME SignInInv, NEW m \in wire, Register(m)
    PROVE  \/ m.from = Nil /\ call' = call
           \/ /\ m.from \in Goroutines /\ call[m.from].pc = "register"
              /\ call[m.from].user = m.user
              /\ call'[m.from].pc \in {"expiry", "undo"}
              /\ call'[m.from].pc = "expiry" => m.user \in appUsers'
              /\ call'[m.from].user = m.user
              /\ call'[m.from].person = call[m.from].person
              /\ call'[m.from].state = call[m.from].state
              /\ call'[m.from].session = call[m.from].session
              /\ call'[m.from].count = call[m.from].count
              /\ call'[m.from].register = call[m.from].register
              /\ \A h \in Goroutines : h # m.from => call'[h] = call[h]
<1>1. TypeOK /\ WireMatches /\ m.from \in Goroutines \cup {Nil}
  BY DEF SignInInv, TypeOK
<1>2. \E ok \in BOOLEAN : Answered(m.from, ok) /\ (ok => m.user \in appUsers')
  BY DEF Register
<1>3. CASE m.from = Nil
  BY <1>2, <1>3 DEF Answered
<1>4. CASE m.from # Nil
  <2>1. /\ m.from \in Goroutines /\ call[m.from].pc = "register"
        /\ call[m.from].user = m.user
    BY <1>1, <1>4 DEF WireMatches
  <2>2. PICK ok \in BOOLEAN :
          /\ CallGoto(m.from, IF ok THEN "expiry" ELSE "undo")
          /\ ok => m.user \in appUsers'
    BY <1>2, <1>4 DEF Answered
  <2> QED
    BY <1>1, <2>1, <2>2, GotoEffect
<1> QED
  BY <1>3, <1>4

LEMMA RegisterKnows ==
    ASSUME SignInInv, NEW m \in wire, Register(m)
    PROVE  \A h \in Goroutines : CallKnows(h)'
<1>1. TypeOK /\ UNCHANGED <<sent, owner, tokens>> /\ \A g \in Goroutines : CallKnows(g)
  BY DEF SignInInv, Register, webVars, browserVars
<1>2. CASE m.from = Nil /\ call' = call
  BY <1>1, <1>2, OtherCall
<1>3. CASE m.from \in Goroutines /\ call[m.from].pc = "register"
  <2>1. call[m.from].user # Nil /\ call[m.from].user.email = EmailOfCall(m.from)
    BY <1>1, <1>3 DEF CallKnows
  <2>2. /\ call'[m.from].pc \in {"expiry", "undo"}
        /\ call'[m.from].user = call[m.from].user
        /\ call'[m.from].person = call[m.from].person
        /\ call'[m.from].state = call[m.from].state
        /\ call'[m.from].session = call[m.from].session
        /\ \A h \in Goroutines : h # m.from => call'[h] = call[h]
    BY <1>3, RegisterEffect
  <2> QED
    BY <1>1, <1>3, <2>1, <2>2, CallStepKnows
<1> QED
  BY <1>2, <1>3, RegisterEffect

LEMMA UndoKnows ==
    ASSUME SignInInv, NEW g \in Goroutines, Undo(g)
    PROVE  \A h \in Goroutines : CallKnows(h)'
<1>1. TypeOK /\ UNCHANGED <<sent, owner, tokens>>
  BY DEF SignInInv, Undo, webVars, browserVars
<1> QED
  BY <1>1, EndEffect, CallStepKnows DEF Undo

LEMMA ExpiryKnows ==
    ASSUME SignInInv, NEW g \in Goroutines, Expiry(g)
    PROVE  \A h \in Goroutines : CallKnows(h)'
<1>1. TypeOK /\ CallKnows(g) /\ UNCHANGED <<sent, owner, tokens>>
  BY DEF SignInInv, Expiry, webVars, browserVars
<1>2. CASE CallEnd(g)
  BY <1>1, <1>2, EndEffect, CallStepKnows DEF Expiry
<1>3. CASE Unexpired(call[g].state) /\ CallGoto(g, "store")
  <2>1. call[g].pc = "expiry" /\ tokens[call[g].state] # Nil
    BY <1>3 DEF Expiry, Unexpired
  <2>2. call[g].user # Nil /\ call[g].user.email = EmailOfCall(g)
    BY <1>1, <2>1 DEF CallKnows
  <2>3. /\ call'[g].pc = "store" /\ call'[g].user = call[g].user
        /\ call'[g].person = call[g].person /\ call'[g].state = call[g].state
        /\ call'[g].session = call[g].session
        /\ \A h \in Goroutines : h # g => call'[h] = call[h]
    BY <1>1, <1>3, GotoEffect
  <2> QED
    BY <1>1, <2>1, <2>2, <2>3, CallStepKnows
<1> QED
  BY <1>2, <1>3 DEF Expiry

LEMMA StoreKnows ==
    ASSUME SignInInv, NEW g \in Goroutines, Store(g)
    PROVE  \A h \in Goroutines : CallKnows(h)'
<1>1. TypeOK /\ CallKnows(g) /\ UNCHANGED <<sent, owner>>
  BY DEF SignInInv, Store, webVars, browserVars
<1>2. call[g] \in Call /\ call[g].state \in Sessions /\ call[g].user # Nil
  BY <1>1, CallFields DEF Store, CallKnows
<1>3. tokens[call[g].state] \in TokenData
  BY <1>1, <1>2 DEF Store, CallKnows, TypeOK
<1>4. tokens'[call[g].state].jwt = call[g].user /\ tokens'[call[g].state] \in TokenData
  BY <1>1, <1>2, <1>3 DEF Store, TypeOK, TokenData, Call
<1>5. \A s \in Sessions \ {call[g].state} : tokens'[s] = tokens[s]
  BY <1>1 DEF Store, TypeOK
<1>6. Nil \notin TokenData
  BY DEF TokenData, User
<1>7. \A s \in Sessions :
        /\ tokens[s] # Nil => tokens'[s] # Nil
        /\ tokens[s] # Nil /\ tokens[s].jwt # Nil => tokens'[s].jwt # Nil
  BY <1>2, <1>4, <1>5, <1>6
<1>8. \A c \in sent : c[2] \in Sessions
  BY <1>1 DEF TypeOK
<1>9. ASSUME NEW h \in Goroutines, h # g PROVE CallKnows(h)'
  <2>1. call'[h] = call[h]
    BY <1>1, <1>9, GotoEffect DEF Store
  <2>2. \A c \in sent :
          /\ tokens[c[2]] # Nil => tokens'[c[2]] # Nil
          /\ tokens[c[2]] # Nil /\ tokens[c[2]].jwt # Nil => tokens'[c[2]].jwt # Nil
    BY <1>7, <1>8
  <2> QED
    BY <1>1, <2>1, <2>2, OtherCall
<1>10. CallKnows(g)'
  BY <1>1, <1>2, <1>4, <1>6, GotoEffect, SameCall DEF Store, CallKnows, EmailOfCall
<1> QED
  BY <1>9, <1>10

LEMMA DeliverKnows ==
    ASSUME SignInInv, NEW g \in Goroutines, Deliver(g)
    PROVE  \A h \in Goroutines : CallKnows(h)'
<1>1. TypeOK /\ UNCHANGED <<sent, owner, tokens>>
  BY DEF SignInInv, Deliver, browserVars
<1> QED
  BY <1>1, EndEffect, CallStepKnows DEF Deliver

LEMMA AuthorizeKnows ==
    ASSUME SignInInv, NEW g \in Goroutines, NEW b \in Browsers, NEW p \in Browsers,
           NEW s \in Sessions, Authorize(g, b, p, s)
    PROVE  \A h \in Goroutines : CallKnows(h)'
<1>1. TypeOK /\ Ownership /\ UNCHANGED <<sent, owner, tokens>>
  BY DEF SignInInv, Authorize, webVars, browserVars
<1>2. /\ call'[g].pc = "find" /\ call'[g].person = p /\ call'[g].state = s
      /\ call'[g].session = cookie[b] /\ ~call'[g].register
      /\ \A h \in Goroutines : h # g => call'[h] = call[h]
  BY <1>1 DEF Authorize, TypeOK, IdleCall
<1>3. CallKnows(g)'
  BY <1>1, <1>2 DEF CallKnows, Authorize, Ownership
<1> QED
  BY <1>1, <1>2, <1>3, OtherCall

LEMMA CallKnowsStep ==
    ASSUME SignInInv, Next
    PROVE  \A h \in Goroutines : CallKnows(h)'
<1> DEFINE Known == \A h \in Goroutines : CallKnows(h)'
<1>1. TypeOK /\ Ownership /\ AskOfLogin /\ LoginPrivate
  BY DEF SignInInv
<1>2. \A c \in sent : c[1] \in Browsers /\ c[2] \in Sessions
  BY <1>1 DEF TypeOK, Ownership
<1>3. ASSUME NEW t \in Tasks, InnerStep(t) PROVE Known
  <2>1. \A c \in sent : tokens'[c[2]] = tokens[c[2]]
    <3>1. CASE Ask(t)
      <4>1. \A c \in sent : c[2] # task[t].session
        BY <1>1, <3>1 DEF Ask, AskOfLogin, LoginPrivate
      <4> QED
        BY <1>1, <1>2, <3>1, <4>1 DEF Ask, NewLogin, TypeOK
    <3>2. CASE ~Ask(t)
      BY <1>3, <3>2 DEF InnerStep, Look, Save, Show, Remove, Revoke, Logout
    <3> QED
      BY <3>1, <3>2
  <2> QED
    BY <1>3, <2>1, InnerKeepsCalls, OtherCall
<1>4. ASSUME NEW t \in Tasks, Answer(t) PROVE Known
  BY <1>4, OtherCall DEF Answer
<1>5. ASSUME NEW t \in Tasks, NEW b \in Browsers, NEW op \in Ops, Request(t, b, op)
      PROVE  Known
  <2>1. \A s \in Sessions : owner[s] # Nil => owner'[s] = owner[s]
    BY <1>1, <1>5, RequestTask DEF TypeOK
  <2> QED
    BY <1>5, <2>1, OtherCall DEF Request, browserVars
<1>6. ASSUME NEW b \in Browsers, NEW s \in Sessions, Callback(b, s) PROVE Known
  BY <1>6, OtherCall DEF Callback, webVars
<1>7. ASSUME NEW s \in Sessions, Expire(s) PROVE Known
  <2>1. tokens[s] \in TokenData
    BY <1>1, <1>7 DEF Expire, TypeOK
  <2>2. tokens'[s] \in TokenData /\ tokens'[s].jwt = tokens[s].jwt
    BY <1>1, <1>7, <2>1 DEF Expire, TypeOK, TokenData
  <2>3. \A r \in Sessions \ {s} : tokens'[r] = tokens[r]
    BY <1>1, <1>7 DEF Expire, TypeOK
  <2>4. Nil \notin TokenData
    BY DEF TokenData, User
  <2> QED
    BY <1>2, <1>7, <2>2, <2>3, <2>4, OtherCall DEF Expire, webVars, browserVars
<1>8. CASE Crash
  BY <1>8 DEF Crash, CallKnows, IdleCall
<1>9. CASE ServerStep
  BY <1>7, <1>8, <1>9, FindKnows, CountKnows, InsertKnows, RefindKnows, RegisterKnows,
     UndoKnows, ExpiryKnows, StoreKnows, DeliverKnows, AuthorizeKnows
     DEF ServerStep, CallStep
<1> QED
  BY <1>3, <1>4, <1>5, <1>6, <1>9, NextSplit

-----------------------------------------------------------------------------
(* Registration.                                                           *)

\* A step that moves one goroutine off or within the calls around registration.
LEMMA OneCallRegistered ==
    ASSUME SignInInv, NEW g \in Goroutines, UNCHANGED wire, appUsers \subseteq appUsers',
           call[g].pc # "register",
           \A h \in Goroutines : h # g => call'[h] = call[h],
           \/ call'[g].pc \notin {"expiry", "store", "deliver"}
           \/ ~call'[g].register
           \/ /\ call[g].pc \in {"expiry", "store", "deliver"} /\ call[g].register
              /\ call'[g].user = call[g].user
    PROVE  (WireMatches /\ FirstSignInHasRow)'
<1>1. TypeOK /\ WireMatches /\ FirstSignInHasRow
  BY DEF SignInInv
<1>2. ASSUME NEW m \in wire, m.from # Nil
      PROVE  call'[m.from].pc = "register" /\ call'[m.from].user = m.user
  <2>1. m.from \in Goroutines /\ call[m.from].pc = "register" /\ call[m.from].user = m.user
    BY <1>1, <1>2 DEF TypeOK, WireMatches
  <2> QED
    BY <2>1
<1> QED
  BY <1>1, <1>2 DEF WireMatches, FirstSignInHasRow

LEMMA FoundDoesNotRegister ==
    ASSUME SignInInv, NEW g \in Goroutines, Find(g)
    PROVE  (WireMatches /\ FirstSignInHasRow)'
<1>1. TypeOK /\ call[g] \in Call /\ UNCHANGED <<wire, appUsers>>
  BY DEF SignInInv, TypeOK, Find, userVars
<1>2. CASE CallEnd(g)
  BY <1>1, <1>2, EndEffect, OneCallRegistered DEF Find
<1>3. ASSUME NEW d \in DocsOf(EmailOfCall(g)),
             call' = [call EXCEPT ![g].pc = "expiry", ![g].user = accounts[d]]
      PROVE  (WireMatches /\ FirstSignInHasRow)'
  <2>1. call'[g].register = call[g].register
        /\ \A h \in Goroutines : h # g => call'[h] = call[h]
    BY <1>1, <1>3 DEF TypeOK, Call
  <2>2. ~call[g].register
    BY DEF SignInInv, Find, CallKnows
  <2> QED
    BY <1>1, <2>1, <2>2, OneCallRegistered DEF Find
<1>4. CASE call' = [call EXCEPT ![g].pc = "count", ![g].register = TRUE]
  <2>1. call'[g].pc = "count" /\ \A h \in Goroutines : h # g => call'[h] = call[h]
    BY <1>1, <1>4 DEF TypeOK, Call
  <2> QED
    BY <1>1, <2>1, OneCallRegistered DEF Find
<1> QED
  BY <1>2, <1>3, <1>4 DEF Find

LEMMA RegistrationStep == ASSUME SignInInv, Next PROVE (WireMatches /\ FirstSignInHasRow)'
<1> DEFINE Good == (WireMatches /\ FirstSignInHasRow)'
<1>1. TypeOK /\ WireMatches /\ FirstSignInHasRow
  BY DEF SignInInv
<1>2. CASE UNCHANGED <<wire, appUsers, call>>
  BY <1>1, <1>2 DEF WireMatches, FirstSignInHasRow
<1>3. ASSUME NEW g \in Goroutines, Count(g) PROVE Good
  <2>1. UNCHANGED <<wire, appUsers>> /\ call[g].pc = "count"
    BY <1>3 DEF Count, userVars
  <2>2. call'[g].pc \in {"insert", "refind"} /\ \A h \in Goroutines : h # g => call'[h] = call[h]
    BY <1>1, <1>3, GotoEffect DEF Count, TypeOK, Call
  <2> QED
    BY <2>1, <2>2, OneCallRegistered
<1>4. ASSUME NEW g \in Goroutines, Insert(g) PROVE Good
  <2>1. UNCHANGED <<wire, appUsers>> /\ call[g].pc = "insert"
    BY <1>4 DEF Insert
  <2>2. call'[g].pc = "refind" /\ \A h \in Goroutines : h # g => call'[h] = call[h]
    BY <1>1, <1>4 DEF Insert, TypeOK, Call
  <2> QED
    BY <2>1, <2>2, OneCallRegistered
<1>5. ASSUME NEW g \in Goroutines, Refind(g) PROVE Good
  <2>1. call[g].pc = "refind" /\ UNCHANGED appUsers
    BY <1>5 DEF Refind
  <2>2. CASE CallEnd(g) /\ UNCHANGED wire
    BY <1>1, <2>1, <2>2, EndEffect, OneCallRegistered
  <2>3. ASSUME NEW d \in DocsOf(EmailOfCall(g)),
               call' = [call EXCEPT ![g].pc = "register", ![g].user = accounts[d]],
               wire' = wire \cup {[user |-> accounts[d], from |-> g]}
        PROVE  Good
    <3>1. /\ call'[g].pc = "register" /\ call'[g].user = accounts[d]
          /\ \A h \in Goroutines : h # g => call'[h] = call[h]
      BY <1>1, <2>3 DEF TypeOK, Call
    <3>2. \A m \in wire : m.from # g
      BY <1>1, <2>1 DEF WireMatches
    <3>3. \A m \in wire : m.from \in Goroutines \cup {Nil}
      BY <1>1 DEF TypeOK
    <3>4. WireMatches'
      <4>1. ASSUME NEW m \in wire, m.from # Nil
            PROVE  call'[m.from].pc = "register" /\ call'[m.from].user = m.user
        BY <1>1, <3>1, <3>2, <3>3, <4>1 DEF WireMatches
      <4>2. ASSUME NEW m, m = [user |-> accounts[d], from |-> g]
            PROVE  call'[m.from].pc = "register" /\ call'[m.from].user = m.user
        BY <3>1, <4>2
      <4> QED
        BY <2>3, <4>1, <4>2 DEF WireMatches
    <3>5. FirstSignInHasRow'
      BY <1>1, <2>1, <3>1 DEF FirstSignInHasRow
    <3> QED
      BY <3>4, <3>5
  <2> QED
    BY <1>5, <2>2, <2>3 DEF Refind
<1>6. ASSUME NEW m \in wire, Register(m) PROVE Good
  <2>1. wire' = wire \ {m} /\ appUsers \subseteq appUsers'
    BY <1>6 DEF Register
  <2>2. \A n \in wire : n \in [user : User, from : Goroutines \cup {Nil}]
    BY <1>1 DEF TypeOK
  <2>3. CASE m.from = Nil /\ call' = call
    BY <1>1, <2>1, <2>3 DEF WireMatches, FirstSignInHasRow
  <2>4. CASE m.from \in Goroutines /\ call[m.from].pc = "register"
    <3>1. /\ call'[m.from].pc \in {"expiry", "undo"}
          /\ call'[m.from].pc = "expiry" => m.user \in appUsers'
          /\ call[m.from].user = m.user /\ call'[m.from].user = m.user
          /\ \A h \in Goroutines : h # m.from => call'[h] = call[h]
      BY <1>6, <2>4, RegisterEffect
    <3>2. \A n \in wire : n.from = m.from => n = m
      BY <1>1, <2>2, <2>4 DEF WireMatches
    <3>3. WireMatches'
      BY <1>1, <2>1, <2>2, <3>1, <3>2 DEF WireMatches
    <3>4. FirstSignInHasRow'
      BY <1>1, <2>1, <3>1 DEF FirstSignInHasRow
    <3> QED
      BY <3>3, <3>4
  <2> QED
    BY <1>6, <2>3, <2>4, RegisterEffect
<1>7. ASSUME NEW g \in Goroutines, Undo(g) PROVE Good
  BY <1>1, <1>7, EndEffect, OneCallRegistered DEF Undo
<1>8. ASSUME NEW g \in Goroutines, Expiry(g) PROVE Good
  BY <1>1, <1>8, EndEffect, GotoEffect, OneCallRegistered DEF Expiry, userVars
<1>9. ASSUME NEW g \in Goroutines, Store(g) PROVE Good
  BY <1>1, <1>9, GotoEffect, OneCallRegistered DEF Store, userVars
<1>10. ASSUME NEW g \in Goroutines, Deliver(g) PROVE Good
  BY <1>1, <1>10, EndEffect, OneCallRegistered DEF Deliver, userVars
<1>11. ASSUME NEW g \in Goroutines, NEW b \in Browsers, NEW p \in Browsers,
              NEW s \in Sessions, Authorize(g, b, p, s)
       PROVE  Good
  <2>1. call'[g].pc = "find" /\ \A h \in Goroutines : h # g => call'[h] = call[h]
    BY <1>1, <1>11 DEF Authorize, TypeOK, IdleCall
  <2> QED
    BY <1>11, <2>1, OneCallRegistered DEF Authorize, userVars
<1>12. CASE Crash
  <2>1. \A m \in wire' : m.from = Nil
    BY <1>1, <1>12 DEF Crash, TypeOK
  <2> QED
    BY <1>12, <2>1 DEF Crash, WireMatches, FirstSignInHasRow, IdleCall
<1>13. CASE ServerStep
  BY <1>2, <1>3, <1>4, <1>5, <1>6, <1>7, <1>8, <1>9, <1>10, <1>11, <1>12, <1>13,
     FoundDoesNotRegister
     DEF ServerStep, CallStep, Expire, userVars
<1>14. ASSUME NEW t \in Tasks, InnerStep(t) PROVE Good
  BY <1>2, <1>14, InnerKeepsCalls
<1> QED
  BY <1>2, <1>13, <1>14, NextSplit DEF Answer, Request, Callback, userVars

-----------------------------------------------------------------------------
(* The theorems that hold whatever overlaps and fails.                     *)

LEMMA InitInv == ASSUME Init PROVE SignInInv
<1>1. \A s \in Sessions, b \in Browsers : <<b, s>> \in Begun => BegunBy(s) = {b}
  BY DEF BegunBy
<1>2. \A c \in sent : /\ c[1] \in Browsers /\ c[2] \in Sessions
                     /\ owner[c[2]] = c[1]
  <2> TAKE c \in sent
  <2>1. c \in Begun /\ c[1] \in Browsers /\ c[2] \in Sessions /\ c = <<c[1], c[2]>>
    BY DEF Init
  <2>2. BegunBy(c[2]) = {c[1]}
    BY <1>1, <2>1
  <2> QED
    BY <2>1, <2>2 DEF Init
<1>3. \A b \in Browsers : cookie[b] # Nil => <<b, cookie[b]>> \in sent
  BY DEF Init
<1>4. Ownership
  BY <1>2, <1>3 DEF Init, Ownership, IdleTask
<1>5. TokensOwned
  BY DEF Init, TokensOwned, HasTokens, User
<1>6. LoginPrivate /\ AskOfLogin
  BY DEF Init, LoginPrivate, AskOfLogin, IdleTask
<1>7. \A g \in Goroutines : CallKnows(g)
  BY DEF Init, CallKnows, IdleCall
<1>8. WireMatches /\ FirstSignInHasRow
  BY DEF Init, WireMatches, FirstSignInHasRow, IdleCall
<1> QED
  BY <1>4, <1>5, <1>6, <1>7, <1>8, InitType DEF SignInInv

LEMMA StutterInv == ASSUME SignInInv, UNCHANGED vars PROVE SignInInv'
<1>1. UNCHANGED <<records, owner, live, cookie, sent, granted, tokens, accounts, wire,
                  appUsers, call, task>>
  BY DEF vars, webVars, browserVars, userVars
<1>2. TypeOK' /\ Ownership' /\ LoginPrivate' /\ AskOfLogin'
  BY <1>1 DEF SignInInv, TypeOK, Ownership, LoginPrivate, AskOfLogin
<1>3. TokensOwned' /\ WireMatches' /\ FirstSignInHasRow'
  BY <1>1 DEF SignInInv, TokensOwned, HasTokens, WireMatches,
              FirstSignInHasRow
<1>4. \A g \in Goroutines : CallKnows(g)'
  BY <1>1 DEF SignInInv, CallKnows, EmailOfCall
<1> QED
  BY <1>2, <1>3, <1>4 DEF SignInInv

LEMMA StepInv == ASSUME SignInInv, [Next]_vars PROVE SignInInv'
  BY StutterInv, TypeStep, OwnershipStep, TokensStep, LoginStep, CallKnowsStep,
     RegistrationStep
     DEF SignInInv

LEMMA SignInInvariant == Spec => []SignInInv
<1>1. Init => SignInInv
  BY InitInv
<1>2. SignInInv /\ [Next]_vars => SignInInv'
  BY StepInv
<1> QED
  BY <1>1, <1>2, PTL DEF Spec

(* Every record, map entry, document and row has its type in every         *)
(* reachable state (the shared tables of the three servers).               *)
THEOREM SignInTypes == Spec => []TypeOK
<1>1. SignInInv => TypeOK
  BY DEF SignInInv
<1> QED
  BY <1>1, SignInInvariant, PTL

\* A goroutine comes to its delivery only by storing the tokens.
LEMMA StepsToDeliver ==
    ASSUME TypeOK, NEW g \in Goroutines,
           CallStep(g) \/ \E b, p \in Browsers, s \in Sessions : Authorize(g, b, p, s),
           ~Store(g), ~Deliver(g), NEW h \in Goroutines, call'[h].pc = "deliver"
    PROVE  call'[h] = call[h]
<1>1. CASE Find(g)
  BY <1>1, EndEffect DEF Find, TypeOK, Call
<1>2. CASE Count(g) \/ Insert(g)
  BY <1>2, GotoEffect DEF Count, Insert, TypeOK, Call
<1>3. CASE Refind(g)
  BY <1>3, EndEffect DEF Refind, TypeOK, Call
<1>4. ASSUME NEW m \in wire, m.from = g, Register(m) PROVE call'[h] = call[h]
  <2>1. Answered(g, TRUE) \/ Answered(g, FALSE)
    BY <1>4 DEF Register
  <2>2. PICK pc \in {"expiry", "undo"} : CallGoto(g, pc)
    BY <2>1 DEF Answered
  <2> QED
    BY <2>2, GotoEffect
<1>5. CASE Undo(g)
  BY <1>5, EndEffect DEF Undo
<1>6. CASE Expiry(g)
  BY <1>6, EndEffect, GotoEffect DEF Expiry
<1>7. ASSUME NEW b \in Browsers, NEW p \in Browsers, NEW s \in Sessions,
             Authorize(g, b, p, s)
      PROVE  call'[h] = call[h]
  BY <1>7 DEF Authorize, TypeOK, IdleCall
<1> QED
  BY <1>1, <1>2, <1>3, <1>4, <1>5, <1>6, <1>7 DEF CallStep

(* What keeps a session to its own person's tokens, step by step.          *)
LEMMA OwnStep ==
    ASSUME SignInInv, [Next]_vars, NEW s \in Sessions, OwnOnly(s), ~Mixed(s)
    PROVE  OwnOnly(s)'
<1>1. TypeOK /\ AskOfLogin /\ LoginPrivate /\ \A g \in Goroutines : CallKnows(g)
  BY DEF SignInInv
<1>2. Anonymous \notin User /\ Nil \notin User
  BY DEF User
<1> DEFINE Delivers(g) == call[g].session = s /\ call[g].pc = "deliver"
<1>3. ASSUME NEW g \in Goroutines, NEW h \in Goroutines,
             call[g].session = s, call[h].state = call[g].state
      PROVE  EmailOfCall(h) = EmailOf[owner[s]]
  BY <1>3 DEF Mixed
<1>4. CASE UNCHANGED vars
  BY <1>4 DEF vars, webVars, OwnOnly, OwnUser, HasTokens
<1>5. ASSUME Next, NEW user, OwnUser(s, user) PROVE OwnUser(s, user)'
  BY <1>1, <1>5, OwnerKept DEF OwnUser
<1>6. ASSUME Next,
             records'[s] \in {records[s], Anonymous, Nil},
             \A g \in Goroutines : Delivers(g)' =>
                /\ call'[g] = call[g]
                /\ tokens'[call[g].state].jwt = tokens[call[g].state].jwt
      PROVE  OwnOnly(s)'
  <2>1. HasTokens(s)' => OwnUser(s, records[s])' /\ records'[s] = records[s]
    BY <1>2, <1>5, <1>6 DEF OwnOnly, HasTokens
  <2>2. ASSUME NEW g \in Goroutines, Delivers(g)'
        PROVE  OwnUser(s, tokens[call[g].state].jwt)'
    <3>1. Delivers(g) /\ OwnUser(s, tokens[call[g].state].jwt)
      BY <1>6, <2>2 DEF OwnOnly
    <3> QED
      BY <1>5, <1>6, <2>2, <3>1 DEF OwnUser
  <2> QED
    BY <2>1, <2>2 DEF OwnOnly, OwnUser
<1>7. ASSUME NEW t \in Tasks, InnerStep(t), Next PROVE OwnOnly(s)'
  <2>1. records'[s] \in {records[s], Anonymous, Nil}
    BY <1>1, <1>7 DEF InnerStep, Look, Save, Show, Ask, Remove, Revoke,
                      SaveAuthToken, RemoveTokens, TypeOK
  <2>2. ASSUME NEW g \in Goroutines, Delivers(g)
        PROVE  tokens'[call[g].state] = tokens[call[g].state]
    <3>1. PICK login \in sent : login[2] = call[g].state
      BY <1>1, <2>2 DEF CallKnows
    <3>2. CASE Ask(t)
      BY <1>1, <3>1, <3>2 DEF Ask, AskOfLogin, LoginPrivate, NewLogin, TypeOK
    <3> QED
      BY <1>7, <3>2 DEF InnerStep, Look, Save, Show, Remove, Revoke, Logout
  <2> QED
    BY <1>6, <1>7, <2>1, <2>2, InnerKeepsCalls
<1>8. ASSUME NEW g \in Goroutines, Store(g), Next PROVE OwnOnly(s)'
  <2>1. /\ call[g].state \in Sessions /\ call[g] \in Call
        /\ call[g].user # Nil /\ call[g].user.email = EmailOfCall(g)
        /\ tokens[call[g].state] \in TokenData
    BY <1>1, <1>8, CallFields DEF Store, CallKnows, TypeOK
  <2>2. /\ tokens'[call[g].state].jwt = call[g].user
        /\ \A r \in Sessions \ {call[g].state} : tokens'[r] = tokens[r]
    BY <1>1, <1>8, <2>1 DEF Store, TypeOK, TokenData, Call
  <2>3. /\ records' = records /\ owner' = owner
        /\ \A h \in Goroutines : /\ call'[h].state = call[h].state
                                 /\ call'[h].session = call[h].session
                                 /\ h # g => call'[h] = call[h]
    BY <1>1, <1>8, GotoEffect DEF Store, webVars
  <2>4. ASSUME NEW h \in Goroutines, Delivers(h)'
        PROVE  OwnUser(s, tokens[call[h].state].jwt)'
    <3>1. call[h].pc # "idle" /\ call[h].session = s /\ (h = g \/ Delivers(h))
      BY <1>8, <2>3, <2>4 DEF Store
    <3>2. owner[s] # Nil /\ call[h].state \in Sessions
      BY <1>1, <3>1, CallFields DEF CallKnows
    <3>3. CASE call[h].state = call[g].state
      <4>1. EmailOfCall(g) = EmailOf[owner[s]]
        BY <1>3, <3>1, <3>3
      <4> QED
        BY <2>1, <2>2, <2>3, <3>2, <3>3, <4>1 DEF OwnUser
    <3>4. CASE call[h].state # call[g].state
      <4>1. OwnUser(s, tokens[call[h].state].jwt)
        BY <3>1, <3>4 DEF OwnOnly
      <4> QED
        BY <2>2, <2>3, <3>2, <3>4, <4>1 DEF OwnUser
    <3> QED
      BY <3>3, <3>4
  <2>5. HasTokens(s)' => OwnUser(s, records[s])'
    BY <2>3 DEF OwnOnly, OwnUser, HasTokens
  <2> QED
    BY <2>4, <2>5 DEF OwnOnly
<1>9. ASSUME NEW g \in Goroutines, Deliver(g), Next PROVE OwnOnly(s)'
  <2>1. /\ call[g].pc = "deliver" /\ UNCHANGED <<tokens, owner>>
        /\ \A h \in Goroutines : Delivers(h)' => call'[h] = call[h]
    BY <1>1, <1>9, EndEffect DEF Deliver
  <2>2. CASE records'[s] = records[s]
    BY <1>6, <1>9, <2>1, <2>2
  <2>3. CASE records'[s] # records[s]
    <3>1. call[g].session = s /\ records'[s] = tokens[call[g].state].jwt
      BY <1>1, <1>9, <2>3 DEF Deliver, SaveJWTTokens, TypeOK
    <3>2. OwnUser(s, records[s])'
      BY <2>1, <3>1 DEF OwnOnly, OwnUser
    <3>3. ASSUME NEW h \in Goroutines, Delivers(h)'
          PROVE  OwnUser(s, tokens[call[h].state].jwt)'
      BY <2>1, <3>3 DEF OwnOnly, OwnUser
    <3> QED
      BY <3>2, <3>3 DEF OwnOnly
  <2> QED
    BY <2>2, <2>3
<1>10. ASSUME NEW r \in Sessions, Expire(r), Next PROVE OwnOnly(s)'
  <2>1. tokens[r] \in TokenData
    BY <1>1, <1>10 DEF Expire, TypeOK
  <2>2. \A q \in Sessions : tokens'[q].jwt = tokens[q].jwt
    BY <1>1, <1>10, <2>1 DEF Expire, TypeOK, TokenData
  <2>3. \A g \in Goroutines : Delivers(g) => call[g].state \in Sessions
    BY <1>1, CallFields
  <2> QED
    BY <1>6, <1>10, <2>2, <2>3 DEF Expire, webVars
<1>11. ASSUME Crash, Next PROVE OwnOnly(s)'
  BY <1>6, <1>11 DEF Crash, IdleCall, webVars
<1>12. ASSUME NEW g \in Goroutines, CallStep(g) \/ \E b, p \in Browsers, r \in Sessions :
                                                     Authorize(g, b, p, r),
              ~Store(g), ~Deliver(g), Next
       PROVE  OwnOnly(s)'
  <2>1. UNCHANGED <<records, tokens>>
    BY <1>12 DEF CallStep, Authorize, Find, Count, Insert, Refind, Register, Undo, Expiry,
                 webVars
  <2>2. \A h \in Goroutines : call'[h].pc = "deliver" => call'[h] = call[h]
    BY <1>1, <1>12, StepsToDeliver
  <2> QED
    BY <1>6, <1>12, <2>1, <2>2
<1>13. ASSUME NEW m \in wire, m.from = Nil, Register(m), Next PROVE OwnOnly(s)'
  BY <1>6, <1>13 DEF Register, Answered, webVars
<1>14. CASE Next
  BY <1>6, <1>7, <1>8, <1>9, <1>10, <1>11, <1>12, <1>13, <1>14
     DEF Next, TaskStep, InnerStep, Answer, Request, Callback, webVars
<1> QED
  BY <1>4, <1>14

(* Only an /authorize request for another person, or one whose state       *)
(* another person's request is using at the same time, gives a session the *)
(* tokens of anybody but the person whose browser holds it, whatever else  *)
(* is requested, fails or dies in between                                  *)
(* (AuthenticationServerHandler.go:138-148,232-261).                       *)
THEOREM OwnUntilMixed == Spec => OwnTokensUnlessMixed
<1>1. SignInInv /\ [Next]_vars =>
         [\A s \in Sessions : OwnOnly(s) /\ ~Mixed(s) => OwnOnly(s)']_vars
  BY OwnStep
<1> QED
  BY <1>1, SignInInvariant, PTL DEF Spec, OwnTokensUnlessMixed

SessionHoldsOwnTokens == \A s \in Sessions : HasTokens(s) => OwnUser(s, records[s])

NothingMixed == \A s \in Sessions : ~Mixed(s)

(* So in every behaviour without such a request - browsers load only the   *)
(* links they were sent, or others for the same person - every session     *)
(* holds the tokens of the person whose browser holds it, however many     *)
(* requests overlap, fail and are repeated                                 *)
(* (AuthenticationServerHandler.go:232-261).                               *)
THEOREM OwnTokens == Spec /\ []NothingMixed => []SessionHoldsOwnTokens
<1> DEFINE AllOwn == \A s \in Sessions : OwnOnly(s)
<1>1. Init => AllOwn
  BY DEF Init, OwnOnly, HasTokens, User, IdleCall
<1>2. SignInInv /\ NothingMixed /\ AllOwn /\ [Next]_vars => AllOwn'
  BY OwnStep DEF NothingMixed
<1>3. AllOwn => SessionHoldsOwnTokens
  BY DEF OwnOnly, SessionHoldsOwnTokens
<1> HIDE DEF AllOwn
<1> QED
  BY <1>1, <1>2, <1>3, SignInInvariant, PTL DEF Spec

(* A sign-in that created its user goes on only with a row in the users    *)
(* table of the application server (AuthenticationServerHandler.go:219).   *)
THEOREM FirstSignInRegistered == Spec => []FirstSignInHasRow
<1>1. SignInInv => FirstSignInHasRow
  BY DEF SignInInv
<1> QED
  BY <1>1, SignInInvariant, PTL

-----------------------------------------------------------------------------
(* Action properties.                                                      *)

LEMMA SentGrows == ASSUME Next PROVE sent \subseteq sent'
<1>1. ASSUME NEW t \in Tasks, Answer(t) PROVE sent \subseteq sent'
  BY <1>1 DEF Answer
<1> QED
  BY <1>1, NextSplit, InnerKeepsCalls, ServerKeepsWeb DEF Request, Callback, browserVars

\* Only a step of the login, of the clock or of a request still writing touches an entry.
LEMMA SpentEntry ==
    ASSUME SignInInv, Next, NEW s \in Sessions, Spent(s)
    PROVE  tokens'[s] \in {tokens[s], Nil}
<1>1. TypeOK /\ AskOfLogin /\ LoginPrivate
  BY DEF SignInInv
<1>2. ASSUME NEW t \in Tasks, InnerStep(t) PROVE tokens'[s] = tokens[s]
  <2>1. CASE Ask(t)
    <3>1. s # task[t].session
      BY <1>1, <2>1 DEF Ask, AskOfLogin, LoginPrivate, Spent
    <3> QED
      BY <1>1, <2>1, <3>1 DEF Ask, NewLogin, TypeOK
  <2>2. CASE ~Ask(t)
    BY <1>2, <2>2 DEF InnerStep, Look, Save, Show, Remove, Revoke, Logout
  <2> QED
    BY <2>1, <2>2
<1>3. ASSUME NEW g \in Goroutines, Store(g) PROVE tokens'[s] = tokens[s]
  BY <1>1, <1>3 DEF Store, Spent, TypeOK
<1>4. ASSUME NEW r \in Sessions, Expire(r) PROVE tokens'[s] = tokens[s]
  BY <1>1, <1>4 DEF Expire, Spent, Unexpired, TypeOK
<1>5. CASE Crash
  BY <1>5 DEF Crash
<1>6. CASE UNCHANGED tokens
  BY <1>6
<1> QED
  BY <1>2, <1>3, <1>4, <1>5, <1>6, NextSplit
     DEF ServerStep, CallStep, Find, Count, Insert, Refind, Register, Undo, Expiry,
         Deliver, Authorize, Answer, Request, Callback

\* Only a request that has just seen the state unexpired goes on to write.
LEMMA StoreAfterCheck ==
    ASSUME SignInInv, Next, NEW g \in Goroutines, call'[g].pc = "store",
           call[g].pc # "store" \/ call'[g].state # call[g].state
    PROVE  Unexpired(call'[g].state)
<1>1. TypeOK
  BY DEF SignInInv
<1>2. ASSUME NEW h \in Goroutines, Expiry(h) PROVE Unexpired(call'[g].state)
  <2>1. CASE Unexpired(call[h].state) /\ CallGoto(h, "store")
    BY <1>1, <2>1, GotoEffect
  <2>2. CASE CallEnd(h)
    BY <1>1, <2>2, EndEffect
  <2> QED
    BY <1>2, <2>1, <2>2 DEF Expiry
<1>4. ASSUME NEW h \in Goroutines, Find(h) \/ Count(h) \/ Insert(h) \/ Refind(h)
      PROVE  FALSE
  <2>1. call'[h].pc # "store" /\ \A f \in Goroutines : f # h => call'[f] = call[f]
    <3>1. CASE Find(h)
      BY <1>1, <3>1, EndEffect DEF Find, TypeOK, Call
    <3>2. CASE Count(h)
      BY <1>1, <3>2, GotoEffect DEF Count, TypeOK, Call
    <3>3. CASE Insert(h)
      BY <1>1, <3>3 DEF Insert, TypeOK, Call
    <3>4. CASE Refind(h)
      BY <1>1, <3>4, EndEffect DEF Refind, TypeOK, Call
    <3> QED
      BY <1>4, <3>1, <3>2, <3>3, <3>4
  <2> QED
    BY <2>1
<1>5. ASSUME NEW m \in wire, Register(m) PROVE FALSE
  BY <1>5, RegisterEffect
<1>6. ASSUME NEW h \in Goroutines, Undo(h) \/ Deliver(h) PROVE FALSE
  BY <1>1, <1>6, EndEffect DEF Undo, Deliver
<1>7. ASSUME NEW h \in Goroutines, Store(h) PROVE FALSE
  BY <1>1, <1>7, GotoEffect DEF Store
<1>8. ASSUME NEW h \in Goroutines, NEW b \in Browsers, NEW p \in Browsers,
             NEW s \in Sessions, Authorize(h, b, p, s)
      PROVE  FALSE
  BY <1>1, <1>8 DEF Authorize, TypeOK, IdleCall
<1>9. CASE Crash
  BY <1>9 DEF Crash, IdleCall
<1>10. CASE UNCHANGED call
  BY <1>10
<1> QED
  BY <1>2, <1>4, <1>5, <1>6, <1>7, <1>8, <1>9, <1>10, NextSplit, InnerKeepsCalls
     DEF ServerStep, CallStep, Expire, Answer, Request, Callback

(* A sign-in that has expired writes its entry no more, and the entry      *)
(* stays as it is until the process dies                                   *)
(* (AuthenticationServerHandler.go:227-237).                               *)
THEOREM ExpiredIsSpent == Spec => ExpiredStateIsSpent
<1>1. ASSUME SignInInv, Next, NEW s \in Sessions, Spent(s)
      PROVE  Spent(s)' /\ tokens'[s] \in {tokens[s], Nil}
  <2>1. tokens'[s] \in {tokens[s], Nil}
    BY <1>1, SpentEntry
  <2>2. s \in {c[2] : c \in sent'}
    BY <1>1, SentGrows DEF Spent
  <2>3. ~Unexpired(s)'
    BY <1>1, <2>1 DEF Spent, Unexpired
  <2>4. \A g \in Goroutines : ~(call'[g].pc = "store" /\ call'[g].state = s)
    BY <1>1, StoreAfterCheck DEF Spent
  <2> QED
    BY <2>1, <2>2, <2>3, <2>4 DEF Spent
<1>2. SignInInv /\ [Next]_vars =>
        [\A s \in Sessions : Spent(s) => Spent(s)' /\ tokens'[s] \in {tokens[s], Nil}]_vars
  BY <1>1
<1> QED
  BY <1>2, SignInInvariant, PTL DEF Spec, ExpiredStateIsSpent

\* A request keeps the cookie it came with.
LEMMA SessionOnlyByAuthorize ==
    ASSUME SignInInv, Next, NEW g \in Goroutines, NEW s \in Sessions,
           call'[g].session = s, call[g].session # s
    PROVE  call[g].pc = "idle"
<1>1. TypeOK /\ Nil \notin Sessions
  BY DEF SignInInv
<1>2. ASSUME NEW h \in Goroutines, \A f \in Goroutines : f # h => call'[f] = call[f],
             call'[h].session = call[h].session
      PROVE  FALSE
  BY <1>2
<1>3. ASSUME NEW h \in Goroutines, CallEnd(h) PROVE FALSE
  BY <1>1, <1>3 DEF CallEnd, IdleCall, TypeOK
<1>4. ASSUME NEW h \in Goroutines, NEW pc, CallGoto(h, pc) PROVE FALSE
  BY <1>1, <1>2, <1>4, GotoEffect
<1>5. ASSUME NEW h \in Goroutines, Find(h) \/ Count(h) \/ Insert(h) \/ Refind(h)
      PROVE  FALSE
  <2>1. CASE Find(h)
    BY <1>1, <1>3, <2>1 DEF Find, TypeOK, Call
  <2>2. CASE Count(h)
    BY <1>1, <1>4, <2>2 DEF Count, TypeOK, Call
  <2>3. CASE Insert(h)
    BY <1>1, <2>3 DEF Insert, TypeOK, Call
  <2>4. CASE Refind(h)
    BY <1>1, <1>3, <2>4 DEF Refind, TypeOK, Call
  <2> QED
    BY <1>5, <2>1, <2>2, <2>3, <2>4
<1>6. ASSUME NEW m \in wire, Register(m) PROVE FALSE
  BY <1>6, RegisterEffect
<1>7. ASSUME NEW h \in Goroutines, Undo(h) \/ Expiry(h) \/ Store(h) \/ Deliver(h)
      PROVE  FALSE
  BY <1>3, <1>4, <1>7 DEF Undo, Expiry, Store, Deliver
<1>8. ASSUME NEW h \in Goroutines, NEW b \in Browsers, NEW p \in Browsers,
             NEW r \in Sessions, Authorize(h, b, p, r)
      PROVE  call[g].pc = "idle"
  BY <1>1, <1>8 DEF Authorize, TypeOK
<1>9. CASE Crash
  BY <1>1, <1>9 DEF Crash, IdleCall
<1>10. CASE UNCHANGED call
  BY <1>10
<1> QED
  BY <1>5, <1>6, <1>7, <1>8, <1>9, <1>10, NextSplit, InnerKeepsCalls
     DEF ServerStep, CallStep, Expire, Answer, Request, Callback

(* A session that is signed out is signed in again only by an /authorize   *)
(* request that carries its cookie (HomeController.java:38-49,             *)
(* AuthorizationService.java:31-33).                                       *)
THEOREM StaysSignedOut == Spec => SignedOutUntilAuthorize
<1> DEFINE Out(s) == SignedOut(s) =>
          /\ ~HasTokens(s)'
          /\ SignedOut(s)' \/ \E g \in Goroutines :
                call[g].pc = "idle" /\ call'[g].session = s
<1>1. ASSUME SignInInv, Next, NEW s \in Sessions, SignedOut(s)
      PROVE  /\ ~HasTokens(s)'
             /\ SignedOut(s)' \/ \E g \in Goroutines :
                   call[g].pc = "idle" /\ call'[g].session = s
  <2>1. TypeOK /\ Anonymous \notin User /\ Nil \notin User
    BY <1>1 DEF SignInInv, User
  <2>2. ~HasTokens(s)'
    <3>1. ASSUME NEW t \in Tasks, InnerStep(t) PROVE records'[s] \in {records[s], Anonymous, Nil}
      BY <2>1, <3>1 DEF InnerStep, Look, Save, Show, Ask, Remove, Revoke,
                        SaveAuthToken, RemoveTokens, TypeOK
    <3>2. ASSUME NEW g \in Goroutines, Deliver(g) PROVE records'[s] = records[s]
      BY <1>1, <2>1, <3>2 DEF Deliver, SaveJWTTokens, SignedOut, TypeOK
    <3>3. records'[s] \in {records[s], Anonymous, Nil}
      BY <1>1, <3>1, <3>2, NextSplit
         DEF ServerStep, CallStep, Find, Count, Insert, Refind, Register, Undo, Expiry, Store,
             Authorize, Expire, Crash, Answer, Request, Callback, webVars
    <3> QED
      BY <1>1, <2>1, <3>3 DEF SignedOut, HasTokens
  <2>3. ASSUME NEW g \in Goroutines, call'[g].session = s PROVE call[g].pc = "idle"
    BY <1>1, <2>3, SessionOnlyByAuthorize DEF SignedOut
  <2> QED
    BY <2>2, <2>3 DEF SignedOut
<1>2. SignInInv /\ [Next]_vars => [\A s \in Sessions : Out(s)]_vars
  BY <1>1
<1> QED
  BY <1>2, SignInInvariant, PTL DEF Spec, SignedOutUntilAuthorize

(* Once no page of the session waits to write an anonymous record, and     *)
(* while Redis can be read, its tokens stay until its own logout           *)
(* (AuthorizationService.java:45-53).                                      *)
THEOREM StaysSignedIn ==
    ASSUME "redis" \notin Faults
    PROVE  Spec => SignedInUntilLogout
<1> DEFINE Leaves(s) == records'[s] = Nil /\ \E t \in Tasks :
               /\ task[t].pc = "remove" /\ task[t].session = s /\ task'[t] # task[t]
<1>1. ASSUME SignInInv, Next, NEW s \in Sessions, KeepsTokens(s)
      PROVE  KeepsTokens(s)' \/ Leaves(s)
  <2>1. /\ TypeOK /\ records[s] \in User /\ records[s] # Nil
        /\ \A t \in Tasks : ~(task[t].pc = "save" /\ task[t].session = s)
    BY <1>1 DEF SignInInv, KeepsTokens, HasTokens, User
  <2>2. ASSUME NEW t \in Tasks, InnerStep(t) PROVE KeepsTokens(s)' \/ Leaves(s)
    <3>1. \A u \in Tasks : task'[u].session = task[u].session /\ (u # t => task'[u] = task[u])
      BY <2>1, <2>2, InnerTask
    <3>2. CASE Look(t)
      <4>1. records' = records
        BY <3>2 DEF Look
      <4>2. task'[t].pc = "save" => records[task[t].session] = Nil
        <5>1. CASE TokenBodyFails(task[t].session)
          BY <5>1 DEF TokenBodyFails, May
        <5>2. CASE TaskGoto(t, IF task[t].op = "login" THEN "ask" ELSE "show")
          BY <2>1, <5>2, TaskGotoEffect
        <5> QED
          BY <3>2, <5>1, <5>2 DEF Look
      <4> QED
        BY <2>1, <3>1, <4>1, <4>2 DEF KeepsTokens, HasTokens
    <3>3. CASE Save(t)
      <4>1. task[t].session # s
        BY <2>1, <3>3 DEF Save
      <4>2. records'[s] = records[s]
        BY <2>1, <3>3, <4>1 DEF Save, SaveAuthToken, TypeOK
      <4> QED
        BY <2>1, <3>1, <4>1, <4>2 DEF KeepsTokens, HasTokens
    <3>4. CASE Remove(t)
      <4>1. task[t].pc = "remove" /\ task'[t].pc \in {"done", "revoke"}
        BY <2>1, <3>4, TaskGotoEffect, TaskReplyEffect DEF Remove
      <4>2. CASE task[t].session = s
        <5>1. records'[s] = Nil
          BY <2>1, <3>4, <4>2 DEF Remove, RemoveTokens, May, TypeOK
        <5> QED
          BY <4>1, <4>2, <5>1
      <4>3. CASE task[t].session # s
        <5>1. records'[s] = records[s]
          BY <2>1, <3>4, <4>3 DEF Remove, RemoveTokens, TypeOK
        <5> QED
          BY <2>1, <3>1, <4>3, <5>1 DEF KeepsTokens, HasTokens
      <4> QED
        BY <4>2, <4>3
    <3>5. CASE Show(t) \/ Ask(t) \/ Revoke(t)
      <4>1. task'[t].pc = "done"
        BY <2>1, <3>5, TaskReplyEffect DEF Show, Ask, Revoke
      <4>2. records' = records
        BY <3>5 DEF Show, Ask, Revoke
      <4> QED
        BY <2>1, <3>1, <4>1, <4>2 DEF KeepsTokens, HasTokens
    <3> QED
      BY <2>2, <3>2, <3>3, <3>4, <3>5 DEF InnerStep
  <2>3. ASSUME NEW t \in Tasks, Answer(t) PROVE KeepsTokens(s)'
    <3>1. records' = records /\ task'[t].pc = "idle" /\ \A u \in Tasks : u # t => task'[u] = task[u]
      BY <2>1, <2>3 DEF Answer, TypeOK, IdleTask
    <3> QED
      BY <2>1, <3>1 DEF KeepsTokens, HasTokens
  <2>4. ASSUME NEW t \in Tasks, NEW b \in Browsers, NEW op \in Ops, Request(t, b, op)
        PROVE  KeepsTokens(s)'
    <3>1. records' = records /\ task'[t].pc # "save" /\ \A u \in Tasks : u # t => task'[u] = task[u]
      BY <1>1, <2>4, RequestTask DEF Request
    <3> QED
      BY <2>1, <3>1 DEF KeepsTokens, HasTokens
  <2>5. CASE ServerStep
    <3>1. task' = task
      BY <2>5, ServerKeepsWeb
    <3>2. ASSUME NEW g \in Goroutines, Deliver(g) PROVE records'[s] \in User
      <4>1. /\ tokens[call[g].state] # Nil /\ tokens[call[g].state].jwt # Nil
            /\ call[g].state \in Sessions
        BY <1>1, <2>1, <3>2, CallFields DEF Deliver, SignInInv, CallKnows
      <4>2. tokens[call[g].state].jwt \in User
        BY <2>1, <4>1 DEF TypeOK, TokenData
      <4> QED
        BY <2>1, <3>2, <4>2 DEF Deliver, SaveJWTTokens, TypeOK
    <3>3. records'[s] \in User
      BY <2>1, <2>5, <3>2
         DEF ServerStep, CallStep, Find, Count, Insert, Refind, Register, Undo, Expiry, Store,
             Authorize, Expire, Crash, webVars
    <3> QED
      BY <2>1, <3>1, <3>3 DEF KeepsTokens, HasTokens
  <2>6. ASSUME NEW b \in Browsers, NEW r \in Sessions, Callback(b, r) PROVE KeepsTokens(s)'
    BY <2>1, <2>6 DEF Callback, webVars, KeepsTokens, HasTokens
  <2> QED
    BY <1>1, <2>2, <2>3, <2>4, <2>5, <2>6, NextSplit
<1>2. SignInInv /\ [Next]_vars =>
        [\A s \in Sessions : KeepsTokens(s) =>
            \/ KeepsTokens(s)'
            \/ records'[s] = Nil /\ \E t \in Tasks :
                  /\ task[t].pc = "remove" /\ task[t].session = s /\ task'[t] # task[t]]_vars
  BY <1>1
<1> QED
  BY <1>2, SignInInvariant, PTL DEF Spec, SignedInUntilLogout

=============================================================================
