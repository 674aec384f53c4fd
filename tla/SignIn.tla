------------------------------- MODULE SignIn -------------------------------
(***************************************************************************)
(* Signing in: browsers that request pages of the web server and follow    *)
(* its redirects to the provider and to the authorization server, whose    *)
(* answers come back over the same Redis records.                          *)
(***************************************************************************)
EXTENDS AuthServer, WebServer

BegunBy(s) == {p[1] : p \in {q \in Begun : q[2] = s}}

\* A sign-in that has begun has gone through login and the provider.
Init ==
    /\ owner = [s \in Sessions |-> IF BegunBy(s) = {} THEN Nil
                                   ELSE CHOOSE b \in BegunBy(s) : TRUE]
    /\ records = [s \in Sessions |-> IF BegunBy(s) = {} THEN Nil ELSE Anonymous]
    /\ tokens = [s \in Sessions |-> IF BegunBy(s) = {} THEN Nil
                                    ELSE [live |-> TRUE, jwt |-> Nil]]
    /\ live = {p[2] : p \in Begun}
    /\ cookie = [b \in Browsers |-> IF \E s \in Sessions : <<b, s>> \in Begun
                                     THEN CHOOSE s \in Sessions : <<b, s>> \in Begun
                                     ELSE Nil]
    /\ sent = Begun
    /\ granted = Begun
    /\ accounts = [d \in DocIds |-> Nil]
    /\ wire = {}
    /\ appUsers = {}
    /\ call = [g \in Goroutines |-> IdleCall]
    /\ task = [t \in Tasks |-> IdleTask]

Next ==
    \/ \E t \in Tasks : TaskStep(t) \/ \E b \in Browsers, op \in Ops : Request(t, b, op)
    \/ \E g \in Goroutines :
          CallStep(g) \/ \E b, p \in Browsers, s \in Sessions : Authorize(g, b, p, s)
    \/ \E b \in Browsers, s \in Sessions : Callback(b, s)
    \/ \E s \in Sessions : Expire(s)
    \/ \E m \in wire : m.from = Nil /\ Register(m)
    \/ Crash

Spec == Init /\ [][Next]_vars

\* Both servers run a handler they have begun to its end: a call to another
\* server or a store ends, with an answer or an error.  None of them sets a
\* timeout, so a peer that keeps a connection open and never answers is ruled
\* out here.  Nothing is assumed of browsers.
FairSpec ==
    /\ Spec
    /\ \A g \in Goroutines : WF_vars(CallStep(g))
    /\ \A t \in Tasks : WF_vars(TaskStep(t))

-----------------------------------------------------------------------------
(* Every record, map entry, document and row has its type, and every       *)
(* goroutine and thread the state of one of its handlers.                  *)
TypeOK ==
    /\ records \in [Sessions -> Record]
    /\ owner \in [Sessions -> Browsers \cup {Nil}]
    /\ live \subseteq Sessions
    /\ cookie \in [Browsers -> Sessions \cup {Nil}]
    /\ sent \subseteq Browsers \X Sessions
    /\ granted \subseteq Browsers \X Sessions
    /\ tokens \in [Sessions -> TokenData \cup {Nil}]
    /\ accounts \in [DocIds -> User \cup {Nil}]
    /\ wire \subseteq [user : User, from : Goroutines \cup {Nil}]
    /\ appUsers \subseteq User
    /\ call \in [Goroutines -> Call]
    /\ task \in [Tasks -> Task]

-----------------------------------------------------------------------------
(* Whichever links browsers load and whichever calls fail.                 *)

(* /authorize trusts the access token and the state in its URL, the cookie *)
(* beside them and whatever the shared tokens map holds under the state    *)
(* when it reads it back (AuthenticationServerHandler.go:138-148,232-261). *)
(* So a session can be given another person's tokens.  That takes an       *)
(* /authorize request with its cookie that is for that person, or whose    *)
(* state another person's request is using at the same time: without one,  *)
(* the session keeps to the tokens of the person whose browser holds it.   *)
OwnUser(s, user) == owner[s] # Nil /\ user.email = EmailOf[owner[s]]

OwnOnly(s) ==
    /\ HasTokens(s) => OwnUser(s, records[s])
    /\ \A g \in Goroutines :
          call[g].session = s /\ call[g].pc = "deliver" => OwnUser(s, tokens[call[g].state].jwt)

Mixed(s) ==
    \E g, h \in Goroutines : /\ call[g].session = s /\ call[h].state = call[g].state
                             /\ EmailOfCall(h) # EmailOf[owner[s]]

OwnTokensUnlessMixed ==
    [][\A s \in Sessions : OwnOnly(s) /\ ~Mixed(s) => OwnOnly(s)']_vars

(* An entry of the tokens map that has expired is spent: once no request   *)
(* is between its check of the expiry and its write, the entry keeps what  *)
(* it has until the process dies, and never comes back to life.            *)
Spent(s) ==
    /\ s \in {c[2] : c \in sent} /\ ~Unexpired(s)
    /\ \A g \in Goroutines : ~(call[g].pc = "store" /\ call[g].state = s)

ExpiredStateIsSpent ==
    [][\A s \in Sessions : Spent(s) => Spent(s)' /\ tokens'[s] \in {tokens[s], Nil}]_vars

(* A first sign-in that gets past registration has its row in the users    *)
(* table of the application server: only an explicit success goes on.      *)
FirstSignInHasRow ==
    \A g \in Goroutines :
        call[g].register /\ call[g].pc \in {"expiry", "store", "deliver"}
        => call[g].user \in appUsers

(* Sign-ins of one new person look for the account and create it in        *)
(* separate calls, so each request in flight may create one; once there is *)
(* an account no later request creates another (FindByEmail not failing).  *)
AccountsBoundedByGoroutines ==
    \A e \in Emails : Cardinality(DocsOf(e)) <= Cardinality(Goroutines)

-----------------------------------------------------------------------------
(* When sign-ins do not overlap (and FindByEmail does not fail).           *)

(* Ids are the number of documents plus one, and documents are removed     *)
(* again (UserCreator.go:23-28, UserRemover.go:23): no two accounts share  *)
(* an id or an email all the same, whichever other calls fail.             *)
UniqueAccounts ==
    \A c, d \in Docs :
        accounts[c].id = accounts[d].id \/ accounts[c].email = accounts[d].email
        => c = d

(* The users table of the application server is then the Registry, also    *)
(* when requests arrive late, undoing fails and the process dies; only when *)
(* the answer to a registration is lost may a person be entered again.     *)
R == INSTANCE Registry WITH Ids <- 1 .. Cardinality(DocIds), rows <- appUsers

ImplementsRegistry == R!Spec

(* An account whose registration broke off after it was created, and whose *)
(* request is not on its way any more, is never registered: the next       *)
(* sign-in finds it and skips the registration                             *)
(* (AuthenticationServerHandler.go:182-194).                               *)
Stranded(e) ==
    /\ DocsOf(e) # {} /\ \A r \in appUsers : r.email # e
    /\ \A g \in Goroutines :
          CallBusy(g) /\ EmailOfCall(g) = e => call[g].pc = "find" \/ ~call[g].register
    /\ \A m \in wire : m.user.email # e

StrandedForever == [][\A e \in Emails : Stranded(e) => Stranded(e)']_vars

\* The document a request has created and not yet registered.
BeingCreated(d) ==
    \E g \in Goroutines : /\ call[g].pc \in {"refind", "register", "undo"}
                          /\ accounts[d].email = EmailOfCall(g)

Settled == {d \in Docs : ~BeingCreated(d)}

(* Without deaths and failing reads, the two user tables agree: an account *)
(* that is not being created has its row, and a row its account, except    *)
(* the one row whose account was undone because the answer to its          *)
(* registration was lost: it has the id the next newcomer is given.  The   *)
(* tokens in a session name a user of the application server's table.      *)
TablesAgree ==
    /\ \A d \in Settled : accounts[d] \in appUsers
    /\ \A r \in appUsers :
          (\E d \in Docs : accounts[d] = r) \/ r.id = Cardinality(Settled) + 1
    /\ \A s \in Sessions : HasTokens(s) => records[s] \in appUsers

(* When the answer to a registration is lost the account is removed and    *)
(* the row stays, with the very id the next newcomer is given.  From then  *)
(* on every registration is refused: no newcomer can sign in again.        *)
IdTaken == \E r \in appUsers : r.id = Cardinality(Settled) + 1

LostAnswerLocksOutNewcomers ==
    [][IdTaken => IdTaken' /\ appUsers' = appUsers /\ Settled' = Settled]_vars

-----------------------------------------------------------------------------
(* Sessions.                                                               *)

(* home replaces a record it does not find, or cannot read, by an          *)
(* anonymous one, in a separate call (AuthorizationService.java:45-53).    *)
(* Once no such write is pending, and while Redis can be read, the tokens  *)
(* stay in the session's record until its own logout removes them.         *)
KeepsTokens(s) ==
    /\ HasTokens(s)
    /\ \A t \in Tasks : ~(task[t].pc = "save" /\ task[t].session = s)

SignedInUntilLogout ==
    [][\A s \in Sessions : KeepsTokens(s) =>
          \/ KeepsTokens(s)'
          \/ records'[s] = Nil /\ \E t \in Tasks :
                /\ task[t].pc = "remove" /\ task[t].session = s /\ task'[t] # task[t]]_vars

(* A session that was signed out stays so: tokens come only with an        *)
(* /authorize request that carried its cookie, so that a delivery on its   *)
(* way during the logout is the only one that undoes it.                   *)
SignedOut(s) ==
    ~HasTokens(s) /\ \A g \in Goroutines : call[g].session # s

SignedOutUntilAuthorize ==
    [][\A s \in Sessions : SignedOut(s) =>
          /\ ~HasTokens(s)'
          /\ SignedOut(s)' \/ \E g \in Goroutines :
                call[g].pc = "idle" /\ call'[g].session = s]_vars

-----------------------------------------------------------------------------
(* Liveness.                                                               *)

(* Every page and every /authorize request is answered, also when the      *)
(* inserts, the registration, the answer to it, the web server, Redis or   *)
(* the authorization server fail: no failure leads a handler back, and     *)
(* neither server waits for the other to begin anything.                   *)
SignInAnswered ==
    /\ \A t \in Tasks : task[t].pc # "idle" ~> task[t].pc = "idle"
    /\ \A g \in Goroutines : call[g].pc # "idle" ~> call[g].pc = "idle"

(* When calls do not fail and sign-ins do not overlap, an /authorize       *)
(* request puts tokens in the record of the session that sent it.          *)
SignInCompletes ==
    \A g \in Goroutines, s \in Sessions :
        (call[g].pc = "find" /\ call[g].session = s) ~> HasTokens(s)
=============================================================================
