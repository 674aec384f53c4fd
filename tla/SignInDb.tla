------------------------------ MODULE SignInDb ------------------------------
(***************************************************************************)
(* The state a sign-in goes through: the web server's Redis records and    *)
(* HTTP sessions, the authorization server's tokens map and users          *)
(* collection, the users table of the application server, and, for each    *)
(* thread of the web server and each goroutine of the authorization        *)
(* server, the request it is handling.  WebServer and AuthServer hold the  *)
(* handlers, SignIn composes them with the browsers.                       *)
(*                                                                         *)
(* The auth token a login sends as the OAuth state is generated for the    *)
(* new HTTP session of that login and for no other, so a session and its   *)
(* state are one value here.                                               *)
(***************************************************************************)
EXTENDS Integers, FiniteSets

CONSTANTS
    Goroutines,     \* concurrent handlers of the authorization server
    Tasks,          \* threads of the web server
    Browsers,
    Emails,
    EmailOf,        \* the email the provider reports for a browser's person
    Sessions,       \* bound: session ids Tomcat hands out
    DocIds,         \* bound: documents the users collection has room for
    Begun,          \* <<b, s>>: sign-ins at the provider when the model starts
    Links,          \* bound: <<b, p, s>>: b may load /authorize with p's access
                    \* token at the provider and the state s
    Ops,            \* the pages browsers may request
    Overlap,        \* /authorize requests may be in flight together
    KeyedIds,       \* the id column of the users table is a key
    Faults,         \* which calls may fail
    Anonymous,      \* a record that holds an auth token only
    Nil

\* What can go wrong: FindByEmail errs; another read of MongoDB errs; InsertOne
\* errs; the application server is not reached; its answer is lost; DeleteOne
\* errs; the process dies; the web server is not reached; Redis errs; the
\* authorization server is not reached by the web server; five minutes pass.
FaultKinds == {"find", "read", "write", "refuse", "lost", "undo", "crash",
               "web", "redis", "auth", "expire"}

ASSUME SignInAssumption ==
    /\ IsFiniteSet(Goroutines) /\ IsFiniteSet(DocIds)
    /\ EmailOf \in [Browsers -> Emails]
    /\ Begun \subseteq Browsers \X Sessions
    /\ \A p, q \in Begun : p[1] = q[1] \/ p[2] = q[2] => p = q
    /\ Links \subseteq Browsers \X Browsers \X Sessions
    /\ Ops \subseteq {"login", "home", "logout", "logout_all"}
    /\ Overlap \in BOOLEAN /\ KeyedIds \in BOOLEAN
    /\ Faults \subseteq FaultKinds
    /\ Nil \notin Sessions \cup Browsers \cup Goroutines
    /\ Nil \notin [id : Nat, email : Emails]
    /\ Nil \notin [live : BOOLEAN, jwt : [id : Nat, email : Emails] \cup {Nil}]
    /\ Anonymous \notin [id : Nat, email : Emails] \cup {Nil}

VARIABLES
    records,    \* Redis: the record of each session
    owner,      \* the browser each session id was handed to
    live,       \* sessions Tomcat still knows
    cookie,     \* each browser's JSESSIONID
    sent,       \* <<b, s>>: b was redirected to the provider with state s
    granted,    \* <<b, s>>: b was redirected to /authorize with state s
    tokens,     \* the global map tokens
    accounts,   \* the users collection of MongoDB
    wire,       \* register requests the application server has not handled
    appUsers,   \* the rows of the users table
    call,       \* the /authorize request each goroutine is handling
    task        \* the page request each web thread is handling

webVars == <<records, owner, live, task>>
browserVars == <<cookie, sent, granted>>
userVars == <<accounts, wire, appUsers>>
vars == <<webVars, browserVars, tokens, userVars, call>>

-----------------------------------------------------------------------------
(* A user is known by an id and an email, in both user tables; so are the  *)
(* tokens made for them: the access token holds the id, the refresh token  *)
(* the email.                                                              *)

User == [id : Nat, email : Emails]
Record == User \cup {Anonymous, Nil}
TokenData == [live : BOOLEAN, jwt : User \cup {Nil}]

Docs == {d \in DocIds : accounts[d] # Nil}
DocsOf(e) == {d \in Docs : accounts[d].email = e}

Call == [pc : {"idle", "find", "count", "insert", "refind", "register",
               "undo", "expiry", "store", "deliver"},
         person : Browsers \cup {Nil},     \* whose access token the URL holds
         state : Sessions \cup {Nil},      \* the state in the URL
         session : Sessions \cup {Nil},    \* the cookie the request came with
         user : User \cup {Nil},
         count : Nat,
         register : BOOLEAN]               \* the user was not found

IdleCall == [pc |-> "idle", person |-> Nil, state |-> Nil, session |-> Nil,
             user |-> Nil, count |-> 0, register |-> FALSE]

Task == [pc : {"idle", "look", "save", "show", "ask", "remove", "revoke", "done"},
         op : Ops \cup {Nil},
         browser : Browsers \cup {Nil},
         session : Sessions \cup {Nil},
         fresh : BOOLEAN,                  \* the request was given a new session
         code : {0, 200, 302, 500}]

IdleTask == [pc |-> "idle", op |-> Nil, browser |-> Nil, session |-> Nil,
             fresh |-> FALSE, code |-> 0]

CallBusy(g) == call[g].pc # "idle"
EmailOfCall(g) == EmailOf[call[g].person]

May(fault) == fault \in Faults

-----------------------------------------------------------------------------
(* What the servers ask of each other and of their stores.                 *)

\* /login of the authorization server: a new entry for five minutes.
NewLogin(s) == tokens' = [tokens EXCEPT ![s] = [live |-> TRUE, jwt |-> Nil]]

\* /logout of the authorization server: DecryptRefreshToken parses without a key
\* and errs for every token.
Logout == UNCHANGED <<tokens, accounts>>

\* The Redis record of a session is written as a whole, and deleted.
SaveAuthToken(s) == records' = [records EXCEPT ![s] = Anonymous]
SaveJWTTokens(s, user) == records' = [records EXCEPT ![s] = user]
RemoveTokens(s) == records' = [records EXCEPT ![s] = Nil]

\* getTokenBody throws when there is no record, or Redis errs.
TokenBodyFound(s) == records[s] # Nil
TokenBodyFails(s) == records[s] = Nil \/ May("redis")
=============================================================================
