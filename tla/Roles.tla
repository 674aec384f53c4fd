------------------------------- MODULE Roles -------------------------------
(***************************************************************************)
(* Who may administrate: the roles kept by the authorization server, the   *)
(* access tokens it makes from them at a sign-in, and get_role, set_role   *)
(* and set_block_status of the application server, which believe the token *)
(* and, for the first two, forward the request to the authorization server.*)
(* That server answers the first two to anybody with a token: a client may *)
(* ask it directly.                                                        *)
(*                                                                         *)
(* A token carries its permissions until it expires; what it was made from *)
(* may change at any time.                                                 *)
(***************************************************************************)
EXTENDS Naturals, FiniteSets

CONSTANTS
    Workers,        \* the requests under way, each in a thread of its own
    Users,
    RoleNames,      \* names a client can send as a role
    Catalogue,      \* names of the documents of the roles collection
    Stage, Gives,   \* stage and permissions of those documents
    InitialRole,
    Requests,       \* the requests clients may send
    Faults,         \* calls may fail
    Nil

VARIABLES
    roles,          \* users collection: each user's role
    blocked,        \* users table: is_blocked
    tokens,         \* access tokens handed out and not expired
    visit,          \* the role /authorize has read for the user it signs in
    job             \* the request each thread is handling

vars == <<roles, blocked, tokens, visit, job>>

RolePermissions == {"user:roles:read", "user:roles:write", "user:block:write"}
Permission(op) == CASE op = "get_role" -> "user:roles:read"
                    [] op = "set_role" -> "user:roles:write"
                    [] OTHER -> "user:block:write"

\* The permissions claim of a token is JSON null.
NullClaim == {"null"}

Token == [user : Users, claim : (SUBSET RolePermissions) \cup {NullClaim}]
Request == [op : {"get_role"}, user : Users]
           \cup [op : {"set_role"}, user : Users, role : RoleNames]
           \cup [op : {"set_block_status"}, user : Users, block : BOOLEAN]

ASSUME RolesAssumption ==
    /\ IsFiniteSet(Workers)
    /\ Catalogue \subseteq RoleNames
    /\ Stage \in [Catalogue -> Nat] /\ Gives \in [Catalogue -> SUBSET RolePermissions]
    /\ InitialRole \in [Users -> Catalogue]
    /\ Requests \subseteq Request
    /\ Faults \in BOOLEAN
    /\ Nil \notin RoleNames \cup Request \cup Token
    /\ \A claim \in SUBSET RolePermissions : claim # Nil
    /\ NullClaim # Nil

IdleJob == [pc |-> "idle", req |-> Nil, token |-> Nil]

At(steps, ops) == [pc : steps, req : {r \in Request : r.op \in ops}, token : Token]

Job == {IdleJob}
       \cup At({"auth"}, {"get_role", "set_role", "set_block_status"})
       \cup At({"forward"}, {"get_role", "set_role"})
       \cup At({"read"}, {"get_role"})
       \cup At({"modify"}, {"set_role"})
       \cup At({"block"}, {"set_block_status"})

Goto(w, pc) == job' = [job EXCEPT ![w].pc = pc]

\* The response: nothing in this model depends on what it says.
Reply(w) == job' = [job EXCEPT ![w] = IdleJob]

-----------------------------------------------------------------------------
(* Signing in.                                                             *)

\* GeneratePermissions: an unknown role is an error; of a role above stage 0 the
\* roles below are looked for in a slice the loop never fills, which is no role
\* at all for stage 1 and a nil pointer, and a panic, above.
GeneratePermissions(role) ==
    IF role \notin Catalogue THEN Nil
    ELSE IF Stage[role] = 0 THEN Gives[role]
    ELSE IF Stage[role] = 1 THEN NullClaim ELSE Nil

\* /authorize finds the user.  Bound: one sign-in of a user at a time.
FindUser(u) ==
    /\ visit[u] = Nil
    /\ visit' = [visit EXCEPT ![u] = roles[u]]
    /\ UNCHANGED <<roles, blocked, tokens, job>>

\* Faulty: no permissions become an empty list of permissions.
GenerateTokenEmpty(u) ==
    /\ visit[u] # Nil
    /\ visit' = [visit EXCEPT ![u] = Nil]
    /\ LET claim == GeneratePermissions(visit[u])
       IN  tokens' = tokens \cup
              {[user |-> u, claim |-> IF claim \in {Nil, NullClaim} THEN {} ELSE claim]}
    /\ UNCHANGED <<roles, blocked, job>>

\* ... and makes the access token, or fails.
GenerateAccessToken(u) ==
    /\ visit[u] # Nil
    /\ visit' = [visit EXCEPT ![u] = Nil]
    /\ LET claim == GeneratePermissions(visit[u])
       IN  \/ claim # Nil /\ tokens' = tokens \cup {[user |-> u, claim |-> claim]}
           \/ (claim = Nil \/ Faults) /\ UNCHANGED tokens
    /\ UNCHANGED <<roles, blocked, job>>

\* An hour passes.
Expire(t) ==
    /\ t \in tokens
    /\ tokens' = tokens \ {t}
    /\ UNCHANGED <<roles, blocked, visit, job>>

-----------------------------------------------------------------------------
(* What the two servers make of a token.                                   *)

Grants(t, op) == t.claim # NullClaim /\ Permission(op) \in t.claim

\* Faulty: validate in the place of validateWithBlockHandle.
ValidateOnly(t, op) ==
    IF t.claim = NullClaim THEN 500
    ELSE IF t \notin tokens THEN 401
    ELSE IF Grants(t, op) THEN 200 ELSE 403

\* The application server: a claim that is null cannot be read.
ValidateWithBlockHandle(t, op) ==
    IF t.claim = NullClaim THEN 500
    ELSE IF blocked[t.user] THEN 413
    ELSE IF t \notin tokens THEN 401
    ELSE IF Grants(t, op) THEN 200 ELSE 403

\* Faulty: an old token will do.
GrantedOnce(t, op) == IF Grants(t, op) THEN 200 ELSE 403

\* The authorization server knows of no block.
HasPermission(t, op) ==
    IF t \notin tokens THEN 401 ELSE IF Grants(t, op) THEN 200 ELSE 403

-----------------------------------------------------------------------------
\* A client sends a request to the application server ...
Receive(w) ==
    /\ job[w].pc = "idle"
    /\ \E t \in tokens, r \in Requests :
          job' = [job EXCEPT ![w] = [pc |-> "auth", req |-> r, token |-> t]]
    /\ UNCHANGED <<roles, blocked, tokens, visit>>

\* ... or past it, to the authorization server.
ReceiveDirect(w) ==
    /\ job[w].pc = "idle"
    /\ \E t \in tokens, r \in Requests :
          /\ r.op \in {"get_role", "set_role"}
          /\ job' = [job EXCEPT ![w] = [pc |-> "forward", req |-> r, token |-> t]]
    /\ UNCHANGED <<roles, blocked, tokens, visit>>

Authorize(w) ==
    /\ job[w].pc = "auth"
    /\ LET op == job[w].req.op
       IN  \/ /\ ValidateWithBlockHandle(job[w].token, op) = 200
              /\ Goto(w, IF op = "set_block_status" THEN "block" ELSE "forward")
           \/ /\ ValidateWithBlockHandle(job[w].token, op) # 200 \/ Faults
              /\ Reply(w)
    /\ UNCHANGED <<roles, blocked, tokens, visit>>

\* The authorization server has the request, whoever sent it; or the call fails,
\* and cpr's status 0 is the answer.
Forward(w) ==
    /\ job[w].pc = "forward"
    /\ LET op == job[w].req.op
       IN  \/ /\ HasPermission(job[w].token, op) = 200
              /\ Goto(w, IF op = "set_role" THEN "modify" ELSE "read")
           \/ /\ HasPermission(job[w].token, op) # 200 \/ Faults
              /\ Reply(w)
    /\ UNCHANGED <<roles, blocked, tokens, visit>>

\* ModifyRoleById takes any name for a role.  Its answer may be lost, with the
\* role changed.
ModifyRoleById(w) ==
    /\ job[w].pc = "modify"
    /\ \/ roles' = [roles EXCEPT ![job[w].req.user] = job[w].req.role]
       \/ Faults /\ UNCHANGED roles
    /\ Reply(w)
    /\ UNCHANGED <<blocked, tokens, visit>>

FindById(w) ==
    /\ job[w].pc = "read"
    /\ Reply(w)
    /\ UNCHANGED <<roles, blocked, tokens, visit>>

SetBlockStatus(w) ==
    /\ job[w].pc = "block"
    /\ \/ blocked' = [blocked EXCEPT ![job[w].req.user] = job[w].req.block]
       \/ Faults /\ UNCHANGED blocked
    /\ Reply(w)
    /\ UNCHANGED <<roles, tokens, visit>>

-----------------------------------------------------------------------------
Init ==
    /\ roles = InitialRole
    /\ blocked = [u \in Users |-> FALSE]
    /\ tokens = {}
    /\ visit = [u \in Users |-> Nil]
    /\ job = [w \in Workers |-> IdleJob]

Next ==
    \/ \E u \in Users : FindUser(u) \/ GenerateAccessToken(u)
    \/ \E t \in tokens : Expire(t)
    \/ \E w \in Workers : \/ Receive(w) \/ ReceiveDirect(w)
                          \/ Authorize(w) \/ Forward(w)
                          \/ ModifyRoleById(w) \/ FindById(w) \/ SetBlockStatus(w)

Spec == Init /\ [][Next]_vars

-----------------------------------------------------------------------------
(* Every user has a role, every token a claim a sign-in can make, every    *)
(* thread the state of one of the handlers.                                *)
TypeOK ==
    /\ roles \in [Users -> RoleNames]
    /\ blocked \in [Users -> BOOLEAN]
    /\ tokens \subseteq Token
    /\ visit \in [Users -> RoleNames \cup {Nil}]
    /\ job \in [Workers -> Job]

-----------------------------------------------------------------------------
(* Powers.                                                                 *)

Confers(claim, permission) == claim \notin {Nil, NullClaim} /\ permission \in claim

\* The user's role, a sign-in under way or a token gives the permission.
May(u, permission) ==
    \/ Confers(GeneratePermissions(roles[u]), permission)
    \/ visit[u] # Nil /\ Confers(GeneratePermissions(visit[u]), permission)
    \/ \E t \in tokens : t.user = u /\ Confers(t.claim, permission)

\* The right to change roles or blocks.
HasPower(u) == May(u, "user:roles:write") \/ May(u, "user:block:write")

\* A request of the user's has passed the last check before it changes something.
Engaged(u) ==
    \E w \in Workers : job[w].pc \in {"modify", "block"} /\ job[w].token.user = u

(* A user without powers, and without a request admitted when he still had *)
(* some, gains them only in a set_role of somebody else, however old the   *)
(* tokens in circulation are (JwtTokenGenerator.go:13).                    *)
Humble(u) == ~HasPower(u) /\ ~Engaged(u)

PowerComesFromOthers ==
    [][\A u \in Users : Humble(u) =>
          Humble(u)' \/ \E w \in Workers :
                           /\ job[w].pc = "modify" /\ job'[w].pc = "idle"
                           /\ job[w].req.user = u /\ job[w].token.user # u]_vars

(* Administrators can demote and block themselves and each other.  A block *)
(* takes away the right to block, which only the application server knows, *)
(* and not the right to change roles, which the authorization server       *)
(* grants on the token alone.  Once nobody may change roles, everybody who *)
(* may change blocks is blocked, and the requests let in before have       *)
(* drained, no role and no block ever changes again                        *)
(* (AccessRequestValidator.cpp:6-35, DatabaseServerHandler.go:81-130).     *)
Leaderless ==
    \A u \in Users : /\ ~Engaged(u)
                     /\ ~May(u, "user:roles:write")
                     /\ blocked[u] \/ ~May(u, "user:block:write")

LeaderlessForever == [][Leaderless => Leaderless' /\ UNCHANGED <<roles, blocked>>]_vars

(* A role that is unknown or above stage 0 makes a sign-in fail, or end    *)
(* with a token nothing can be done with: once his older tokens are gone,  *)
(* whoever was given it gets no request through, at either server, until   *)
(* his role is changed (RolePermissionsGenerator.go:7-29).                 *)
Usable(role) == GeneratePermissions(role) \notin {Nil, NullClaim}

Stranded(u) ==
    /\ ~Usable(roles[u])
    /\ visit[u] = Nil \/ ~Usable(visit[u])
    /\ \A t \in tokens : t.user = u => t.claim = NullClaim
    /\ \A w \in Workers : job[w].pc \in {"idle", "auth", "forward"} \/ job[w].token.user # u

StagedRoleStrands ==
    [][\A u \in Users : Stranded(u) => Stranded(u)' \/ roles'[u] # roles[u]]_vars
=============================================================================
