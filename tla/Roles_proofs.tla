---------------------------- MODULE Roles_proofs ----------------------------
(***************************************************************************)
(* Proofs about the roles and tokens of module Roles, for any roles        *)
(* collection, any initial roles and any requests, whether or not calls    *)
(* fail.  TypeOK is inductive; the action properties follow from it and a  *)
(* look at each step.                                                      *)
(***************************************************************************)
EXTENDS Roles, TLAPS

(* A sign-in with a role a client can name makes a claim, or none.         *)
LEMMA ClaimType ==
    ASSUME NEW role \in RoleNames
    PROVE  GeneratePermissions(role) \in (SUBSET RolePermissions) \cup {NullClaim, Nil}
BY RolesAssumption DEF GeneratePermissions

(* Nil is neither a role, nor a claim, nor a request, nor a token.         *)
LEMMA NilIsNothing ==
    /\ Nil \notin RoleNames /\ Nil \notin Request /\ Nil \notin Token
    /\ Nil \notin (SUBSET RolePermissions) \cup {NullClaim}
BY RolesAssumption

(* The initial state is well typed.                                        *)
LEMMA InitType == Init => TypeOK
BY RolesAssumption DEF Init, TypeOK, Job

(* A thread that goes on, or is done, keeps the type of the jobs.          *)
LEMMA JobType ==
    ASSUME job \in [Workers -> Job], NEW w \in Workers, NEW j \in Job,
           job' = [job EXCEPT ![w] = j]
    PROVE  job' \in [Workers -> Job]
OBVIOUS

(* Reply makes a thread idle.                                              *)
LEMMA ReplyType ==
    ASSUME job \in [Workers -> Job], NEW w \in Workers, Reply(w)
    PROVE  job' \in [Workers -> Job]
BY DEF Reply, Job

(* What a thread holds at each step of a handler.                          *)
LEMMA JobAt ==
    ASSUME NEW j \in Job
    PROVE  /\ j.pc \in {"idle", "auth", "forward", "read", "modify", "block"}
           /\ j.pc # "idle" => /\ j \in [pc : {"auth", "forward", "read", "modify", "block"},
                                         req : Request, token : Token]
                               /\ j.req.op \in {"get_role", "set_role", "set_block_status"}
                               /\ j.req.user \in Users /\ j.token.user \in Users
           /\ j.pc = "forward" => j.req.op \in {"get_role", "set_role"}
           /\ j.pc = "read" => j.req.op = "get_role"
           /\ j.pc = "modify" => j.req.op = "set_role" /\ j.req.role \in RoleNames
           /\ j.pc = "block" => j.req.op = "set_block_status" /\ j.req.block \in BOOLEAN
BY DEF Job, IdleJob, At, Request, Token

(* Each step of a sign-in, a token or a thread keeps the types.            *)
LEMMA StepType == TypeOK /\ [Next]_vars => TypeOK'
<1> SUFFICES ASSUME TypeOK, [Next]_vars PROVE TypeOK'
    OBVIOUS
<1> USE DEF TypeOK
<1>1. ASSUME NEW u \in Users, FindUser(u) PROVE TypeOK'
    BY <1>1 DEF FindUser
<1>2. ASSUME NEW u \in Users, GenerateAccessToken(u) PROVE TypeOK'
    <2>1. visit[u] \in RoleNames
        BY <1>2 DEF GenerateAccessToken
    <2>2. visit' \in [Users -> RoleNames \cup {Nil}]
        BY <1>2 DEF GenerateAccessToken
    <2>3. GeneratePermissions(visit[u]) # Nil =>
             [user |-> u, claim |-> GeneratePermissions(visit[u])] \in Token
        BY <2>1, ClaimType DEF Token
    <2>4. tokens' \subseteq Token
        BY <1>2, <2>3 DEF GenerateAccessToken
    <2> QED
        BY <1>2, <2>2, <2>4 DEF GenerateAccessToken
<1>3. ASSUME NEW t \in tokens, Expire(t) PROVE TypeOK'
    BY <1>3 DEF Expire
<1>4. ASSUME NEW w \in Workers, Receive(w) PROVE TypeOK'
    <2>1. PICK t \in tokens, r \in Requests :
             job' = [job EXCEPT ![w] = [pc |-> "auth", req |-> r, token |-> t]]
        BY <1>4 DEF Receive
    <2>2. r \in Request /\ r.op \in {"get_role", "set_role", "set_block_status"}
        BY RolesAssumption DEF Request
    <2>3. [pc |-> "auth", req |-> r, token |-> t] \in Job
        BY <2>2 DEF Job, At
    <2> QED
        BY <1>4, <2>1, <2>3, JobType DEF Receive
<1>11. ASSUME NEW w \in Workers, ReceiveDirect(w) PROVE TypeOK'
    <2>1. PICK t \in tokens, r \in Requests :
             /\ r.op \in {"get_role", "set_role"}
             /\ job' = [job EXCEPT ![w] = [pc |-> "forward", req |-> r, token |-> t]]
        BY <1>11 DEF ReceiveDirect
    <2>2. r \in Request
        BY RolesAssumption
    <2>3. [pc |-> "forward", req |-> r, token |-> t] \in Job
        BY <2>1, <2>2 DEF Job, At
    <2> QED
        BY <1>11, <2>1, <2>3, JobType DEF ReceiveDirect
<1>5. ASSUME NEW w \in Workers, Authorize(w) PROVE TypeOK'
    <2>1. job[w] \in Job /\ job[w].pc = "auth"
        BY <1>5 DEF Authorize
    <2>2. job[w] \in [pc : {"auth", "forward", "read", "modify", "block"},
                      req : Request, token : Token]
          /\ job[w].req.op \in {"get_role", "set_role", "set_block_status"}
        BY <2>1, JobAt
    <2>3. [job[w] EXCEPT !.pc = IF job[w].req.op = "set_block_status"
                                THEN "block" ELSE "forward"] \in Job
        BY <2>2 DEF Job, At
    <2>4. job' \in [Workers -> Job]
        BY <1>5, <2>3, ReplyType DEF Authorize, Goto
    <2> QED
        BY <1>5, <2>4 DEF Authorize
<1>6. ASSUME NEW w \in Workers, Forward(w) PROVE TypeOK'
    <2>1. job[w] \in Job /\ job[w].pc = "forward"
        BY <1>6 DEF Forward
    <2>2. job[w] \in [pc : {"auth", "forward", "read", "modify", "block"},
                      req : Request, token : Token]
          /\ job[w].req.op \in {"get_role", "set_role"}
        BY <2>1, JobAt
    <2>3. [job[w] EXCEPT !.pc = IF job[w].req.op = "set_role"
                                THEN "modify" ELSE "read"] \in Job
        BY <2>2 DEF Job, At
    <2>4. job' \in [Workers -> Job]
        BY <1>6, <2>3, ReplyType DEF Forward, Goto
    <2> QED
        BY <1>6, <2>4 DEF Forward
<1>7. ASSUME NEW w \in Workers, ModifyRoleById(w) PROVE TypeOK'
    <2>1. job[w].req.role \in RoleNames
        BY <1>7, JobAt DEF ModifyRoleById
    <2> QED
        BY <1>7, <2>1, ReplyType DEF ModifyRoleById
<1>8. ASSUME NEW w \in Workers, FindById(w) PROVE TypeOK'
    BY <1>8, ReplyType DEF FindById
<1>9. ASSUME NEW w \in Workers, SetBlockStatus(w) PROVE TypeOK'
    <2>1. job[w].req.block \in BOOLEAN
        BY <1>9, JobAt DEF SetBlockStatus
    <2> QED
        BY <1>9, <2>1, ReplyType DEF SetBlockStatus
<1>10. CASE UNCHANGED vars
    BY <1>10 DEF vars
<1> QED
    BY <1>1, <1>2, <1>3, <1>4, <1>5, <1>6, <1>7, <1>8, <1>9, <1>10, <1>11 DEF Next

(* Every reachable state is well typed: a thread at modify holds a         *)
(* set_role, one at block a set_block_status (UserRestController.cpp).     *)
THEOREM RolesTypes == Spec => []TypeOK
BY InitType, StepType, PTL DEF Spec

-----------------------------------------------------------------------------
(* Powers.                                                                 *)

(* A token that grants what is asked confers the permission for it.        *)
LEMMA GrantConfers ==
    ASSUME NEW t \in Token, NEW op, Grants(t, op)
    PROVE  Confers(t.claim, Permission(op))
<1>1. t.claim # Nil
    BY RolesAssumption DEF Token
<1> QED
    BY <1>1 DEF Confers, Grants

(* Where a role does not change, its user gains no permission.             *)
LEMMA PowerKept ==
    ASSUME TypeOK, [Next]_vars, NEW u \in Users, roles'[u] = roles[u],
           NEW p \in RolePermissions, May(u, p)'
    PROVE  May(u, p)
<1> USE DEF TypeOK
<1>1. CASE Confers(GeneratePermissions(roles[u]), p)'
    BY <1>1 DEF May, Confers, GeneratePermissions
<1>2. CASE visit'[u] # Nil /\ Confers(GeneratePermissions(visit'[u]), p)
    <2>1. ASSUME NEW v \in Users, FindUser(v) PROVE May(u, p)
        BY <1>2, <2>1 DEF FindUser, May
    <2>2. ASSUME NEW v \in Users, GenerateAccessToken(v) PROVE May(u, p)
        BY <1>2, <2>2 DEF GenerateAccessToken, May
    <2>3. CASE visit' = visit
        BY <1>2, <2>3 DEF May
    <2> QED
        BY <2>1, <2>2, <2>3 DEF Next, vars, Expire, Receive, ReceiveDirect, Authorize, Forward,
           ModifyRoleById, FindById, SetBlockStatus
<1>3. ASSUME NEW t \in tokens', t.user = u, Confers(t.claim, p) PROVE May(u, p)
    <2>1. CASE t \in tokens
        BY <1>3, <2>1 DEF May
    <2>2. ASSUME NEW v \in Users, GenerateAccessToken(v), t \notin tokens
          PROVE  May(u, p)
        <3>1. t = [user |-> v, claim |-> GeneratePermissions(visit[v])] /\ visit[v] # Nil
            BY <1>3, <2>2 DEF GenerateAccessToken
        <3> QED
            BY <1>3, <3>1 DEF May
    <2>3. ASSUME NEW v \in tokens, Expire(v) PROVE t \in tokens
        BY <2>3 DEF Expire
    <2> QED
        BY <2>1, <2>2, <2>3 DEF Next, vars, FindUser, Receive, ReceiveDirect, Authorize, Forward,
           ModifyRoleById, FindById, SetBlockStatus
<1> QED
    BY <1>1, <1>2, <1>3 DEF May

(* A request to change a role passes its last check only for a user who    *)
(* may change roles, one to change a block only for a user who may and is  *)
(* not blocked.                                                            *)
LEMMA EngagedNeedsPower ==
    ASSUME TypeOK, [Next]_vars, NEW u \in Users, ~Engaged(u), Engaged(u)'
    PROVE  \/ May(u, "user:roles:write")
           \/ May(u, "user:block:write") /\ ~blocked[u]
<1> USE DEF TypeOK
<1>1. PICK w \in Workers : job'[w].pc \in {"modify", "block"} /\ job'[w].token.user = u
    BY DEF Engaged
<1>2. ~(job[w].pc \in {"modify", "block"} /\ job[w].token.user = u)
    BY DEF Engaged
<1>3. job'[w] # job[w]
    BY <1>1, <1>2
<1>4. ASSUME NEW v \in Workers, Reply(v) PROVE FALSE
    BY <1>1, <1>3, <1>4 DEF Reply, IdleJob
<1>5. ASSUME NEW v \in Workers, Receive(v) \/ ReceiveDirect(v) PROVE FALSE
    BY <1>1, <1>3, <1>5 DEF Receive, ReceiveDirect
<1>6. ASSUME NEW v \in Workers, Forward(v) PROVE May(u, "user:roles:write")
    <2>1. /\ HasPermission(job[v].token, job[v].req.op) = 200
          /\ Goto(v, IF job[v].req.op = "set_role" THEN "modify" ELSE "read")
        BY <1>4, <1>6 DEF Forward
    <2>2. v = w /\ job[w].pc = "forward" /\ job[w] \in Job
        BY <1>3, <1>6, <2>1 DEF Forward, Goto
    <2>3. /\ job'[w].token = job[w].token
          /\ job'[w].pc = IF job[w].req.op = "set_role" THEN "modify" ELSE "read"
        BY <2>1, <2>2, JobAt DEF Goto
    <2>4. job[w].req.op = "set_role" /\ job[w].token.user = u /\ job[w].token \in Token
        BY <1>1, <2>2, <2>3, JobAt
    <2>5. job[w].token \in tokens /\ Grants(job[w].token, "set_role")
        BY <2>1, <2>2, <2>4 DEF HasPermission
    <2>6. Confers(job[w].token.claim, "user:roles:write")
        BY <2>4, <2>5, GrantConfers DEF Permission
    <2> QED
        BY <2>4, <2>5, <2>6 DEF May
<1>7. ASSUME NEW v \in Workers, Authorize(v)
      PROVE  May(u, "user:block:write") /\ ~blocked[u]
    <2>1. /\ ValidateWithBlockHandle(job[v].token, job[v].req.op) = 200
          /\ Goto(v, IF job[v].req.op = "set_block_status" THEN "block" ELSE "forward")
        BY <1>4, <1>7 DEF Authorize
    <2>2. v = w /\ job[w].pc = "auth" /\ job[w] \in Job
        BY <1>3, <1>7, <2>1 DEF Authorize, Goto
    <2>3. /\ job'[w].token = job[w].token
          /\ job'[w].pc = IF job[w].req.op = "set_block_status" THEN "block" ELSE "forward"
        BY <2>1, <2>2, JobAt DEF Goto
    <2>4. /\ job[w].req.op = "set_block_status" /\ job[w].token.user = u
          /\ job[w].token \in Token
        BY <1>1, <2>2, <2>3, JobAt
    <2>5. /\ job[w].token \in tokens /\ Grants(job[w].token, "set_block_status")
          /\ ~blocked[u]
        BY <2>1, <2>2, <2>4 DEF ValidateWithBlockHandle
    <2>6. Confers(job[w].token.claim, "user:block:write")
        BY <2>4, <2>5, GrantConfers DEF Permission
    <2> QED
        BY <2>4, <2>5, <2>6 DEF May
<1> QED
    BY <1>3, <1>4, <1>5, <1>6, <1>7 DEF Next, vars, FindUser, GenerateAccessToken,
       Expire, ModifyRoleById, FindById, SetBlockStatus

(* Roles change in ModifyRoleById, blocks in SetBlockStatus, and either    *)
(* belongs to a request that was let in.                                   *)
LEMMA ChangeIsEngaged ==
    ASSUME TypeOK, NEW w \in Workers, ModifyRoleById(w) \/ SetBlockStatus(w)
    PROVE  job[w].token.user \in Users /\ Engaged(job[w].token.user)
<1>1. job[w] \in Job /\ job[w].pc \in {"modify", "block"}
    BY DEF TypeOK, ModifyRoleById, SetBlockStatus
<1> QED
    BY <1>1, JobAt DEF Engaged

(* Powers come from others: see PowerComesFromOthers.                      *)
THEOREM PowersGiven == Spec => PowerComesFromOthers
<1> DEFINE Given(u) == \E w \in Workers :
                          /\ job[w].pc = "modify" /\ job'[w].pc = "idle"
                          /\ job[w].req.user = u /\ job[w].token.user # u
<1>1. ASSUME TypeOK, [Next]_vars, NEW u \in Users, Humble(u)
      PROVE  Humble(u)' \/ Given(u)
    <2>1. ~Engaged(u)'
        BY <1>1, EngagedNeedsPower DEF Humble, HasPower
    <2>2. ASSUME roles'[u] = roles[u] PROVE Humble(u)'
        BY <1>1, <2>1, <2>2, PowerKept DEF Humble, HasPower, RolePermissions
    <2>3. ASSUME NEW w \in Workers, ModifyRoleById(w), job[w].req.user = u
          PROVE  Given(u)
        <3>1. job[w].token.user # u
            BY <1>1, <2>3, ChangeIsEngaged DEF Humble
        <3>2. job[w].pc = "modify" /\ job'[w].pc = "idle"
            BY <1>1, <2>3 DEF ModifyRoleById, Reply, IdleJob, TypeOK
        <3> QED
            BY <2>3, <3>1, <3>2
    <2>4. ASSUME NEW w \in Workers, ModifyRoleById(w), job[w].req.user # u
          PROVE  Humble(u)'
        BY <1>1, <2>2, <2>4 DEF ModifyRoleById, TypeOK
    <2> QED
        BY <1>1, <2>2, <2>3, <2>4 DEF Next, vars, FindUser, GenerateAccessToken, Expire,
           Receive, ReceiveDirect, Authorize, Forward, FindById, SetBlockStatus
<1>2. TypeOK /\ [Next]_vars =>
         [\A u \in Users : Humble(u) =>
             Humble(u)' \/ \E w \in Workers :
                              /\ job[w].pc = "modify" /\ job'[w].pc = "idle"
                              /\ job[w].req.user = u /\ job[w].token.user # u]_vars
    BY <1>1
<1> QED
    BY <1>2, RolesTypes, PTL DEF Spec, PowerComesFromOthers

(* Without administrators for ever: see LeaderlessForever.                 *)
THEOREM LeaderlessStays == Spec => LeaderlessForever
<1>1. ASSUME TypeOK, [Next]_vars, Leaderless
      PROVE  Leaderless' /\ UNCHANGED <<roles, blocked>>
    <2>1. UNCHANGED <<roles, blocked>>
        <3>1. ASSUME NEW w \in Workers, ModifyRoleById(w) \/ SetBlockStatus(w) PROVE FALSE
            BY <1>1, <3>1, ChangeIsEngaged DEF Leaderless
        <3> QED
            BY <1>1, <3>1 DEF Next, vars, FindUser, GenerateAccessToken, Expire, Receive,
               ReceiveDirect, Authorize, Forward, FindById
    <2>2. ASSUME NEW u \in Users
          PROVE  /\ ~Engaged(u)' /\ ~May(u, "user:roles:write")'
                 /\ blocked[u]' \/ ~May(u, "user:block:write")'
        BY <1>1, <2>1, PowerKept, EngagedNeedsPower DEF Leaderless, RolePermissions
    <2> QED
        BY <2>1, <2>2 DEF Leaderless
<1>2. TypeOK /\ [Next]_vars => [Leaderless => Leaderless' /\ UNCHANGED <<roles, blocked>>]_vars
    BY <1>1
<1> QED
    BY <1>2, RolesTypes, PTL DEF Spec, LeaderlessForever

-----------------------------------------------------------------------------
(* Roles above stage 0.                                                    *)

(* Stranded with a role of a stage: see StagedRoleStrands.                 *)
THEOREM StrandedStays == Spec => StagedRoleStrands
<1>1. ASSUME TypeOK, [Next]_vars, NEW u \in Users, Stranded(u), roles'[u] = roles[u]
      PROVE  Stranded(u)'
    <2> USE DEF TypeOK
    <2>1. ~Usable(roles[u])'
        BY <1>1 DEF Stranded, Usable, GeneratePermissions
    <2>2. visit'[u] = Nil \/ ~Usable(visit'[u])
        <3>1. ASSUME NEW v \in Users, FindUser(v) PROVE visit'[u] = Nil \/ ~Usable(visit'[u])
            BY <1>1, <3>1 DEF FindUser, Stranded
        <3>2. ASSUME NEW v \in Users, GenerateAccessToken(v)
              PROVE  visit'[u] = Nil \/ ~Usable(visit'[u])
            BY <1>1, <3>2 DEF GenerateAccessToken, Stranded
        <3> QED
            BY <1>1, <3>1, <3>2 DEF Stranded, Next, vars, Expire, Receive, ReceiveDirect, Authorize,
               Forward, ModifyRoleById, FindById, SetBlockStatus
    <2>3. ASSUME NEW t \in tokens', t.user = u PROVE t.claim = NullClaim
        <3>1. CASE t \in tokens
            BY <1>1, <2>3, <3>1 DEF Stranded
        <3>2. ASSUME NEW v \in Users, GenerateAccessToken(v), t \notin tokens
              PROVE  t.claim = NullClaim
            <4>1. /\ t = [user |-> v, claim |-> GeneratePermissions(visit[v])]
                  /\ visit[v] # Nil /\ GeneratePermissions(visit[v]) # Nil
                BY <2>3, <3>2 DEF GenerateAccessToken
            <4> QED
                BY <1>1, <2>3, <4>1 DEF Stranded, Usable
        <3> QED
            BY <1>1, <3>1, <3>2 DEF Next, vars, FindUser, Expire, Receive, ReceiveDirect, Authorize,
               Forward, ModifyRoleById, FindById, SetBlockStatus
    <2>4. ASSUME NEW w \in Workers
          PROVE  job'[w].pc \in {"idle", "auth", "forward"} \/ job'[w].token.user # u
        <3>1. job[w].pc \in {"idle", "auth", "forward"} \/ job[w].token.user # u
            BY <1>1 DEF Stranded
        <3>2. CASE job'[w] = job[w]
            BY <3>1, <3>2
        <3>3. ASSUME Reply(w) PROVE job'[w].pc = "idle"
            BY <1>1, <3>3 DEF Reply, IdleJob
        <3>4. ASSUME Receive(w) \/ ReceiveDirect(w) PROVE job'[w].pc \in {"auth", "forward"}
            BY <1>1, <3>4 DEF Receive, ReceiveDirect
        <3>5. CASE Authorize(w)
            <4>1. CASE ValidateWithBlockHandle(job[w].token, job[w].req.op) = 200
                <5>1. job[w].token \in tokens /\ job[w].token.claim # NullClaim
                    BY <4>1 DEF ValidateWithBlockHandle
                <5>2. job[w].token.user # u
                    BY <1>1, <5>1 DEF Stranded
                <5>3. job[w].pc = "auth" /\ job[w] \in Job
                    BY <1>1, <3>5 DEF Authorize
                <5>4. CASE Goto(w, IF job[w].req.op = "set_block_status"
                                   THEN "block" ELSE "forward")
                    BY <5>2, <5>3, <5>4, JobAt DEF Goto
                <5> QED
                    BY <3>3, <3>5, <5>4 DEF Authorize
            <4> QED
                BY <3>3, <3>5, <4>1 DEF Authorize
        <3>6. CASE Forward(w)
            <4>1. CASE HasPermission(job[w].token, job[w].req.op) = 200
                <5>1. job[w].token \in tokens /\ job[w].token.claim # NullClaim
                    BY <4>1 DEF HasPermission, Grants
                <5>2. job[w].token.user # u
                    BY <1>1, <5>1 DEF Stranded
                <5>3. job[w].pc = "forward" /\ job[w] \in Job
                    BY <1>1, <3>6 DEF Forward
                <5>4. CASE Goto(w, IF job[w].req.op = "set_role" THEN "modify" ELSE "read")
                    BY <5>2, <5>3, <5>4, JobAt DEF Goto
                <5> QED
                    BY <3>3, <3>6, <5>4 DEF Forward
            <4> QED
                BY <3>3, <3>6, <4>1 DEF Forward
        <3>7. ASSUME NEW v \in Workers, v # w,
                     \/ Receive(v) \/ ReceiveDirect(v) \/ Authorize(v) \/ Forward(v)
                     \/ ModifyRoleById(v) \/ FindById(v) \/ SetBlockStatus(v)
              PROVE  job'[w] = job[w]
            BY <1>1, <3>7 DEF Receive, ReceiveDirect, Authorize, Forward, ModifyRoleById, FindById,
               SetBlockStatus, Goto, Reply
        <3>8. CASE ModifyRoleById(w) \/ FindById(w) \/ SetBlockStatus(w)
            BY <3>3, <3>8 DEF ModifyRoleById, FindById, SetBlockStatus
        <3> QED
            BY <1>1, <3>2, <3>4, <3>5, <3>6, <3>7, <3>8 DEF Next, vars, FindUser,
               GenerateAccessToken, Expire
    <2> QED
        BY <2>1, <2>2, <2>3, <2>4 DEF Stranded
<1>2. TypeOK /\ [Next]_vars =>
         [\A u \in Users : Stranded(u) => Stranded(u)' \/ roles'[u] # roles[u]]_vars
    BY <1>1
<1> QED
    BY <1>2, RolesTypes, PTL DEF Spec, StagedRoleStrands

-----------------------------------------------------------------------------
(* Requests.                                                               *)

\* At most how many steps a request still has to go.
JobOrder == [idle |-> 0, read |-> 1, modify |-> 1, block |-> 1, forward |-> 2, auth |-> 3]
JobLeft(w) == JobOrder[job[w].pc]

HandlerStep(w) ==
    Authorize(w) \/ Forward(w) \/ ModifyRoleById(w) \/ FindById(w) \/ SetBlockStatus(w)

JobsBounded ==
    \A w \in Workers : JobLeft(w) \in 0 .. 3 /\ (JobLeft(w) = 0 <=> job[w].pc = "idle")

EachJobCounts ==
    \A w \in Workers :
        /\ HandlerStep(w) => JobLeft(w)' < JobLeft(w)
        /\ job[w].pc # "idle" /\ job'[w] # job[w] => JobLeft(w)' < JobLeft(w)

LEMMA JobOrderIs ==
    /\ JobOrder["idle"] = 0 /\ JobOrder["read"] = 1 /\ JobOrder["modify"] = 1
    /\ JobOrder["block"] = 1 /\ JobOrder["forward"] = 2 /\ JobOrder["auth"] = 3
BY DEF JobOrder

(* A thread past its last check has a token that grants what it is about   *)
(* to do, whatever became of the token since.                              *)
Admitted(w) ==
    job[w].pc \in {"read", "modify", "block"} => Grants(job[w].token, job[w].req.op)

(* Where a step of a handler goes.                                         *)
LEMMA HandlerGoes ==
    ASSUME TypeOK, NEW w \in Workers, HandlerStep(w)
    PROVE  /\ \A v \in Workers : v # w => job'[v] = job[v]
           /\ job[w].pc \in {"auth", "forward", "read", "modify", "block"}
           /\ \/ job'[w].pc = "idle"
              \/ /\ job'[w].req = job[w].req /\ job'[w].token = job[w].token
                 /\ \/ /\ job[w].pc = "auth" /\ job'[w].pc \in {"block", "forward"}
                       /\ ValidateWithBlockHandle(job[w].token, job[w].req.op) = 200
                    \/ /\ job[w].pc = "forward" /\ job'[w].pc \in {"modify", "read"}
                       /\ HasPermission(job[w].token, job[w].req.op) = 200
<1> USE DEF TypeOK
<1> DEFINE Goes ==
              \/ job'[w].pc = "idle"
              \/ /\ job'[w].req = job[w].req /\ job'[w].token = job[w].token
                 /\ \/ /\ job[w].pc = "auth" /\ job'[w].pc \in {"block", "forward"}
                       /\ ValidateWithBlockHandle(job[w].token, job[w].req.op) = 200
                    \/ /\ job[w].pc = "forward" /\ job'[w].pc \in {"modify", "read"}
                       /\ HasPermission(job[w].token, job[w].req.op) = 200
<1>1. job[w] \in Job
    OBVIOUS
<1>2. \A v \in Workers : v # w => job'[v] = job[v]
    BY DEF HandlerStep, Authorize, Forward, ModifyRoleById, FindById, SetBlockStatus, Goto, Reply
<1>3. job[w].pc \in {"auth", "forward", "read", "modify", "block"}
    BY DEF HandlerStep, Authorize, Forward, ModifyRoleById, FindById, SetBlockStatus
<1>4. Reply(w) => job'[w].pc = "idle"
    BY DEF Reply, IdleJob
<1>5. ASSUME NEW pc, Goto(w, pc)
      PROVE  job'[w].pc = pc /\ job'[w].req = job[w].req /\ job'[w].token = job[w].token
    BY <1>1, <1>3, <1>5, JobAt DEF Goto
<1>6. ASSUME Authorize(w) PROVE Goes
    <2>1. job[w].pc = "auth"
        BY <1>6 DEF Authorize
    <2>2. CASE /\ ValidateWithBlockHandle(job[w].token, job[w].req.op) = 200
               /\ Goto(w, IF job[w].req.op = "set_block_status" THEN "block" ELSE "forward")
        <3>1. PICK pc \in {"block", "forward"} : Goto(w, pc)
            BY <2>2
        <3> QED
            BY <2>1, <2>2, <3>1, <1>5
    <2> QED
        BY <1>4, <1>6, <2>2 DEF Authorize
<1>7. ASSUME Forward(w) PROVE Goes
    <2>1. job[w].pc = "forward"
        BY <1>7 DEF Forward
    <2>2. CASE /\ HasPermission(job[w].token, job[w].req.op) = 200
               /\ Goto(w, IF job[w].req.op = "set_role" THEN "modify" ELSE "read")
        <3>1. PICK pc \in {"modify", "read"} : Goto(w, pc)
            BY <2>2
        <3> QED
            BY <2>1, <2>2, <3>1, <1>5
    <2> QED
        BY <1>4, <1>7, <2>2 DEF Forward
<1>8. ASSUME ModifyRoleById(w) \/ FindById(w) \/ SetBlockStatus(w) PROVE Goes
    BY <1>4, <1>8 DEF ModifyRoleById, FindById, SetBlockStatus
<1>9. Goes
    BY <1>6, <1>7, <1>8 DEF HandlerStep
<1> QED
    BY <1>2, <1>3, <1>9

(* Who moves a thread.                                                     *)
LEMMA WhoMoves ==
    ASSUME TypeOK, [Next]_vars, NEW w \in Workers, job'[w] # job[w]
    PROVE  HandlerStep(w) \/ (job[w].pc = "idle" /\ job'[w].pc \in {"auth", "forward"})
<1>1. ASSUME NEW v \in Workers, HandlerStep(v) PROVE HandlerStep(w)
    BY <1>1, HandlerGoes
<1>2. ASSUME NEW v \in Workers, Receive(v) \/ ReceiveDirect(v)
      PROVE  job[w].pc = "idle" /\ job'[w].pc \in {"auth", "forward"}
    BY <1>2 DEF Receive, ReceiveDirect, TypeOK
<1> QED
    BY <1>1, <1>2 DEF Next, vars, FindUser, GenerateAccessToken, Expire, HandlerStep

(* Every request comes to its end: at most three steps, each of which      *)
(* counts down, and no step puts a thread back                             *)
(* (UserRestController.cpp:170-261, DatabaseServerHandler.go:48-130).      *)
THEOREM RequestsEnd == Spec => []JobsBounded /\ [][EachJobCounts]_vars
<1>1. TypeOK => JobsBounded
    <2>1. ASSUME TypeOK, NEW w \in Workers
          PROVE  JobLeft(w) \in 0 .. 3 /\ (JobLeft(w) = 0 <=> job[w].pc = "idle")
        <3>1. job[w] \in Job
            BY <2>1 DEF TypeOK
        <3>2. job[w].pc \in {"idle", "auth", "forward", "read", "modify", "block"}
            BY <3>1, JobAt
        <3> QED
            BY <3>2, JobOrderIs DEF JobLeft
    <2> QED
        BY <2>1 DEF JobsBounded
<1>2. ASSUME TypeOK, [Next]_vars, NEW w \in Workers
      PROVE  /\ HandlerStep(w) => JobLeft(w)' < JobLeft(w)
             /\ job[w].pc # "idle" /\ job'[w] # job[w] => JobLeft(w)' < JobLeft(w)
    <2>1. ASSUME HandlerStep(w) PROVE JobLeft(w)' < JobLeft(w)
        <3>1. /\ job[w].pc \in {"auth", "forward", "read", "modify", "block"}
              /\ \/ job'[w].pc = "idle"
                 \/ job[w].pc = "auth" /\ job'[w].pc \in {"block", "forward"}
                 \/ job[w].pc = "forward" /\ job'[w].pc \in {"modify", "read"}
            BY <1>2, <2>1, HandlerGoes
        <3> QED
            BY <3>1, JobOrderIs DEF JobLeft
    <2> QED
        BY <1>2, <2>1, WhoMoves
<1>3. TypeOK /\ [Next]_vars => [EachJobCounts]_vars
    BY <1>2 DEF EachJobCounts
<1> QED
    BY <1>1, <1>3, RolesTypes, PTL DEF Spec

LEMMA AdmittedStep ==
    ASSUME TypeOK, [Next]_vars, NEW w \in Workers, Admitted(w)
    PROVE  Admitted(w)'
<1>1. CASE job'[w] = job[w]
    BY <1>1 DEF Admitted, Grants
<1>2. CASE HandlerStep(w)
    <2>1. CASE job'[w].pc = "idle"
        BY <2>1 DEF Admitted
    <2>2. CASE job[w].pc = "auth" /\ ValidateWithBlockHandle(job[w].token, job[w].req.op) = 200
               /\ job'[w].req = job[w].req /\ job'[w].token = job[w].token
        BY <2>2 DEF Admitted, ValidateWithBlockHandle, Grants
    <2>3. CASE job[w].pc = "forward" /\ HasPermission(job[w].token, job[w].req.op) = 200
               /\ job'[w].req = job[w].req /\ job'[w].token = job[w].token
        BY <2>3 DEF Admitted, HasPermission, Grants
    <2> QED
        BY <1>2, <2>1, <2>2, <2>3, HandlerGoes
<1>3. CASE job'[w].pc \in {"auth", "forward"}
    BY <1>3 DEF Admitted
<1> QED
    BY <1>1, <1>2, <1>3, WhoMoves

(* What a step that changes a role or a block was let in with.             *)
ChangesWereGranted ==
    /\ roles' # roles => \E w \in Workers :
          job[w].pc = "modify" /\ Grants(job[w].token, "set_role")
          /\ roles' = [roles EXCEPT ![job[w].req.user] = job[w].req.role]
    /\ blocked' # blocked => \E w \in Workers :
          job[w].pc = "block" /\ Grants(job[w].token, "set_block_status")
          /\ blocked' = [blocked EXCEPT ![job[w].req.user] = job[w].req.block]

LEMMA AllAdmitted == Spec => [](\A w \in Workers : Admitted(w))
<1> DEFINE All == \A w \in Workers : Admitted(w)
<1>1. Init => All
    BY DEF Init, Admitted, IdleJob
<1>2. TypeOK /\ All /\ [Next]_vars => All'
    BY AdmittedStep
<1> HIDE DEF All
<1>3. Spec => []All
    BY <1>1, <1>2, RolesTypes, PTL DEF Spec
<1> QED
    BY <1>3 DEF All

(* Whoever changes a role or a block had a token that grants it when his   *)
(* request was let in, and the change is the one he asked for, also when   *)
(* the token has expired or its user was demoted or blocked since          *)
(* (UserRestController.cpp:197-261, DatabaseServerHandler.go:108-130).     *)
THEOREM ChangesGranted == Spec => [][ChangesWereGranted]_vars
<1> DEFINE All == \A w \in Workers : Admitted(w)
<1>1. ASSUME TypeOK, All, [Next]_vars PROVE ChangesWereGranted
    <2>1. ASSUME NEW w \in Workers, ModifyRoleById(w) PROVE ChangesWereGranted
        <3>1. job[w] \in Job /\ job[w].pc = "modify"
            BY <1>1, <2>1 DEF TypeOK, ModifyRoleById
        <3>2. job[w].req.op = "set_role"
            BY <3>1, JobAt
        <3>3. Grants(job[w].token, "set_role")
            BY <1>1, <3>1, <3>2 DEF Admitted
        <3> QED
            BY <2>1, <3>1, <3>3 DEF ChangesWereGranted, ModifyRoleById
    <2>2. ASSUME NEW w \in Workers, SetBlockStatus(w) PROVE ChangesWereGranted
        <3>1. job[w] \in Job /\ job[w].pc = "block"
            BY <1>1, <2>2 DEF TypeOK, SetBlockStatus
        <3>2. job[w].req.op = "set_block_status"
            BY <3>1, JobAt
        <3>3. Grants(job[w].token, "set_block_status")
            BY <1>1, <3>1, <3>2 DEF Admitted
        <3> QED
            BY <2>2, <3>1, <3>3 DEF ChangesWereGranted, SetBlockStatus
    <2>3. CASE UNCHANGED <<roles, blocked>>
        BY <2>3 DEF ChangesWereGranted
    <2> QED
        BY <1>1, <2>1, <2>2, <2>3 DEF Next, vars, FindUser, GenerateAccessToken, Expire,
           Receive, ReceiveDirect, Authorize, Forward, FindById
<1>2. TypeOK /\ All /\ [Next]_vars => [ChangesWereGranted]_vars
    BY <1>1
<1>3. Spec => []All
    BY AllAdmitted
<1> HIDE DEF All
<1> QED
    BY <1>2, <1>3, RolesTypes, PTL DEF Spec

(* Blocked, and no change of a block he asked for is under way.            *)
ShutOut(u) ==
    blocked[u] /\ \A w \in Workers : job[w].pc # "block" \/ job[w].token.user # u

Unblocks(w, u) ==
    /\ job[w].pc = "block" /\ job'[w].pc = "idle"
    /\ job[w].req.user = u /\ ~job[w].req.block
    /\ job[w].token.user # u /\ Grants(job[w].token, "set_block_status")

BlockLifted ==
    \A u \in Users : ShutOut(u) => ShutOut(u)' \/ \E w \in Workers : Unblocks(w, u)

(* Once the set_block_status of a blocked user that were let in before     *)
(* have ended, none of his is let in any more, whatever tokens he holds:   *)
(* somebody else has to unblock him, with a token that grants it           *)
(* (AccessRequestValidator.cpp:6-35).  Roles he can still change           *)
(* (DatabaseServerHandler.go:81-130).                                      *)
THEOREM BlockedStayOut == Spec => [][BlockLifted]_vars
<1> DEFINE All == \A w \in Workers : Admitted(w)
<1>1. ASSUME TypeOK, All, [Next]_vars, NEW u \in Users, ShutOut(u)
      PROVE  ShutOut(u)' \/ \E w \in Workers : Unblocks(w, u)
    <2>1. ASSUME NEW w \in Workers
          PROVE  job'[w].pc # "block" \/ job'[w].token.user # u
        <3>1. job[w].pc # "block" \/ job[w].token.user # u
            BY <1>1 DEF ShutOut
        <3>2. CASE HandlerStep(w)
            <4>1. CASE job[w].pc = "auth" /\ job'[w].token = job[w].token
                       /\ ValidateWithBlockHandle(job[w].token, job[w].req.op) = 200
                BY <1>1, <4>1 DEF ShutOut, ValidateWithBlockHandle
            <4> QED
                BY <1>1, <3>1, <3>2, <4>1, HandlerGoes
        <3> QED
            BY <1>1, <3>1, <3>2, WhoMoves
    <2>2. CASE blocked'[u]
        BY <2>1, <2>2 DEF ShutOut
    <2>3. CASE ~blocked'[u]
        <3>1. blocked[u] /\ blocked' # blocked
            BY <1>1, <2>3 DEF ShutOut
        <3>2. PICK w \in Workers : SetBlockStatus(w)
            BY <1>1, <3>1 DEF Next, vars, FindUser, GenerateAccessToken, Expire, Receive,
               ReceiveDirect, Authorize, Forward, ModifyRoleById, FindById
        <3>3. job[w] \in Job /\ job[w].pc = "block" /\ job'[w].pc = "idle"
            BY <1>1, <3>2 DEF TypeOK, SetBlockStatus, Reply, IdleJob
        <3>4. job[w].req.op = "set_block_status"
            BY <3>3, JobAt
        <3>5. job[w].req.user = u /\ ~job[w].req.block
            BY <1>1, <2>3, <3>1, <3>2 DEF TypeOK, SetBlockStatus
        <3>6. job[w].token.user # u
            BY <1>1, <3>3 DEF ShutOut
        <3>7. Grants(job[w].token, "set_block_status")
            BY <1>1, <3>3, <3>4 DEF Admitted
        <3> QED
            BY <3>3, <3>5, <3>6, <3>7 DEF Unblocks
    <2> QED
        BY <2>2, <2>3
<1>2. TypeOK /\ All /\ [Next]_vars => [BlockLifted]_vars
    BY <1>1 DEF BlockLifted
<1>3. Spec => []All
    BY AllAdmitted
<1> HIDE DEF All
<1> QED
    BY <1>2, <1>3, RolesTypes, PTL DEF Spec
=============================================================================
