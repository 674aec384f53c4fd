----------------------------- MODULE WebServer -----------------------------
(***************************************************************************)
(* The web server: HomeController, AuthorizationController and             *)
(* AuthorizationService over the Redis record of a session.  A page        *)
(* request is a sequence of Redis calls:                                   *)
(*                                                                         *)
(*   home    look -> [save ->] show        login   look -> save -> ask     *)
(*   logout  remove [-> revoke]                                            *)
(*                                                                         *)
(* The POST of the tokens is a single save: AuthServer!Deliver makes it.   *)
(***************************************************************************)
EXTENDS SignInDb

HasTokens(s) == records[s] \in User

TaskGoto(t, pc) == task' = [task EXCEPT ![t].pc = pc]

TaskReply(t, code) == task' = [task EXCEPT ![t].pc = "done", ![t].code = code]

Unopened == {s \in Sessions : owner[s] = Nil}

\* Tomcat gives browser b session s for this request, a new one or its own.
OpenSession(b, s, dropped) ==
    /\ owner' = [owner EXCEPT ![s] = b]
    /\ live' = (live \ dropped) \cup {s}

-----------------------------------------------------------------------------
(* Faulty variants, for checking that the properties notice them.          *)

LookWithoutReading(t) ==
    /\ task[t].pc = "look"
    /\ TaskGoto(t, "save")
    /\ UNCHANGED <<records, owner, live, browserVars, tokens, userVars, call>>

-----------------------------------------------------------------------------
(* A request arrives.  A login drops the session it comes with and opens   *)
(* another; the other pages open one only when theirs is not known.        *)
Request(t, b, op) ==
    /\ task[t].pc = "idle"
    /\ op \in Ops
    /\ LET known == cookie[b] \in live
           pc == IF op \in {"logout", "logout_all"} THEN "remove" ELSE "look"
       IN  IF known /\ op # "login"
           THEN /\ task' = [task EXCEPT ![t] = [IdleTask EXCEPT !.pc = pc, !.op = op,
                                 !.browser = b, !.session = cookie[b]]]
                /\ UNCHANGED <<owner, live>>
           ELSE \E s \in Unopened :
                /\ task' = [task EXCEPT ![t] = [IdleTask EXCEPT !.pc = pc, !.op = op,
                                 !.browser = b, !.session = s, !.fresh = TRUE]]
                /\ OpenSession(b, s, {cookie[b]})
    /\ UNCHANGED <<records, browserVars, tokens, userVars, call>>

(* handleToken: any failure to read the record, and a record that is not   *)
(* there, replaces it by an anonymous one.                                 *)
Look(t) ==
    /\ task[t].pc = "look"
    /\ LET next == IF task[t].op = "login" THEN "ask" ELSE "show"
       IN  \/ TokenBodyFound(task[t].session) /\ TaskGoto(t, next)
           \/ TokenBodyFails(task[t].session) /\ TaskGoto(t, "save")
    /\ UNCHANGED <<records, owner, live, browserVars, tokens, userVars, call>>

Save(t) ==
    /\ task[t].pc = "save"
    /\ LET next == IF task[t].op = "login" THEN "ask" ELSE "show"
       IN  \/ SaveAuthToken(task[t].session) /\ TaskGoto(t, next)
           \/ May("redis") /\ TaskReply(t, 500) /\ UNCHANGED records
    /\ UNCHANGED <<owner, live, browserVars, tokens, userVars, call>>

\* The record is read again: the home page needs an access token in it.
Show(t) ==
    /\ task[t].pc = "show"
    /\ \/ TokenBodyFound(task[t].session) /\ TaskReply(t, 200)
       \/ TokenBodyFails(task[t].session) /\ TaskReply(t, 500)
    /\ UNCHANGED <<records, owner, live, browserVars, tokens, userVars, call>>

\* The web server itself calls /login of the authorization server.
Ask(t) ==
    /\ task[t].pc = "ask"
    /\ \/ /\ NewLogin(task[t].session)
          /\ \E code \in IF May("auth") THEN {302, 500} ELSE {302} : TaskReply(t, code)
       \/ May("auth") /\ TaskReply(t, 500) /\ UNCHANGED tokens
    /\ UNCHANGED <<records, owner, live, browserVars, userVars, call>>

Remove(t) ==
    /\ task[t].pc = "remove"
    /\ \/ /\ RemoveTokens(task[t].session)
          /\ IF task[t].op = "logout" THEN TaskReply(t, 302) ELSE TaskGoto(t, "revoke")
       \/ May("redis") /\ TaskReply(t, 500) /\ UNCHANGED records
    /\ UNCHANGED <<owner, live, browserVars, tokens, userVars, call>>

\* all = true: the refresh token is read from the record just removed.
Revoke(t) ==
    /\ task[t].pc = "revoke"
    /\ \/ TokenBodyFound(task[t].session) /\ Logout /\ TaskReply(t, 302)
       \/ TokenBodyFails(task[t].session) /\ TaskReply(t, 500)
    /\ UNCHANGED <<records, owner, live, browserVars, tokens, userVars, call>>

\* The answer reaches the browser with the cookie of a session opened for it;
\* a login's redirects the browser to the provider.
Answer(t) ==
    /\ task[t].pc = "done"
    /\ task' = [task EXCEPT ![t] = IdleTask]
    /\ cookie' = IF task[t].fresh
                 THEN [cookie EXCEPT ![task[t].browser] = task[t].session] ELSE cookie
    /\ sent' = IF task[t].op = "login" /\ task[t].code = 302
               THEN sent \cup {<<task[t].browser, task[t].session>>} ELSE sent
    /\ UNCHANGED <<records, owner, live, granted, tokens, userVars, call>>

TaskStep(t) ==
    \/ Look(t) \/ Save(t) \/ Show(t) \/ Ask(t) \/ Remove(t) \/ Revoke(t) \/ Answer(t)
=============================================================================
