----------------------------- MODULE AuthServer -----------------------------
(***************************************************************************)
(* The handlers of AuthenticationServerHandler.go, with the MongoDB calls  *)
(* they make and the register handler of the application server they call. *)
(* /login and /callback touch the tokens map once; /authorize is a         *)
(* sequence of calls that other requests, and failures, may come between:  *)
(*                                                                         *)
(*   find [-> count -> insert -> refind -> register [-> undo]]             *)
(*        -> expiry -> store -> deliver                                    *)
(***************************************************************************)
EXTENDS SignInDb

CallGoto(g, pc) == call' = [call EXCEPT ![g].pc = pc]

\* The handler answers and ends, with a redirect or an error code.
CallEnd(g) == call' = [call EXCEPT ![g] = IdleCall]

-----------------------------------------------------------------------------
(* Faulty variants, for checking that the properties notice them.          *)

FindThenCreate(g) ==
    /\ call[g].pc = "find"
    /\ call' = [call EXCEPT ![g].pc = "count", ![g].register = TRUE]
    /\ UNCHANGED <<webVars, browserVars, tokens, userVars>>

FindThenRegister(g) ==
    /\ call[g].pc = "find"
    /\ \/ \E d \in DocsOf(EmailOfCall(g)) :
             /\ call' = [call EXCEPT ![g].pc = "register", ![g].user = accounts[d],
                                     ![g].register = TRUE]
             /\ wire' = wire \cup {[user |-> accounts[d], from |-> g]}
       \/ /\ DocsOf(EmailOfCall(g)) = {}
          /\ call' = [call EXCEPT ![g].pc = "count", ![g].register = TRUE]
          /\ UNCHANGED wire
    /\ UNCHANGED <<webVars, browserVars, tokens, accounts, appUsers>>

CountRows(g) ==
    /\ call[g].pc = "count"
    /\ call' = [call EXCEPT ![g].pc = "insert", ![g].count = Cardinality(appUsers)]
    /\ UNCHANGED <<webVars, browserVars, tokens, userVars>>

RefindNewest(g) ==
    /\ call[g].pc = "refind"
    /\ \E d \in Docs :
          /\ call' = [call EXCEPT ![g].pc = "register", ![g].user = accounts[d]]
          /\ wire' = wire \cup {[user |-> accounts[d], from |-> g]}
    /\ UNCHANGED <<webVars, browserVars, tokens, accounts, appUsers>>

RegisterUnchecked(m) ==
    /\ m \in wire
    /\ wire' = wire \ {m}
    /\ \/ appUsers' = appUsers \cup {m.user} /\ \A r \in appUsers : r.id # m.user.id
       \/ UNCHANGED appUsers /\ (May("refuse") \/ \E r \in appUsers : r.id = m.user.id)
    /\ IF m.from = Nil THEN UNCHANGED call ELSE CallGoto(m.from, "expiry")
    /\ UNCHANGED <<webVars, browserVars, tokens, accounts>>

RegisterOver(m) ==
    /\ m \in wire
    /\ wire' = wire \ {m}
    /\ appUsers' = {r \in appUsers : r.id # m.user.id} \cup {m.user}
    /\ \E ok \in BOOLEAN :
          IF m.from = Nil THEN UNCHANGED call
          ELSE CallGoto(m.from, IF ok THEN "expiry" ELSE "undo")
    /\ UNCHANGED <<webVars, browserVars, tokens, accounts>>

UndoNothing(g) ==
    /\ call[g].pc = "undo"
    /\ CallEnd(g)
    /\ UNCHANGED <<webVars, browserVars, tokens, userVars>>

ExpiryUnchecked(g) ==
    /\ call[g].pc = "expiry"
    /\ CallGoto(g, "store")
    /\ UNCHANGED <<webVars, browserVars, tokens, userVars>>

StoreOnly(g) ==
    /\ call[g].pc = "store"
    /\ CallEnd(g)
    /\ tokens' = [tokens EXCEPT ![call[g].state].jwt = call[g].user]
    /\ UNCHANGED <<webVars, browserVars, userVars>>

DeliverToRecord(g) ==
    /\ call[g].pc = "deliver" /\ records[call[g].session] # Nil
    /\ CallEnd(g)
    /\ SaveJWTTokens(call[g].session, tokens[call[g].state].jwt)
    /\ UNCHANGED <<owner, live, task, browserVars, tokens, userVars>>

DeliverToState(g) ==
    /\ call[g].pc = "deliver"
    /\ CallEnd(g)
    /\ records' = [records EXCEPT ![call[g].state] = tokens[call[g].state].jwt]
    /\ UNCHANGED <<owner, live, task, browserVars, tokens, userVars>>

-----------------------------------------------------------------------------
\* Five minutes pass.
Expire(s) ==
    /\ May("expire")
    /\ tokens[s] # Nil /\ tokens[s].live
    /\ tokens' = [tokens EXCEPT ![s].live = FALSE]
    /\ UNCHANGED <<webVars, browserVars, userVars, call>>

Unexpired(s) == tokens[s] # Nil /\ tokens[s].live

(* /callback: the browser is back from the provider with a code, which is  *)
(* exchanged for the provider's access token.                              *)
Callback(b, s) ==
    /\ <<b, s>> \in sent \ granted
    /\ Unexpired(s)
    /\ granted' = granted \cup {<<b, s>>}
    /\ UNCHANGED <<webVars, cookie, sent, tokens, userVars, call>>

-----------------------------------------------------------------------------
(* /authorize.  The access token at the provider and the state are taken   *)
(* from the URL, each as it is: a browser may load its own link again, or  *)
(* somebody else's, at any time.                                           *)
Authorize(g, b, p, s) ==
    /\ call[g].pc = "idle"
    /\ <<b, p, s>> \in Links
    /\ \E link \in granted : link[1] = p
    /\ \E login \in sent : login[2] = s
    /\ Overlap \/ \A h \in Goroutines : ~CallBusy(h)
    /\ call' = [call EXCEPT ![g] = [IdleCall EXCEPT !.pc = "find", !.person = p,
                                        !.state = s, !.session = cookie[b]]]
    /\ UNCHANGED <<webVars, browserVars, tokens, userVars>>

\* Any error of FindByEmail is taken for a user who is not there.
Find(g) ==
    /\ call[g].pc = "find"
    /\ \/ \E d \in DocsOf(EmailOfCall(g)) :
             call' = [call EXCEPT ![g].pc = "expiry", ![g].user = accounts[d]]
       \/ DocsOf(EmailOfCall(g)) # {} /\ May("read") /\ CallEnd(g)
       \/ /\ DocsOf(EmailOfCall(g)) = {} \/ May("find")
          /\ call' = [call EXCEPT ![g].pc = "count", ![g].register = TRUE]
    /\ UNCHANGED <<webVars, browserVars, tokens, userVars>>

\* CreateByEmail: the error of either call is ignored by the handler.
Count(g) ==
    /\ call[g].pc = "count"
    /\ \/ call' = [call EXCEPT ![g].pc = "insert", ![g].count = Cardinality(Docs)]
       \/ May("read") /\ CallGoto(g, "refind")
    /\ UNCHANGED <<webVars, browserVars, tokens, userVars>>

Insert(g) ==
    /\ call[g].pc = "insert"
    /\ call' = [call EXCEPT ![g].pc = "refind", ![g].count = 0]
    /\ \/ \E d \in DocIds \ Docs :
             accounts' = [accounts EXCEPT ![d] = [id |-> call[g].count + 1,
                                                  email |-> EmailOfCall(g)]]
       \/ May("write") /\ UNCHANGED accounts
    /\ UNCHANGED <<webVars, browserVars, tokens, wire, appUsers>>

\* The user is read again, then the role's permissions; when that fails the
\* user just created stays, unregistered.
Refind(g) ==
    /\ call[g].pc = "refind"
    /\ \/ \E d \in DocsOf(EmailOfCall(g)) :
             /\ call' = [call EXCEPT ![g].pc = "register", ![g].user = accounts[d]]
             /\ wire' = wire \cup {[user |-> accounts[d], from |-> g]}
       \/ /\ DocsOf(EmailOfCall(g)) = {} \/ May("read")
          /\ CallEnd(g)
          /\ UNCHANGED wire
    /\ UNCHANGED <<webVars, browserVars, tokens, accounts, appUsers>>

(* The register handler of the application server (the token it comes with *)
(* was made for that very id) and the way its answer comes back.  A        *)
(* request on the wire is handled even when its sender has died.           *)
Answered(from, ok) ==
    IF from = Nil THEN UNCHANGED call ELSE CallGoto(from, IF ok THEN "expiry" ELSE "undo")

Register(m) ==
    /\ m \in wire
    /\ wire' = wire \ {m}
    /\ \/ /\ ~KeyedIds \/ \A r \in appUsers : r.id # m.user.id
          /\ appUsers' = appUsers \cup {m.user}
          /\ \E ok \in IF May("lost") THEN BOOLEAN ELSE {TRUE} : Answered(m.from, ok)
       \/ /\ May("refuse") \/ (KeyedIds /\ \E r \in appUsers : r.id = m.user.id)
          /\ UNCHANGED appUsers
          /\ Answered(m.from, FALSE)
    /\ UNCHANGED <<webVars, browserVars, tokens, accounts>>

\* RemoveById deletes one document with the id, whosever it is.
RemoveById(id) ==
    LET same == {d \in Docs : accounts[d].id = id}
    IN  \/ \E d \in same : accounts' = [accounts EXCEPT ![d] = Nil]
        \/ (same = {} \/ May("undo")) /\ UNCHANGED accounts

\* Its error is ignored.
Undo(g) ==
    /\ call[g].pc = "undo"
    /\ CallEnd(g)
    /\ RemoveById(call[g].user.id)
    /\ UNCHANGED <<webVars, browserVars, tokens, wire, appUsers>>

Expiry(g) ==
    /\ call[g].pc = "expiry"
    /\ IF Unexpired(call[g].state) THEN CallGoto(g, "store") ELSE CallEnd(g)
    /\ UNCHANGED <<webVars, browserVars, tokens, userVars>>

\* The entry keeps the expiry it has now.  ModifyTokensByEmail selects by a
\* field no document has and changes nothing.
Store(g) ==
    /\ call[g].pc = "store"
    /\ CallGoto(g, "deliver")
    /\ tokens' = [tokens EXCEPT ![call[g].state].jwt = call[g].user]
    /\ UNCHANGED <<webVars, browserVars, userVars>>

\* The tokens are read back from the map and posted to the web server, whose
\* handler saves them under the cookie it is sent; the answer's status is not
\* looked at, so a save that fails looks like one that was made.
Deliver(g) ==
    /\ call[g].pc = "deliver"
    /\ CallEnd(g)
    /\ LET s == call[g].session
       IN  \/ s # Nil /\ SaveJWTTokens(s, tokens[call[g].state].jwt)
           \/ (s = Nil \/ May("web") \/ May("redis")) /\ UNCHANGED records
    /\ UNCHANGED <<owner, live, task, browserVars, tokens, userVars>>

CallStep(g) ==
    \/ Find(g) \/ Count(g) \/ Insert(g) \/ Refind(g)
    \/ \E m \in wire : m.from = g /\ Register(m)
    \/ Undo(g) \/ Expiry(g) \/ Store(g) \/ Deliver(g)

(* The process dies, of an unsynchronised write to the map if of nothing   *)
(* else: the map and the goroutines are gone.                              *)
Crash ==
    /\ May("crash")
    /\ tokens' = [s \in Sessions |-> Nil]
    /\ call' = [g \in Goroutines |-> IdleCall]
    /\ wire' = {[m EXCEPT !.from = Nil] : m \in wire}
    /\ UNCHANGED <<webVars, browserVars, accounts, appUsers>>
=============================================================================
