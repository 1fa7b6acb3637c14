----------------------------- MODULE AuthService -----------------------------
(***************************************************************************)
(* AuthService: login, logout and the rotation of refresh tokens, as       *)
(* coroutines that interleave at their awaits of PostgreSQL, Redis and the *)
(* bcrypt pool, any of which may fail.  One user; a refresh token belongs  *)
(* to the family its login began.  The rotation runs in a transaction      *)
(* whose UPDATE locks the token's row; what COMMIT did is unknown when its *)
(* answer is lost.                                                         *)
(***************************************************************************)
EXTENDS Naturals, FiniteSets

CONSTANTS Handlers,   \* coroutines: one per request being handled
          Tokens,     \* refresh tokens; each is generated once
          NoToken,
          MaxRequests \* bound: requests

AuthAssumption == NoToken \notin Tokens /\ MaxRequests \in Nat

VARIABLES
  pc, token, fresh, \* per handler: next await, the token it was sent, the one it generated
  db,               \* refresh_tokens: token -> row
  locked,           \* rows locked by a transaction: token -> handler's token, or NoToken
  given,            \* tokens in responses of successful refreshes
  known,            \* tokens clients may send
  session, mapping, \* Redis: auth:session:{uid} and session:user:{uid} exist
  blacklisted,      \* the access token last logged out is in jwt:blacklist
  requests

redisVars == <<session, mapping, blacklisted>>
vars == <<pc, token, fresh, db, locked, given, known, redisVars, requests>>

NoRow == [status |-> "none", family |-> NoToken, parent |-> NoToken, rotated |-> FALSE]
\* A family is named by the token its login stored.
Row(t, family, parent) == [status |-> "live", family |-> family, parent |-> parent, rotated |-> FALSE]
Stored == {t \in Tokens : db[t].status # "none"}

Init ==
  /\ pc = [h \in Handlers |-> "idle"] /\ token = [h \in Handlers |-> NoToken]
  /\ fresh = [h \in Handlers |-> NoToken]
  /\ db = [t \in Tokens |-> NoRow] /\ locked = [t \in Tokens |-> NoToken]
  /\ given = {} /\ known = {} /\ session = FALSE /\ mapping = FALSE
  /\ blacklisted = FALSE /\ requests = 0

Goto(h, step) == pc' = [pc EXCEPT ![h] = step]
\* send_response or send_..._error: one response, and the handler ends.
Respond(h) ==
  /\ pc' = [pc EXCEPT ![h] = "idle"] /\ token' = [token EXCEPT ![h] = NoToken]
  /\ fresh' = [fresh EXCEPT ![h] = NoToken]

Unused == Tokens \ ({fresh[h] : h \in Handlers} \cup Stored \cup known)

-----------------------------------------------------------------------------
(* A request arrives; a refresh carries any token a client ever got *)

Begin(h, step, t) ==
  /\ pc[h] = "idle" /\ requests < MaxRequests /\ requests' = requests + 1
  /\ Goto(h, step) /\ token' = [token EXCEPT ![h] = t]
  /\ UNCHANGED <<fresh, db, locked, given, known, redisVars>>

\* Bound: the model has a token left for every handler that may generate one.
TokensLast ==
  LET needs == {h \in Handlers : pc[h] \in {"user", "bcrypt", "store", "lookup", "expiry", "begin"}}
  IN Cardinality(needs) < Cardinality(Unused)

OnLogin(h) == TokensLast /\ Begin(h, "user", NoToken)
\* verify_access_token has accepted the access token; nothing happens otherwise.
OnLogout(h) == Begin(h, "blacklist", NoToken)
OnRefreshToken(h) == TokensLast /\ \E t \in known : Begin(h, "lookup", t)

-----------------------------------------------------------------------------
(* Login *)

\* The user is looked up, and the password verified on the blocking pool; an unknown or
\* locked user, a wrong password or an error ends the login.
LoginChecks(h) ==
  /\ pc[h] \in {"user", "bcrypt"}
  /\ \/ Respond(h)
     \/ /\ Goto(h, IF pc[h] = "user" THEN "bcrypt" ELSE "store")
        /\ UNCHANGED <<token, fresh>>
  /\ UNCHANGED <<db, locked, given, known, redisVars, requests>>

\* The refresh token is generated and its hash stored, in a new family.  When PostgreSQL
\* fails, the login goes on with a token that is not stored.
LoginStores(h) ==
  /\ pc[h] = "store" /\ Unused # {}
  /\ \E t \in Unused :
       /\ fresh' = [fresh EXCEPT ![h] = t] /\ Goto(h, "session")
       /\ db' \in {db, [db EXCEPT ![t] = Row(t, t, NoToken)]}
  /\ UNCHANGED <<token, locked, given, known, redisVars, requests>>

-----------------------------------------------------------------------------
(* Redis sessions: an error of Redis is logged, and the handler goes on *)

\* SessionStore: SETEX and DEL, done or not when they fail.
SetEx(key) == {key, TRUE}
Del(key) == {key, FALSE}

\* session_store_->set, then set_user_session_id, then the response with the tokens.
SetSession(h) ==
  /\ pc[h] = "session" /\ session' \in SetEx(session) /\ Goto(h, "mapping")
  /\ UNCHANGED <<token, fresh, db, locked, given, known, mapping, blacklisted, requests>>

HandOut(h) ==
  /\ known' = known \cup {fresh[h]}
  /\ given' = IF token[h] # NoToken THEN given \cup {fresh[h]} ELSE given

SetMapping(h) ==
  /\ pc[h] = "mapping" /\ mapping' \in SetEx(mapping) /\ HandOut(h) /\ Respond(h)
  /\ UNCHANGED <<db, locked, session, blacklisted, requests>>

\* Logout: blacklist the access token, remove the session, remove the mapping, answer.
BlacklistToken(h) ==
  /\ pc[h] = "blacklist" /\ blacklisted' \in SetEx(blacklisted) /\ Goto(h, "unsession")
  /\ UNCHANGED <<token, fresh, db, locked, given, known, session, mapping, requests>>

RemoveSession(h) ==
  /\ pc[h] = "unsession" /\ session' \in Del(session) /\ Goto(h, "unmapping")
  /\ UNCHANGED <<token, fresh, db, locked, given, known, mapping, blacklisted, requests>>

RemoveMapping(h) ==
  /\ pc[h] = "unmapping" /\ mapping' \in Del(mapping) /\ Respond(h)
  /\ UNCHANGED <<db, locked, given, known, session, blacklisted, requests>>

-----------------------------------------------------------------------------
(* Refresh *)

dbVars == <<db, locked, given, known, redisVars, requests>>

\* An await that failed, a token that is not there or has expired: an error response.
\* Until UPDATE the transaction holds nothing; afterwards it is rolled back.
RefreshFails(h) ==
  /\ pc[h] \in {"lookup", "expiry", "begin", "update", "insert", "email"} /\ Respond(h)
  /\ locked' = [t \in Tokens |-> IF pc[h] = "insert" /\ t = token[h] THEN NoToken ELSE locked[t]]
  /\ UNCHANGED <<db, given, known, redisVars, requests>>

\* Mutant of NextAfterLookup: reuse is told by a successor (replaced_by), not revoked_at.
NextWhenReplaced(t) == IF db[t].rotated THEN "revoke_family" ELSE "expiry"

\* A token found revoked is being used again.
NextAfterLookup(t) == IF db[t].status = "revoked" THEN "revoke_family" ELSE "expiry"

Lookup(h) ==
  /\ pc[h] = "lookup" /\ token[h] \in Stored
  /\ Goto(h, NextAfterLookup(token[h])) /\ UNCHANGED <<token, fresh, dbVars>>

\* Revoke every live token of the family (waiting for their locks), best effort.
RevokeFamily(h) ==
  LET family == {t \in Stored : db[t].family = db[token[h]].family /\ db[t].status = "live"}
  IN /\ pc[h] = "revoke_family" /\ \A t \in family : locked[t] = NoToken
     /\ db' \in {db, [t \in Tokens |->
                        IF t \in family THEN [db[t] EXCEPT !.status = "revoked"] ELSE db[t]]}
     /\ Goto(h, "unsession")
     /\ UNCHANGED <<token, fresh, locked, given, known, redisVars, requests>>

\* expires_at has not passed.
CheckExpiry(h) ==
  /\ pc[h] = "expiry" /\ Goto(h, "begin")
  /\ UNCHANGED <<token, fresh, dbVars>>

\* Generate the new token, acquire a connection, BEGIN.
BeginRotation(h) ==
  /\ pc[h] = "begin" /\ Unused # {} /\ Goto(h, "update")
  /\ \E t \in Unused : fresh' = [fresh EXCEPT ![h] = t]
  /\ UNCHANGED <<token, dbVars>>

\* UPDATE ... SET revoked_at, which waits for the row's lock and takes it.
RevokeOld(h) ==
  /\ pc[h] = "update" /\ locked[token[h]] = NoToken /\ Goto(h, "insert")
  /\ locked' = [locked EXCEPT ![token[h]] = fresh[h]]
  /\ UNCHANGED <<token, fresh, db, given, known, redisVars, requests>>

InsertNew(h) ==
  /\ pc[h] = "insert" /\ Goto(h, "commit") /\ UNCHANGED <<token, fresh, dbVars>>

Rotated(h) ==
  [db EXCEPT ![token[h]].status = "revoked", ![token[h]].rotated = TRUE,
             ![fresh[h]] = Row(fresh[h], db[token[h]].family, token[h])]

\* COMMIT: done and acknowledged, or failed with the transaction committed or not.
Commit(h) ==
  /\ pc[h] = "commit" /\ locked' = [locked EXCEPT ![token[h]] = NoToken]
  /\ \/ db' = Rotated(h) /\ Goto(h, "email") /\ UNCHANGED <<token, fresh>>
     \/ db' \in {db, Rotated(h)} /\ Respond(h)
  /\ UNCHANGED <<given, known, redisVars, requests>>

\* The user's e-mail, for the new access token.
FetchEmail(h) ==
  /\ pc[h] = "email" /\ Goto(h, "session") /\ UNCHANGED <<token, fresh, dbVars>>

Step(h) ==
  \/ LoginChecks(h) \/ LoginStores(h) \/ SetSession(h) \/ SetMapping(h)
  \/ BlacklistToken(h) \/ RemoveSession(h) \/ RemoveMapping(h)
  \/ RefreshFails(h) \/ Lookup(h) \/ RevokeFamily(h) \/ CheckExpiry(h) \/ BeginRotation(h)
  \/ RevokeOld(h) \/ InsertNew(h) \/ Commit(h) \/ FetchEmail(h)

Next ==
  \E h \in Handlers : OnLogin(h) \/ OnLogout(h) \/ OnRefreshToken(h) \/ Step(h)

\* Every await ends, with an answer or an error.
Spec == Init /\ [][Next]_vars /\ \A h \in Handlers : WF_vars(Step(h))

-----------------------------------------------------------------------------
(* Properties *)

TypeOK ==
  /\ token \in [Handlers -> Tokens \cup {NoToken}] /\ fresh \in [Handlers -> Tokens \cup {NoToken}]
  /\ locked \in [Tokens -> Tokens \cup {NoToken}] /\ known \subseteq Tokens /\ given \subseteq known
  /\ \A t \in Tokens : db[t].status \in {"none", "live", "revoked"}

\* The rotation is atomic however it ends: a token it revoked has a successor stored in
\* its family, a successor's predecessor is revoked, and a token a refresh hands out is
\* one that is stored.
RotationAtomic ==
  /\ \A t \in Stored : db[t].rotated => \E n \in Stored : db[n].parent = t
  /\ \A t \in Stored : db[t].parent # NoToken =>
       db[db[t].parent].status = "revoked" /\ db[db[t].parent].family = db[t].family
  /\ given \subseteq Stored

\* Once a family has no live token and no refresh under way in it, none of its tokens,
\* sent again, brings it back.
Dead(f) ==
  /\ f \in Stored /\ \A t \in Stored : db[t].family = f => db[t].status = "revoked"
  /\ \A h \in Handlers : token[h] # NoToken =>
       db[token[h]].family # f \/ pc[h] \in {"lookup", "revoke_family", "unsession", "unmapping"}
NoRevival == \A f \in Tokens : Dead(f) => Dead(f)'
DeadStaysDead == [][NoRevival]_vars

\* Every request is answered: no two handlers wait for each other's rows.
EveryAuthRequestEnds == \A h \in Handlers : (pc[h] # "idle") ~> (pc[h] = "idle")

\* "Revoke ALL tokens in the same family" (auth_service.cpp:386): the use of a revoked token
\* leaves no live one, even when the owner is refreshing meanwhile.
ReuseRevokesFamily ==
  \A h \in Handlers : pc[h] = "unsession" /\ token[h] # NoToken =>
    \A t \in Stored : db[t].family = db[token[h]].family => db[t].status = "revoked"
=============================================================================
