-------------------------- MODULE AuthServiceProofs --------------------------
(***************************************************************************)
(* Proofs about AuthService, for any number of handlers, tokens and        *)
(* requests: the rotation of refresh tokens is atomic however it ends, and *)
(* a token family that is dead stays dead.  And of the pool whose buffers  *)
(* bring the requests from the Kafka consumer to the handlers' coroutines. *)
(***************************************************************************)
EXTENDS AuthService, TLAPS

Steps ==
  {"idle", "user", "bcrypt", "store", "session", "mapping", "blacklist", "unsession", "unmapping",
   "lookup", "revoke_family", "expiry", "begin", "update", "insert", "commit", "email"}
Rows ==
  [status : {"none", "live", "revoked"}, family : Tokens \cup {NoToken},
   parent : Tokens \cup {NoToken}, rotated : BOOLEAN]

Types ==
  /\ pc \in [Handlers -> Steps] /\ db \in [Tokens -> Rows]
  /\ token \in [Handlers -> Tokens \cup {NoToken}] /\ fresh \in [Handlers -> Tokens \cup {NoToken}]
  /\ known \subseteq Tokens

\* What a handler holds at each step: a token found in the table stays there, a token being
\* rotated in is in nobody else's hands and not in the table before COMMIT puts it there.
Holding ==
  /\ \A h \in Handlers :
       /\ pc[h] \in {"user", "bcrypt", "store"} => token[h] = NoToken
       /\ pc[h] \in {"expiry", "begin", "update", "insert", "commit"} => token[h] \in Stored
       /\ pc[h] \in {"update", "insert", "commit"} => fresh[h] \in Tokens \ Stored
       /\ pc[h] \in {"email", "session", "mapping"} => fresh[h] \in Tokens
       /\ pc[h] \in {"email", "session", "mapping"} /\ token[h] # NoToken => fresh[h] \in Stored
  /\ \A g, h \in Handlers : g # h /\ fresh[g] # NoToken => fresh[g] # fresh[h]

AuthInv == Types /\ Holding /\ RotationAtomic

-----------------------------------------------------------------------------

LEMMA AuthInvInit ==
  ASSUME AuthAssumption, Init
  PROVE  AuthInv
<1> USE DEF Init, AuthAssumption
<1>1. Types
  BY DEF Types, Steps, Rows, NoRow
<1>2. Holding
  BY DEF Holding
<1>3. RotationAtomic
  BY DEF RotationAtomic, Stored, NoRow
<1> QED BY <1>1, <1>2, <1>3 DEF AuthInv

\* A step that leaves the table alone keeps RotationAtomic if what it hands out is stored.
LEMMA TableKept ==
  ASSUME AuthInv, UNCHANGED db, given' \subseteq Stored
  PROVE  RotationAtomic'
BY DEF AuthInv, RotationAtomic, Stored

LEMMA AuthInvStep ==
  ASSUME AuthAssumption, AuthInv, [Next]_vars
  PROVE  AuthInv'
<1>a. Types /\ Holding /\ RotationAtomic /\ NoToken \notin Tokens
  BY DEF AuthInv, AuthAssumption
<1>1. ASSUME NEW h \in Handlers, NEW step \in {"user", "blacklist", "lookup"},
             NEW t \in Tokens \cup {NoToken}, Begin(h, step, t), step = "user" => t = NoToken
      PROVE  AuthInv'
  <2>1. Types'
    BY <1>a, <1>1 DEF Types, Begin, Goto, Steps, redisVars
  <2>2. Holding'
    BY <1>a, <1>1 DEF Types, Holding, Begin, Goto, Stored, redisVars
  <2>3. RotationAtomic'
    BY <1>a, <1>1, TableKept DEF Begin, RotationAtomic, redisVars
  <2> QED BY <2>1, <2>2, <2>3 DEF AuthInv
\* Steps that only move on or answer, whatever they do to Redis and to the locks.
<1>2. ASSUME NEW h \in Handlers, UNCHANGED <<db, given, known>>,
             \/ Respond(h)
             \/ /\ UNCHANGED <<token, fresh>>
                /\ \E s \in {"bcrypt", "store", "mapping", "unsession", "unmapping", "revoke_family",
                             "expiry", "begin", "insert", "commit", "session"} :
                     /\ Goto(h, s)
                     /\ s \in {"bcrypt", "store"} => pc[h] \in {"user", "bcrypt"}
                     /\ s = "expiry" => pc[h] = "lookup" /\ token[h] \in Stored
                     /\ s = "begin" => pc[h] = "expiry"
                     /\ s = "insert" => pc[h] = "update"
                     /\ s = "commit" => pc[h] = "insert"
                     /\ s = "session" => pc[h] = "email" /\ fresh[h] \in Tokens
                     /\ s = "mapping" => pc[h] = "session"
      PROVE  AuthInv'
  <2>1. CASE Respond(h)
    <3>1. Types'
      BY <1>a, <1>2, <2>1 DEF Types, Respond, Steps
    <3>2. Holding'
      BY <1>a, <1>2, <2>1 DEF Types, Holding, Respond, Stored
    <3> QED BY <1>a, <1>2, <3>1, <3>2, TableKept DEF AuthInv, RotationAtomic
  <2>2. CASE ~Respond(h)
    <3>1. Types'
      BY <1>a, <1>2, <2>2 DEF Types, Goto, Steps
    <3>2. Holding'
      BY <1>a, <1>2, <2>2 DEF Types, Holding, Goto, Stored
    <3> QED BY <1>a, <1>2, <3>1, <3>2, TableKept DEF AuthInv, RotationAtomic
  <2> QED BY <2>1, <2>2
<1>3. ASSUME NEW h \in Handlers, LoginStores(h)
      PROVE  AuthInv'
  <2>1. PICK t \in Unused :
          /\ fresh' = [fresh EXCEPT ![h] = t] /\ Goto(h, "session")
          /\ db' \in {db, [db EXCEPT ![t] = Row(t, t, NoToken)]}
    BY <1>3, Zenon DEF LoginStores
  <2>2. t \in Tokens /\ t \notin Stored /\ \A g \in Handlers : fresh[g] # t
    BY DEF Unused
  <2>3. Types'
    <3>1. Row(t, t, NoToken) \in Rows
      BY <2>2 DEF Row, Rows
    <3>2. db' \in [Tokens -> Rows]
      BY <1>a, <2>1, <2>2, <3>1 DEF Types
    <3> QED BY <1>a, <1>3, <2>1, <2>2, <3>2 DEF Types, LoginStores, Goto, Steps
  <2>4. Stored \subseteq Stored' /\ Stored' \subseteq Stored \cup {t} /\ \A u \in Stored : db'[u] = db[u]
    BY <1>a, <2>1, <2>2 DEF Types, Stored, Row
  <2>5. Holding'
    BY <1>a, <1>3, <2>1, <2>2, <2>4 DEF Types, Holding, LoginStores, Goto
  <2>6. t \in Stored' => db'[t] = Row(t, t, NoToken)
    BY <1>a, <2>1, <2>2 DEF Types, Stored
  <2>7. \A u \in Stored : db[u].parent # NoToken => db[u].parent \in Stored
    BY <1>a DEF Types, Rows, RotationAtomic, Stored
  <2>8. RotationAtomic'
    BY <1>a, <1>3, <2>4, <2>6, <2>7 DEF RotationAtomic, Row, LoginStores
  <2> QED BY <2>3, <2>5, <2>8 DEF AuthInv
<1>4. ASSUME NEW h \in Handlers, SetMapping(h)
      PROVE  AuthInv'
  <2>1. Types'
    BY <1>a, <1>4 DEF Types, Holding, SetMapping, HandOut, Respond, Steps
  <2>2. Holding'
    BY <1>a, <1>4 DEF Types, Holding, SetMapping, Respond, Stored
  <2>3. given' \subseteq Stored
    BY <1>a, <1>4 DEF RotationAtomic, Holding, SetMapping, HandOut
  <2>4. RotationAtomic'
    BY <1>4, <2>3, TableKept DEF SetMapping
  <2> QED BY <2>1, <2>2, <2>4 DEF AuthInv
<1>5. ASSUME NEW h \in Handlers, RevokeFamily(h)
      PROVE  AuthInv'
  <2>1. Stored' = Stored /\ db' \in [Tokens -> Rows]
    BY <1>a, <1>5 DEF Types, RevokeFamily, Stored, Rows
  <2>2. \A t \in Tokens :
          /\ db'[t].family = db[t].family /\ db'[t].parent = db[t].parent
          /\ db'[t].rotated = db[t].rotated
          /\ db[t].status = "revoked" => db'[t].status = "revoked"
    BY <1>a, <1>5 DEF Types, RevokeFamily, Stored, Rows
  <2>3. Types'
    BY <1>a, <1>5, <2>1 DEF Types, RevokeFamily, Goto, Steps
  <2>4. Holding'
    BY <1>a, <1>5, <2>1 DEF Types, Holding, RevokeFamily, Goto
  <2>5. \A t \in Stored : t \in Tokens /\ db[t].parent \in Tokens \cup {NoToken}
    BY <1>a DEF Types, Stored, Rows
  <2>6. given' = given
    BY <1>5 DEF RevokeFamily
  <2>7. RotationAtomic'
    BY <1>a, <2>1, <2>2, <2>5, <2>6 DEF RotationAtomic
  <2> QED BY <2>3, <2>4, <2>7 DEF AuthInv
<1>6. ASSUME NEW h \in Handlers, BeginRotation(h)
      PROVE  AuthInv'
  <2>1. Types'
    BY <1>a, <1>6 DEF Types, BeginRotation, Unused, Goto, Steps, dbVars
  <2>2. Holding'
    BY <1>a, <1>6 DEF Types, Holding, BeginRotation, Unused, Goto, Stored, dbVars
  <2>3. RotationAtomic'
    BY <1>a, <1>6, TableKept DEF BeginRotation, RotationAtomic, dbVars
  <2> QED BY <2>1, <2>2, <2>3 DEF AuthInv
<1>7. ASSUME NEW h \in Handlers, Commit(h)
      PROVE  AuthInv'
  <2> DEFINE o == token[h]
             n == fresh[h]
  <2>1. pc[h] = "commit" /\ o \in Stored /\ n \in Tokens \ Stored /\ o \in Tokens
    BY <1>a, <1>7 DEF Commit, Holding, Stored
  <2>2. CASE db' = db
    <3>1. Respond(h) /\ UNCHANGED <<db, given, known>>
      <4>1. Rotated(h) # db
        BY <1>a, <2>1 DEF Rotated, Row, Types, Rows, Stored
      <4> QED BY <1>7, <2>2, <4>1 DEF Commit
    <3> QED BY <1>2, <3>1
  <2>3. CASE db' = Rotated(h)
    <3>1. /\ db' \in [Tokens -> Rows]
          /\ db'[o].status = "revoked" /\ db'[o].family = db[o].family /\ db'[o].parent = db[o].parent
          /\ db'[n] = Row(n, db[o].family, o)
          /\ \A t \in Tokens \ {o, n} : db'[t] = db[t]
      BY <1>a, <2>1, <2>3 DEF Rotated, Row, Types, Rows
    <3>2. Stored' = Stored \cup {n}
      BY <1>a, <2>1, <3>1 DEF Stored, Row
    <3>3. Types'
      BY <1>a, <1>7, <3>1 DEF Types, Commit, Goto, Respond, Steps
    <3>4. Holding'
      <4>1. CASE Goto(h, "email") /\ UNCHANGED <<token, fresh>>
        BY <1>a, <2>1, <3>2, <4>1 DEF Types, Holding, Goto
      <4>2. CASE Respond(h)
        BY <1>a, <2>1, <3>2, <4>2 DEF Types, Holding, Respond
      <4> QED BY <1>7, <4>1, <4>2 DEF Commit
    <3>5. \A t \in Stored' : db'[t].rotated => \E s \in Stored' : db'[s].parent = t
      <4>1. \A s \in Stored : s # n /\ s \in Tokens /\ db'[s].parent = db[s].parent
        BY <2>1, <3>1 DEF Stored
      <4>2. db'[n].parent = o /\ ~db'[n].rotated
        BY <3>1 DEF Row
      <4> QED BY <1>a, <2>1, <3>1, <3>2, <4>1, <4>2 DEF RotationAtomic
    <3>6. \A t \in Stored' : db'[t].parent # NoToken =>
            db'[db'[t].parent].status = "revoked" /\ db'[db'[t].parent].family = db'[t].family
      <4>1. \A t \in Stored : /\ t \in Tokens /\ t # n /\ db'[t].parent = db[t].parent
                              /\ db'[t].family = db[t].family
                              /\ db[t].status = "revoked" => db'[t].status = "revoked"
        BY <2>1, <3>1 DEF Stored
      <4>2. \A t \in Stored : db[t].parent # NoToken => db[t].parent \in Stored
        BY <1>a DEF Types, Rows, RotationAtomic, Stored
      <4>3. db'[n].parent = o /\ db'[n].family = db[o].family
        BY <3>1 DEF Row
      <4> QED BY <1>a, <3>1, <3>2, <4>1, <4>2, <4>3 DEF RotationAtomic
    <3>7. given' = given
      BY <1>7 DEF Commit
    <3> QED BY <1>a, <3>2, <3>3, <3>4, <3>5, <3>6, <3>7 DEF AuthInv, RotationAtomic
  <2> QED BY <1>7, <2>2, <2>3 DEF Commit
<1>8. ASSUME NEW h \in Handlers, Step(h)
      PROVE  AuthInv'
  <2>1. CASE LoginChecks(h)
    BY <1>2, <2>1 DEF LoginChecks
  <2>2. CASE SetSession(h)
    BY <1>2, <2>2 DEF SetSession
  <2>3. CASE BlacklistToken(h)
    BY <1>2, <2>3 DEF BlacklistToken
  <2>4. CASE RemoveSession(h)
    BY <1>2, <2>4 DEF RemoveSession
  <2>5. CASE RemoveMapping(h)
    BY <1>2, <2>5 DEF RemoveMapping
  <2>6. CASE RefreshFails(h)
    BY <1>2, <2>6 DEF RefreshFails
  <2>7. CASE Lookup(h)
    BY <1>2, <2>7 DEF Lookup, NextAfterLookup, dbVars
  <2>8. CASE CheckExpiry(h)
    BY <1>2, <2>8 DEF CheckExpiry, dbVars
  <2>9. CASE RevokeOld(h)
    BY <1>2, <2>9 DEF RevokeOld
  <2>10. CASE InsertNew(h)
    BY <1>2, <2>10 DEF InsertNew, dbVars
  <2>11. CASE FetchEmail(h)
    BY <1>a, <1>2, <2>11 DEF FetchEmail, Holding, dbVars
  <2> QED
    BY <1>3, <1>4, <1>5, <1>6, <1>7, <1>8, <2>1, <2>2, <2>3, <2>4, <2>5, <2>6, <2>7, <2>8, <2>9,
       <2>10, <2>11 DEF Step
<1>9. CASE UNCHANGED vars
  BY <1>a, <1>9 DEF AuthInv, Types, Holding, RotationAtomic, Stored, vars
<1> QED
  BY <1>1, <1>8, <1>9, <1>a DEF Next, OnLogin, OnLogout, OnRefreshToken, Types

\* What each handler holds, and that the rotation is atomic, hold together in every state.
THEOREM AuthInvariant ==
  ASSUME AuthAssumption
  PROVE  Spec => []AuthInv
<1>1. Init => AuthInv
  BY AuthInvInit
<1>2. AuthInv /\ [Next]_vars => AuthInv'
  BY AuthInvStep
<1> QED BY <1>1, <1>2, PTL DEF Spec

\* The rotation of a refresh token is atomic (AuthService::on_refresh_token), whatever
\* awaits fail and however the handlers interleave.
THEOREM RotationIsAtomic ==
  ASSUME AuthAssumption
  PROVE  Spec => []RotationAtomic
<1>1. AuthInv => RotationAtomic
  BY DEF AuthInv
<1> QED BY <1>1, AuthInvariant, PTL

-----------------------------------------------------------------------------

\* A dead family stays dead when a step of h keeps its rows revoked, adds no row to it, and
\* leaves h without a token of it or on the path of a reused token.
LEMMA DeadKept ==
  ASSUME Types, Types', NEW f \in Tokens, Dead(f), NEW h \in Handlers,
         \A t \in Tokens : /\ db'[t] = db[t] \/ db'[t].status = "revoked" \/ db'[t].family # f
                           /\ db'[t].family = f => db[t].family = f,
         Stored \subseteq Stored',
         \A g \in Handlers \ {h} : token'[g] = token[g] /\ pc'[g] = pc[g],
         \/ token'[h] = NoToken
         \/ pc'[h] \in {"lookup", "revoke_family", "unsession", "unmapping"}
         \/ token'[h] \in Tokens /\ db[token'[h]].family # f
  PROVE  Dead(f)'
<1>1. \A t \in Stored' : db'[t].family = f => db'[t].status = "revoked"
  BY DEF Dead, Stored, Types
<1>2. \A g \in Handlers : token'[g] # NoToken =>
        \/ db'[token'[g]].family # f
        \/ pc'[g] \in {"lookup", "revoke_family", "unsession", "unmapping"}
  BY DEF Dead, Types
<1> QED BY <1>1, <1>2 DEF Dead

LEMMA DeadStep ==
  ASSUME AuthAssumption, AuthInv, AuthInv', Next, NEW f \in Tokens, Dead(f)
  PROVE  Dead(f)'
<1>a. Types /\ Types' /\ Holding /\ NoToken \notin Tokens
  BY DEF AuthInv, AuthAssumption
\* h goes on outside the path of a reused token: its token is of another family.
<1>b. \A h \in Handlers :
        /\ token[h] \in Tokens \cup {NoToken}
        /\ pc[h] \notin {"lookup", "revoke_family", "unsession", "unmapping"} =>
             token[h] = NoToken \/ db[token[h]].family # f
  BY <1>a DEF Dead, Types
<1>1. ASSUME NEW h \in Handlers, UNCHANGED db,
             \A g \in Handlers \ {h} : token'[g] = token[g] /\ pc'[g] = pc[g],
             \/ token'[h] = NoToken
             \/ pc'[h] \in {"lookup", "revoke_family", "unsession", "unmapping"}
             \/ /\ token'[h] = token[h]
                /\ pc[h] \notin {"lookup", "revoke_family", "unsession", "unmapping"}
      PROVE  Dead(f)'
  BY <1>a, <1>b, <1>1, DeadKept DEF Stored
<1>2. ASSUME NEW h \in Handlers, LoginStores(h)
      PROVE  Dead(f)'
  <2>1. PICK t \in Unused : db' \in {db, [db EXCEPT ![t] = Row(t, t, NoToken)]}
    BY <1>2 DEF LoginStores
  <2>2. t \in Tokens \ Stored /\ t # f
    BY DEF Unused, Dead
  <2>3. CASE db' = db
    BY <1>a, <1>1, <1>2, <2>3 DEF LoginStores, Goto, Types
  <2>4. CASE db' = [db EXCEPT ![t] = Row(t, t, NoToken)]
    <3>1. /\ \A u \in Tokens : /\ db'[u] = db[u] \/ db'[u].family # f
                               /\ db'[u].family = f => db[u].family = f
          /\ Stored \subseteq Stored'
      BY <1>a, <2>2, <2>4 DEF Types, Row, Stored
    <3> QED BY <1>a, <1>b, <1>2, <3>1, DeadKept DEF LoginStores, Goto, Types
  <2> QED BY <2>1, <2>3, <2>4
<1>3. ASSUME NEW h \in Handlers, RevokeFamily(h)
      PROVE  Dead(f)'
  <2>1. /\ \A u \in Tokens : /\ db'[u] = db[u] \/ db'[u].status = "revoked"
                             /\ db'[u].family = f => db[u].family = f
        /\ Stored \subseteq Stored'
    BY <1>a, <1>3 DEF Types, Rows, Stored, RevokeFamily
  <2> QED BY <1>a, <1>3, <2>1, DeadKept DEF RevokeFamily, Goto, Types
<1>4. ASSUME NEW h \in Handlers, Commit(h)
      PROVE  Dead(f)'
  <2>1. pc[h] = "commit" /\ token[h] \in Tokens /\ fresh[h] \in Tokens \ Stored
    BY <1>a, <1>4 DEF Commit, Holding, Stored
  <2>2. db[token[h]].family # f /\ token[h] \in Stored
    BY <1>a, <1>b, <2>1 DEF Holding
  <2>3. \A g \in Handlers \ {h} : token'[g] = token[g] /\ pc'[g] = pc[g]
    BY <1>a, <1>4 DEF Types, Commit, Goto, Respond
  <2>4. token'[h] = NoToken \/ token'[h] = token[h]
    BY <1>a, <1>4 DEF Types, Commit, Goto, Respond
  <2>5. CASE db' = db
    BY <1>1, <2>1, <2>3, <2>4, <2>5
  <2>6. CASE db' = Rotated(h)
    <3>1. /\ \A u \in Tokens : /\ db'[u] = db[u] \/ db'[u].family # f
                               /\ db'[u].family = f => db[u].family = f
          /\ Stored \subseteq Stored'
      BY <1>a, <2>1, <2>2, <2>6 DEF Types, Rows, Rotated, Row, Stored
    <3> QED BY <1>a, <2>1, <2>2, <2>3, <2>4, <3>1, DeadKept
  <2> QED BY <1>4, <2>5, <2>6 DEF Commit
<1>5. ASSUME NEW h \in Handlers, Lookup(h)
      PROVE  Dead(f)'
  <2>1. token[h] \in Stored /\ token[h] \in Tokens /\ UNCHANGED <<db, token>>
    BY <1>5 DEF Lookup, Stored, dbVars
  <2>2. db[token[h]].family = f => pc'[h] = "revoke_family"
    BY <1>a, <1>5, <2>1 DEF Lookup, NextAfterLookup, Dead, Goto, Types
  <2> QED BY <1>a, <1>5, <2>1, <2>2, DeadKept DEF Lookup, Goto, Types, Stored
<1>6. ASSUME NEW h \in Handlers, NEW step, NEW t, Begin(h, step, t), t = NoToken \/ step = "lookup"
      PROVE  Dead(f)'
  BY <1>a, <1>1, <1>6 DEF Begin, Goto, Types
<1>7. ASSUME NEW h \in Handlers,
             SetMapping(h) \/ RemoveMapping(h) \/ RefreshFails(h)
      PROVE  Dead(f)'
  BY <1>a, <1>1, <1>7 DEF SetMapping, RemoveMapping, RefreshFails, Respond, Types
<1>8. ASSUME NEW h \in Handlers, LoginChecks(h)
      PROVE  Dead(f)'
  BY <1>a, <1>1, <1>8 DEF LoginChecks, Respond, Goto, Types
<1>9. ASSUME NEW h \in Handlers, SetSession(h) \/ BlacklistToken(h) \/ RemoveSession(h)
      PROVE  Dead(f)'
  BY <1>a, <1>1, <1>9 DEF SetSession, BlacklistToken, RemoveSession, Goto, Types
<1>10. ASSUME NEW h \in Handlers,
              CheckExpiry(h) \/ BeginRotation(h) \/ RevokeOld(h) \/ InsertNew(h) \/ FetchEmail(h)
       PROVE  Dead(f)'
  BY <1>a, <1>1, <1>10 DEF CheckExpiry, BeginRotation, RevokeOld, InsertNew, FetchEmail, Goto, Types, dbVars
<1> QED
  BY <1>2, <1>3, <1>4, <1>5, <1>6, <1>7, <1>8, <1>9, <1>10
     DEF Next, Step, OnLogin, OnLogout, OnRefreshToken

\* No step brings a dead token family back (the reuse check of on_refresh_token): sending
\* any of its tokens again leads only to revocation.
THEOREM FamiliesStayDead ==
  ASSUME AuthAssumption
  PROVE  Spec => DeadStaysDead
<1>1. AuthInv /\ AuthInv' /\ [Next]_vars => [NoRevival]_vars
  BY DeadStep DEF NoRevival
<1> QED BY <1>1, AuthInvariant, PTL DEF Spec, DeadStaysDead

-----------------------------------------------------------------------------
(* The buffers of the requests.  PayloadBounded is inductive as it stands. *)

CONSTANTS InitialCount, MaxCount
VARIABLES free_list, in_use, total_created

Pool == INSTANCE PayloadPool

\* A burst of payloads beyond max_count leaves nothing behind (ConsumerPayloadPool::acquire
\* and release): the free list and both counts stay within the limit.
THEOREM PayloadsBounded ==
  ASSUME Pool!PayloadAssumption
  PROVE  Pool!Spec => []Pool!PayloadBounded
<1> USE DEF Pool!PayloadAssumption, Pool!PayloadBounded
<1>1. Pool!Init => Pool!PayloadBounded
  BY DEF Pool!Init
<1>2. Pool!PayloadBounded /\ [Pool!Next]_Pool!payloadVars => Pool!PayloadBounded'
  <2> SUFFICES ASSUME Pool!PayloadBounded, [Pool!Next]_Pool!payloadVars
               PROVE  Pool!PayloadBounded'
    OBVIOUS
  <2>1. CASE Pool!Acquire
    BY <2>1 DEF Pool!Acquire
  <2>2. CASE Pool!Release
    BY <2>2 DEF Pool!Release, Pool!Fits
  <2>3. CASE UNCHANGED Pool!payloadVars
    BY <2>3 DEF Pool!payloadVars
  <2> QED BY <2>1, <2>2, <2>3 DEF Pool!Next
<1> QED BY <1>1, <1>2, PTL DEF Pool!Spec
=============================================================================
