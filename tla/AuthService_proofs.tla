------------------------- MODULE AuthService_proofs -------------------------
(***************************************************************************)
(* AuthInv is an invariant of AuthService, for any number of accounts,     *)
(* emails, Google identities, requests in flight and failures; the safety  *)
(* properties of AuthService follow from it, and so does the refinement of *)
(* AccessDirectory.                                                        *)
(***************************************************************************)
EXTENDS AuthService, TLAPS

(* The part of the invariant that speaks of the tables alone.              *)
TablesOK ==
    /\ StoreTypeOK
    /\ EmailsCanonical
    /\ UniqueKeys
    /\ CredentialsMatchProvider

(* The part that speaks of the requests.                                   *)
RequestsOK ==
    /\ req \in [Request -> RequestState]
    /\ IdsOK
    /\ \A r \in Request : ControlOK(req[r]) /\ MemoryOK(req[r])

(* The invariant splits into the tables, the requests and the response.    *)
LEMMA Parts == AuthInv <=> TablesOK /\ RequestsOK /\ answer \in Response
BY DEF AuthInv, TablesOK, RequestsOK, AuthTypeOK

-----------------------------------------------------------------------------
(* Initially.                                                              *)

(* AuthInv holds when the service starts, on a database that may hold      *)
(* accounts older than migration 0003.                                     *)
THEOREM InvInit == AuthInit => AuthInv
<1> SUFFICES ASSUME AuthInit PROVE AuthInv
  OBVIOUS
<1> USE EmailAssumption, IdentityAssumption, PasswordAssumption,
        FaultAssumption
<1>1. PICK L \in SUBSET LegacyId : \E e \in [L -> ValidEmail] :
          /\ \A u, v \in L : e[u] = e[v] => u = v
          /\ users = [u \in L |-> LegacyRow(e[u])]
          /\ usedIds = L
  BY DEF AuthInit, StoreInit
<1>2. PICK e \in [L -> ValidEmail] :
          /\ \A u, v \in L : e[u] = e[v] => u = v
          /\ users = [u \in L |-> LegacyRow(e[u])]
          /\ usedIds = L
  BY <1>1
<1>3. StoreTypeOK
  BY <1>2 DEF AuthInit, StoreInit, StoreTypeOK, IsTable, LegacyRow, UserRow,
              Providers
<1>4. EmailsCanonical /\ UniqueKeys
  BY <1>2 DEF EmailsCanonical, UniqueKeys, LegacyRow
<1>5. CredentialsMatchProvider
  BY <1>2 DEF AuthInit, StoreInit, CredentialsMatchProvider, LegacyRow
<1>6. RequestsOK
  BY <1>2 DEF AuthInit, StoreInit, RequestsOK, RequestState, Name, Idle, Op, Call,
              IdsOK, ControlOK, MemoryOK, Creating
<1>7. answer \in Response
  BY DEF AuthInit, NoAnswer, Response, Op, Code
<1> QED
  BY <1>3, <1>4, <1>5, <1>6, <1>7, Parts DEF TablesOK

-----------------------------------------------------------------------------
(* Writes keep the tables consistent.                                      *)

(* A step that writes no table keeps them consistent.                      *)
LEMMA TablesUnchanged ==
    ASSUME TablesOK, UNCHANGED tables, usedIds' \subseteq UserId \cup TokenId,
           sessions' \subseteq UserId, faults' \in 0 .. MaxFaults
    PROVE  TablesOK'
BY DEF TablesOK, tables, StoreTypeOK, EmailsCanonical, UniqueKeys,
       CredentialsMatchProvider

(* INSERT INTO users, when it violates no unique index, together with the  *)
(* credential of an account of password origin.                            *)
LEMMA InsertKeepsTables ==
    ASSUME TablesOK, NEW i \in UserId, NEW row \in UserRow,
           i \notin DOMAIN users, row.email \in ValidEmail,
           Violated(row) = {},
           users' = InsertRow(users, i, row),
           \/ row.provider = "google" /\ UNCHANGED creds
           \/ /\ row.provider = "password"
              /\ \E p \in Password : creds' = InsertRow(creds, i, p),
           UNCHANGED <<tokens, usedIds, sessions>>, faults' \in 0 .. MaxFaults
    PROVE  TablesOK'
<1> USE EmailAssumption
<1>1. /\ DOMAIN users' = DOMAIN users \cup {i}
      /\ \A u \in DOMAIN users : users'[u] = users[u]
      /\ users'[i] = row
  BY DEF InsertRow
<1>2. StoreTypeOK'
  <2>1. IsTable(users, UserId, UserRow)'
    BY <1>1 DEF InsertRow, IsTable, TablesOK, StoreTypeOK
  <2>2. IsTable(creds, UserId, Password)'
    BY DEF InsertRow, IsTable, TablesOK, StoreTypeOK
  <2> QED
    BY <2>1, <2>2 DEF TablesOK, StoreTypeOK
<1>3. EmailsCanonical'
  BY <1>1 DEF EmailsCanonical, TablesOK
<1>4. UniqueKeys'
  <2>1. \A u \in DOMAIN users :
           /\ Lower[users[u].email] # Lower[row.email]
           /\ users[u].sub = NoSub \/ users[u].sub # row.sub
    BY DEF Violated
  <2> QED
    BY <1>1, <2>1 DEF UniqueKeys, TablesOK
<1>5. CredentialsMatchProvider'
  <2>1. CASE row.provider = "google"
    BY <1>1, <2>1 DEF CredentialsMatchProvider, TablesOK
  <2>2. CASE row.provider = "password"
    BY <1>1, <2>2 DEF CredentialsMatchProvider, TablesOK, InsertRow
  <2> QED
    BY <2>1, <2>2 DEF UserRow, Providers
<1> QED
  BY <1>2, <1>3, <1>4, <1>5 DEF TablesOK

(* UPDATE users SET google_sub, to NULL or to an identity that no other    *)
(* account holds.                                                          *)
LEMMA SetSubKeepsTables ==
    ASSUME TablesOK, NEW u \in DOMAIN users, NEW s \in Sub \cup {NoSub},
           SetSub(u, s), s = NoSub \/ ~ SubTaken(u, s),
           UNCHANGED <<creds, tokens, usedIds, sessions>>,
           faults' \in 0 .. MaxFaults
    PROVE  TablesOK'
<1>1. /\ DOMAIN users' = DOMAIN users
      /\ \A v \in DOMAIN users : v # u => users'[v] = users[v]
      /\ users'[u] = [users[u] EXCEPT !.sub = s]
  BY DEF SetSub, TablesOK, StoreTypeOK, IsTable
<1>2. users[u] \in UserRow /\ users'[u] \in UserRow
  BY <1>1 DEF TablesOK, StoreTypeOK, IsTable, UserRow
<1>3. /\ users'[u].email = users[u].email
      /\ users'[u].provider = users[u].provider
      /\ users'[u].sub = s
  BY <1>1, <1>2 DEF UserRow
<1>4. StoreTypeOK'
  BY <1>1, <1>2 DEF TablesOK, StoreTypeOK, IsTable, SetSub
<1>5. EmailsCanonical'
  BY <1>1, <1>3 DEF EmailsCanonical, TablesOK
<1>6. UniqueKeys'
  <2> SUFFICES ASSUME NEW v \in DOMAIN users, NEW w \in DOMAIN users, v # w
               PROVE  /\ Lower[users'[v].email] # Lower[users'[w].email]
                      /\ \/ users'[v].sub = NoSub
                         \/ users'[v].sub # users'[w].sub
    BY <1>1 DEF UniqueKeys
  <2>1. /\ Lower[users[v].email] # Lower[users[w].email]
        /\ users[v].sub = NoSub \/ users[v].sub # users[w].sub
        /\ users[w].sub = NoSub \/ users[v].sub # users[w].sub
    BY DEF UniqueKeys, TablesOK
  <2>2. users'[v].email = users[v].email /\ users'[w].email = users[w].email
    BY <1>1, <1>3
  <2>3. s = NoSub \/ \A x \in DOMAIN users \ {u} : users[x].sub # s
    BY DEF SubTaken
  <2>4. CASE v = u
    <3>1. users'[v].sub = s /\ users'[w].sub = users[w].sub
      BY <1>1, <1>3, <2>4
    <3>2. w \in DOMAIN users \ {u}
      BY <2>4
    <3>3. s = NoSub \/ users[w].sub # s
      BY <2>3, <3>2
    <3> QED
      BY <2>1, <2>2, <3>1, <3>3
  <2>5. CASE w = u
    <3>1. users'[w].sub = s /\ users'[v].sub = users[v].sub
      BY <1>1, <1>3, <2>5
    <3>2. v \in DOMAIN users \ {u}
      BY <2>5
    <3>3. s = NoSub \/ users[v].sub # s
      BY <2>3, <3>2
    <3> QED
      BY <2>1, <2>2, <3>1, <3>3
  <2>6. CASE v # u /\ w # u
    BY <1>1, <2>1, <2>6
  <2> QED
    BY <2>4, <2>5, <2>6
<1>7. CredentialsMatchProvider'
  BY <1>1, <1>3 DEF CredentialsMatchProvider, TablesOK
<1> QED
  BY <1>4, <1>5, <1>6, <1>7 DEF TablesOK

(* DELETE FROM users, which takes the credential and the tokens along.     *)
LEMMA DeleteKeepsTables ==
    ASSUME TablesOK, NEW u \in DOMAIN users, DeleteUser(u),
           UNCHANGED <<usedIds, sessions>>, faults' \in 0 .. MaxFaults
    PROVE  TablesOK'
<1>1. /\ DOMAIN users' = DOMAIN users \ {u}
      /\ \A v \in DOMAIN users' : users'[v] = users[v]
  BY DEF DeleteUser, DeleteRows
<1>2. StoreTypeOK'
  BY DEF TablesOK, StoreTypeOK, IsTable, DeleteUser, DeleteRows
<1>3. EmailsCanonical' /\ UniqueKeys'
  BY <1>1 DEF EmailsCanonical, UniqueKeys, TablesOK
<1>4. CredentialsMatchProvider'
  BY <1>1 DEF CredentialsMatchProvider, TablesOK, DeleteUser, DeleteRows
<1> QED
  BY <1>2, <1>3, <1>4 DEF TablesOK

-----------------------------------------------------------------------------
(* A step of one request keeps what the others rely on.                    *)

(* When request r goes on with memory q, the others still own the ids they *)
(* are about to insert, and what they remember of accounts holds.          *)
LEMMA StepKeepsRequests ==
    ASSUME AuthInv, NEW r \in Request, NEW q \in RequestState,
           req' = [req EXCEPT ![r] = q],
           usedIds \subseteq usedIds',
           DOMAIN users' \cup sessions' \subseteq usedIds',
           \A u \in DOMAIN users' \ DOMAIN users :
               Creating(req[r]) /\ u = req[r].uid,
           sessions' \subseteq sessions \cup {req[r].uid},
           \A u \in DOMAIN users \cap DOMAIN users' :
               /\ users'[u].email = users[u].email
               /\ users'[u].provider = users[u].provider
               /\ u \in DOMAIN creds => u \in DOMAIN creds',
           ControlOK(q), MemoryOK(q)',
           q.uid \in usedIds' \cup {NoUser},
           \/ q.uid \in {req[r].uid, NoUser} \cup DOMAIN users \cup sessions
           \/ q.uid \in UserId \ usedIds,
           Creating(q) => q.uid \in UserId \ usedIds
    PROVE  RequestsOK'
<1> USE IdentityAssumption
<1>1. /\ req'[r] = q
      /\ \A s \in Request : s # r => req'[s] = req[s]
      /\ req' \in [Request -> RequestState]
  BY DEF AuthInv, AuthTypeOK
<1>2. IdsOK
  BY DEF AuthInv
<1>3. IdsOK'
  <2>1. ASSUME NEW s \in Request
        PROVE  req'[s].uid \in usedIds' \cup {NoUser}
    BY <1>1, <1>2 DEF IdsOK
  <2>2. ASSUME NEW s \in Request, Creating(req'[s])
        PROVE  /\ req'[s].uid \notin DOMAIN users' \cup sessions'
               /\ \A x \in Request : req'[x].uid = req'[s].uid => x = s
    <3>1. CASE s = r
      <4>1. q.uid \in UserId \ usedIds
        BY <1>1, <2>2, <3>1
      <4>2. DOMAIN users \cup sessions \subseteq usedIds
        BY <1>2 DEF IdsOK
      <4>3. req[r].uid # q.uid
        BY <1>2, <4>1 DEF IdsOK
      <4>4. \A x \in Request : req[x].uid # q.uid
        BY <1>2, <4>1 DEF IdsOK
      <4> QED
        BY <1>1, <3>1, <4>1, <4>2, <4>3, <4>4
    <3>2. CASE s # r
      <4>1. /\ Creating(req[s])
            /\ req'[s].uid = req[s].uid
        BY <1>1, <2>2, <3>2
      <4>2. /\ req[s].uid \notin DOMAIN users \cup sessions
            /\ \A x \in Request : req[x].uid = req[s].uid => x = s
            /\ req[s].uid \in usedIds \cup {NoUser}
        BY <1>2, <4>1 DEF IdsOK
      <4>3. req[r].uid # req[s].uid
        BY <3>2, <4>2
      <4>4. ControlOK(req[s])
        BY DEF AuthInv
      <4>5. req[s].uid \in UserId
        BY <4>1, <4>4 DEF ControlOK, Creating
      <4>6. q.uid # req[s].uid
        BY <4>2, <4>3, <4>5
      <4> QED
        BY <1>1, <3>2, <4>1, <4>2, <4>3, <4>6
    <3> QED
      BY <3>1, <3>2
  <2> QED
    BY <2>1, <2>2 DEF IdsOK
<1>4. ASSUME NEW s \in Request
      PROVE  ControlOK(req'[s]) /\ MemoryOK(req[s])'
  <2>1. CASE s = r
    BY <1>1, <2>1 DEF MemoryOK
  <2>2. CASE s # r
    <3>1. req'[s] = req[s] /\ ControlOK(req[s]) /\ MemoryOK(req[s])
      BY <1>1, <2>2 DEF AuthInv
    <3>2. req[s].uid \in DOMAIN users' => req[s].uid \in DOMAIN users
      BY <1>2, <2>2 DEF IdsOK
    <3> QED
      BY <3>1, <3>2 DEF MemoryOK
  <2> QED
    BY <2>1, <2>2
<1> QED
  BY <1>1, <1>3, <1>4 DEF RequestsOK

(* A step that writes nothing but what one request remembers.              *)
LEMMA QuietStep ==
    ASSUME AuthInv, NEW r \in Request, NEW q \in RequestState,
           req' = [req EXCEPT ![r] = q], answer' \in Response,
           UNCHANGED <<tables, sessions>>, faults' \in 0 .. MaxFaults,
           usedIds \subseteq usedIds', usedIds' \subseteq UserId \cup TokenId,
           ControlOK(q), MemoryOK(q),
           q.uid \in usedIds' \cup {NoUser},
           \/ q.uid \in {req[r].uid, NoUser} \cup DOMAIN users \cup sessions
           \/ q.uid \in UserId \ usedIds,
           Creating(q) => q.uid \in UserId \ usedIds
    PROVE  AuthInv'
<1>1. TablesOK'
  BY TablesUnchanged, Parts DEF TablesOK, StoreTypeOK, tables
<1>2. RequestsOK'
  <2>1. DOMAIN users' \cup sessions' \subseteq usedIds'
    BY DEF AuthInv, IdsOK, tables
  <2>2. MemoryOK(q)'
    BY DEF MemoryOK, tables
  <2> QED
    BY StepKeepsRequests, <2>1, <2>2 DEF tables
<1> QED
  BY <1>1, <1>2, Parts DEF AuthInv, TablesOK, RequestsOK, AuthTypeOK

(* Once answered, a request remembers nothing.                             *)
LEMMA IdleOK ==
    /\ Idle \in RequestState
    /\ Idle.uid = NoUser
    /\ ~ Creating(Idle)
    /\ AuthInv => ControlOK(Idle)
    /\ StoreTypeOK => MemoryOK(Idle)
BY IdentityAssumption DEF Idle, RequestState, Name, Op, Call, Creating, ControlOK,
   MemoryOK, StoreTypeOK, IsTable

(* What a handler answers is a response.                                   *)
LEMMA AnswerTyped ==
    ASSUME NEW r, NEW op \in Op, NEW code \in Code, NEW linked \in BOOLEAN
    PROVE  /\ Answer(r, op, code, linked)
                => req' = [req EXCEPT ![r] = Idle] /\ answer' \in Response
           /\ \A email, name : linked = FALSE /\ FailsOn(r, op, code, email, name)
                => req' = [req EXCEPT ![r] = Idle] /\ answer' \in Response
<1>1. \A email, name : HasNul(email, name) \in BOOLEAN
  BY DEF HasNul
<1>2. ASSUME NEW nul \in BOOLEAN, AnswerTo(r, op, code, linked, nul)
      PROVE  req' = [req EXCEPT ![r] = Idle] /\ answer' \in Response
  BY <1>2 DEF AnswerTo, Response
<1> QED
  BY <1>1, <1>2 DEF Answer, FailsOn

(* A handler that answers and writes nothing keeps the invariant.          *)
LEMMA AnswerOK ==
    ASSUME AuthInv, NEW r \in Request, NEW op \in Op, NEW code \in Code,
           NEW linked \in BOOLEAN,
           \/ Answer(r, op, code, linked)
           \/ \E email, name : FailsOn(r, op, code, email, name),
           UNCHANGED <<tables, usedIds, sessions>>, faults' \in 0 .. MaxFaults
    PROVE  AuthInv'
<1>1. req' = [req EXCEPT ![r] = Idle] /\ answer' \in Response
  <2>1. FALSE \in BOOLEAN
    OBVIOUS
  <2> QED
    BY <2>1, AnswerTyped
<1>2. usedIds' \subseteq UserId \cup TokenId /\ StoreTypeOK
  BY DEF AuthInv, AuthTypeOK, StoreTypeOK
<1> QED
  BY <1>1, <1>2, IdleOK, QuietStep

-----------------------------------------------------------------------------
(* Each action keeps the invariant.                                        *)

(* The steps that only answer: refusals, failures, and GET /account.       *)
LEMMA RefusalsKeep ==
    ASSUME AuthInv, NEW r \in Request,
           \/ RegisterRefused(r) \/ GoogleRefused(r) \/ LinkRefused(r)
           \/ Me(r) \/ FirstCallFails(r) \/ CallFails(r)
    PROVE  AuthInv'
<1>1. faults \in 0 .. MaxFaults /\ req[r].op \in Op
  BY DEF AuthInv, AuthTypeOK, StoreTypeOK, RequestState
<1>2. CASE RegisterRefused(r)
  <2>1. \E code \in {"validation_failed", "internal_error"},
             e \in RawEmail, name \in Name :
            FailsOn(r, "register", code, e, name)
    BY <1>2 DEF RegisterRefused
  <2> PICK code \in {"validation_failed", "internal_error"},
             e \in RawEmail, name \in Name :
            FailsOn(r, "register", code, e, name)
    BY <2>1
  <2>2. /\ UNCHANGED <<tables, usedIds, sessions, faults>>
        /\ code \in Code /\ "register" \in Op /\ FALSE \in BOOLEAN
    BY <1>2 DEF RegisterRefused, Code, ErrorCode, CodecCode, Op
  <2> QED
    BY <1>1, <2>2, AnswerOK
<1> USE FaultAssumption, <1>1 DEF Fails, Code, ErrorCode, CodecCode, Op
<1>3. CASE GoogleRefused(r)
  BY <1>3, AnswerOK DEF GoogleRefused
<1>4. CASE LinkRefused(r)
  BY <1>4, AnswerOK DEF LinkRefused
<1>5. CASE Me(r)
  <2>1. PICK u \in sessions :
            IF u \in DOMAIN users
            THEN Answer(r, "me", "ok", users[u].sub # NoSub)
            ELSE Fails(r, "me", "user_not_found")
    BY <1>5 DEF Me
  <2>2. (users[u].sub # NoSub) \in BOOLEAN
    OBVIOUS
  <2>3. UNCHANGED <<tables, usedIds, sessions, faults>>
    BY <1>5 DEF Me
  <2>4. CASE u \in DOMAIN users
    BY <2>1, <2>2, <2>3, <2>4, AnswerOK
  <2>5. CASE u \notin DOMAIN users
    BY <2>1, <2>3, <2>5, AnswerOK
  <2> QED
    BY <2>4, <2>5
<1>6. CASE FirstCallFails(r)
  <2>1. PICK op \in Op : Fails(r, op, "internal_error")
    BY <1>6 DEF FirstCallFails
  <2>2. faults' \in 0 .. MaxFaults /\ UNCHANGED <<tables, usedIds, sessions>>
    BY <1>6 DEF FirstCallFails
  <2> QED
    BY <2>1, <2>2, AnswerOK
<1>7. CASE CallFails(r)
  <2>1. faults' \in 0 .. MaxFaults /\ UNCHANGED <<tables, usedIds, sessions>>
    BY <1>7 DEF CallFails
  <2>2. PICK code \in Code : Fails(r, req[r].op, code)
    BY <1>7 DEF CallFails
  <2> QED
    BY <2>1, <2>2, AnswerOK
<1> QED
  BY <1>2, <1>3, <1>4, <1>5, <1>6, <1>7

(* Register up to its INSERT.                                              *)
LEMMA RegisterStartKeeps ==
    ASSUME AuthInv, NEW r \in Request, RegisterStart(r)
    PROVE  AuthInv'
<1>1. PICK e \in RawEmail, name \in Name, p \in Password, i \in UserId :
          /\ NewUserOK(e, name) /\ NewID(i)
          /\ usedIds' = usedIds \cup {i}
          /\ Continue(r, [Idle EXCEPT !.op = "register", !.uid = i,
                                      !.call = "CreateWithPassword",
                                      !.email = Lower[e], !.name = name,
                                      !.pw = p])
  BY DEF RegisterStart
<1>2. PICK q : q = [Idle EXCEPT !.op = "register", !.uid = i,
                                !.call = "CreateWithPassword",
                                !.email = Lower[e], !.name = name, !.pw = p]
  OBVIOUS
<1>3. /\ q \in RequestState
      /\ q.uid = i /\ q.call = "CreateWithPassword"
      /\ ControlOK(q) /\ MemoryOK(q)
  BY <1>1, <1>2, EmailAssumption
     DEF Idle, RequestState, Name, Op, Call, NewUserOK, ControlOK, MemoryOK
<1>4. /\ req' = [req EXCEPT ![r] = q] /\ answer' \in Response
  BY <1>1, <1>2 DEF Continue, NoAnswer, Response, Op, Code
<1>5. /\ UNCHANGED <<tables, sessions>> /\ faults' \in 0 .. MaxFaults
      /\ usedIds \subseteq usedIds' /\ usedIds' \subseteq UserId \cup TokenId
      /\ i \in usedIds' /\ i \notin usedIds
  BY <1>1 DEF RegisterStart, NewID, AuthInv, AuthTypeOK, StoreTypeOK
<1> QED
  BY <1>3, <1>4, <1>5, QuietStep

(* Both steps of Login: the account is looked up, then its credential.     *)
LEMMA LoginKeeps ==
    ASSUME AuthInv, NEW r \in Request,
           LoginFindByEmail(r) \/ LoginGetPasswordHash(r)
    PROVE  AuthInv'
<1>1. /\ faults \in 0 .. MaxFaults /\ usedIds \subseteq UserId \cup TokenId
      /\ DOMAIN users \subseteq usedIds /\ DOMAIN users \subseteq UserId
      /\ req[r] \in RequestState /\ ControlOK(req[r]) /\ IdsOK
  BY DEF AuthInv, AuthTypeOK, StoreTypeOK, IdsOK, IsTable
<1>2. CASE LoginFindByEmail(r)
  <2>1. PICK e \in RawEmail, p \in Password :
          \/ \E code \in {"internal_error", "invalid_credential"} :
                FailsOn(r, "login", code, e, "blank")
          \/ \E u \in UserByEmail(Lower[e]) :
                Continue(r, [Idle EXCEPT !.op = "login", !.uid = u, !.pw = p,
                                         !.call = "GetPasswordHash",
                                         !.email = Lower[e],
                                         !.linked = users[u].sub # NoSub])
    BY <1>2 DEF LoginFindByEmail
  <2>2. UNCHANGED <<tables, usedIds, sessions, faults>>
    BY <1>2 DEF LoginFindByEmail
  <2>3. ASSUME NEW code \in {"internal_error", "invalid_credential"},
               FailsOn(r, "login", code, e, "blank")
        PROVE  AuthInv'
    <3>1. code \in Code /\ "login" \in Op /\ FALSE \in BOOLEAN
      BY DEF Op, Code, ErrorCode
    <3> QED
      BY <1>1, <2>2, <2>3, <3>1, AnswerOK
  <2>4. ASSUME NEW u \in UserByEmail(Lower[e]),
               Continue(r, [Idle EXCEPT !.op = "login", !.uid = u, !.pw = p,
                                        !.call = "GetPasswordHash",
                                        !.email = Lower[e],
                                        !.linked = users[u].sub # NoSub])
        PROVE  AuthInv'
    <3>1. PICK q : q = [Idle EXCEPT !.op = "login", !.uid = u, !.pw = p,
                                    !.call = "GetPasswordHash",
                                    !.email = Lower[e],
                                    !.linked = users[u].sub # NoSub]
      OBVIOUS
    <3>2. u \in DOMAIN users /\ Lower[users[u].email] = Lower[Lower[e]]
      BY DEF UserByEmail
    <3>3. users[u].email = Lower[e]
      BY <3>2, EmailAssumption DEF AuthInv, EmailsCanonical
    <3>4. /\ q \in RequestState
          /\ q.uid = u /\ q.call = "GetPasswordHash"
          /\ ControlOK(q) /\ MemoryOK(q)
      <4>1. (users[u].sub # NoSub) \in BOOLEAN /\ Lower[e] \in RawEmail
        BY EmailAssumption
      <4>2. /\ q \in RequestState
            /\ q.uid = u /\ q.call = "GetPasswordHash" /\ q.op = "login"
            /\ q.email = Lower[e] /\ q.pw = p
        <5>1. Idle \in RequestState /\ u \in UserId
          BY <1>1, <3>2, IdleOK
        <5> QED
          BY <3>1, <4>1, <5>1 DEF RequestState, Op, Call
      <4> QED
        BY <1>1, <3>2, <3>3, <4>2 DEF ControlOK, MemoryOK
    <3>5. req' = [req EXCEPT ![r] = q] /\ answer' \in Response
      BY <2>4, <3>1 DEF Continue, NoAnswer, Response, Op, Code
    <3> QED
      BY <1>1, <2>2, <3>2, <3>4, <3>5, QuietStep DEF Creating
  <2> QED
    BY <2>1, <2>3, <2>4
<1>3. CASE LoginGetPasswordHash(r)
  <2>1. UNCHANGED <<tables, usedIds, sessions, faults>>
    BY <1>3 DEF LoginGetPasswordHash
  <2>2. CASE Fails(r, "login", "invalid_credential")
    BY <1>1, <2>1, <2>2, AnswerOK DEF Fails, Op, Code, ErrorCode
  <2>3. CASE GoIssue(r, req[r].uid, req[r].linked)
    <3>1. PICK q : q = [req[r] EXCEPT !.call = "Issue", !.uid = req[r].uid,
                                      !.linked = req[r].linked,
                                      !.name = "blank"]
      OBVIOUS
    <3>2. /\ q \in RequestState
          /\ q.uid = req[r].uid /\ q.call = "Issue"
          /\ ControlOK(q) /\ MemoryOK(q)
      BY <1>1, <1>3, <3>1
         DEF LoginGetPasswordHash, RequestState, Name, Op, Call, ControlOK, MemoryOK
    <3>3. req' = [req EXCEPT ![r] = q] /\ answer' \in Response
      BY <2>3, <3>1 DEF GoIssue, Continue, NoAnswer, Response, Op, Code
    <3>4. q.uid \in usedIds' \cup {NoUser}
      BY <1>1, <2>1, <3>2 DEF IdsOK
    <3> QED
      BY <1>1, <2>1, <3>2, <3>3, <3>4, QuietStep DEF Creating
  <2> QED
    BY <1>3, <2>2, <2>3 DEF LoginGetPasswordHash
<1> QED
  BY <1>2, <1>3

(* A write is followed by the answer or by the token of the same account.  *)
LEMMA WriteStep ==
    ASSUME AuthInv, TablesOK', NEW r \in Request,
           \/ \E op \in Op, code \in Code, linked \in BOOLEAN :
                 Answer(r, op, code, linked)
           \/ /\ req[r].op \in {"register", "login", "google"}
              /\ req[r].uid \in UserId
              /\ \E linked \in BOOLEAN : GoIssue(r, req[r].uid, linked),
           UNCHANGED <<usedIds, sessions>>,
           DOMAIN users' \subseteq usedIds,
           \A u \in DOMAIN users' \ DOMAIN users :
               Creating(req[r]) /\ u = req[r].uid,
           \A u \in DOMAIN users \cap DOMAIN users' :
               /\ users'[u].email = users[u].email
               /\ users'[u].provider = users[u].provider
               /\ u \in DOMAIN creds => u \in DOMAIN creds'
    PROVE  AuthInv'
<1>1. /\ DOMAIN users' \cup sessions' \subseteq usedIds'
      /\ req[r].uid \in usedIds \cup {NoUser}
      /\ usedIds \subseteq usedIds' /\ sessions' \subseteq sessions
  BY DEF AuthInv, IdsOK
<1>2. CASE \E op \in Op, code \in Code, linked \in BOOLEAN :
              Answer(r, op, code, linked)
  <2>1. req' = [req EXCEPT ![r] = Idle] /\ answer' \in Response
    BY <1>2, AnswerTyped
  <2>2. /\ Idle \in RequestState /\ ControlOK(Idle) /\ ~ Creating(Idle)
        /\ Idle.uid = NoUser
    BY IdleOK
  <2>3. MemoryOK(Idle)'
    BY DEF MemoryOK, Idle
  <2>4. RequestsOK'
    BY <1>1, <2>1, <2>2, <2>3, StepKeepsRequests
  <2> QED
    BY <2>1, <2>4 DEF AuthInv, TablesOK, RequestsOK, AuthTypeOK
<1>3. CASE /\ req[r].op \in {"register", "login", "google"}
           /\ req[r].uid \in UserId
           /\ \E linked \in BOOLEAN : GoIssue(r, req[r].uid, linked)
  <2>1. PICK linked \in BOOLEAN : GoIssue(r, req[r].uid, linked)
    BY <1>3
  <2> PICK id \in UserId : id = req[r].uid
    BY <1>3
  <2> PICK q : q = [req[r] EXCEPT !.call = "Issue", !.uid = id,
                                  !.linked = linked, !.name = "blank"]
    OBVIOUS
  <2>2. /\ q \in RequestState /\ q.uid = id /\ q.call = "Issue"
        /\ ControlOK(q) /\ ~ Creating(q)
    <3>1. req[r] \in RequestState
      BY DEF AuthInv, AuthTypeOK
    <3>2. /\ q \in RequestState /\ q.uid = id /\ q.call = "Issue"
          /\ q.op = req[r].op
      BY <3>1 DEF RequestState, Name, Call
    <3> QED
      BY <1>3, <3>2 DEF ControlOK, Creating
  <2>3. req' = [req EXCEPT ![r] = q] /\ answer' \in Response
    BY <2>1 DEF GoIssue, Continue, NoAnswer, Response, Op, Code
  <2>4. MemoryOK(q)'
    BY <2>2 DEF MemoryOK
  <2>5. RequestsOK'
    BY <1>1, <2>2, <2>3, <2>4, StepKeepsRequests
  <2> QED
    BY <2>3, <2>5 DEF AuthInv, TablesOK, RequestsOK, AuthTypeOK
<1> QED
  BY <1>2, <1>3

(* The transaction of Register.                                            *)
LEMMA CreateWithPasswordKeeps ==
    ASSUME AuthInv, NEW r \in Request, CreateWithPassword(r)
    PROVE  AuthInv'
<1>1. /\ faults \in 0 .. MaxFaults /\ DOMAIN users \subseteq usedIds
      /\ req[r] \in RequestState /\ ControlOK(req[r]) /\ IdsOK /\ TablesOK
  BY DEF AuthInv, AuthTypeOK, StoreTypeOK, IdsOK, IsTable, TablesOK
<1>2. /\ req[r].op = "register" /\ req[r].email \in ValidEmail
      /\ req[r].pw \in Password /\ req[r].uid \in UserId /\ Creating(req[r])
  BY <1>1 DEF CreateWithPassword, ControlOK, Creating
<1>3. req[r].uid \in usedIds /\ req[r].uid \notin DOMAIN users
  BY <1>1, <1>2, IdentityAssumption DEF IdsOK
<1>4. ASSUME NEW code \in {"internal_error", "email_taken"},
             Fails(r, req[r].op, code), UNCHANGED <<users, creds, faults>>
      PROVE  AuthInv'
  BY <1>1, <1>2, <1>4, AnswerOK
     DEF CreateWithPassword, Fails, Op, Code, ErrorCode, tables
<1>5. CASE /\ Violated(PasswordRow(r)) = {}
           /\ users' = InsertRow(users, req[r].uid, PasswordRow(r))
           /\ creds' = InsertRow(creds, req[r].uid, req[r].pw)
           /\ \/ GoIssue(r, req[r].uid, FALSE) /\ UNCHANGED faults
              \/ LostReply(r, req[r].op)
  <2>1. PICK row : row = PasswordRow(r)
    OBVIOUS
  <2>2. /\ row \in UserRow /\ row.email \in ValidEmail
        /\ row.provider = "password"
    BY <1>2, <2>1, EmailAssumption DEF PasswordRow, UserRow, Providers
  <2>3. /\ faults' \in 0 .. MaxFaults
        /\ UNCHANGED <<tokens, usedIds, sessions>>
    <3>1. UNCHANGED <<tokens, usedIds, sessions>>
      BY DEF CreateWithPassword
    <3>2. UNCHANGED faults \/ (faults > 0 /\ faults' = faults - 1)
      BY <1>5 DEF LostReply
    <3> QED
      BY <1>1, <3>1, <3>2, FaultAssumption
  <2>4. TablesOK'
    <3>1. PICK i \in UserId : i = req[r].uid
      BY <1>2
    <3> QED
      BY <1>1, <1>2, <1>3, <1>5, <2>1, <2>2, <2>3, <3>1, InsertKeepsTables
  <2>5. /\ DOMAIN users' = DOMAIN users \cup {req[r].uid}
        /\ \A u \in DOMAIN users : users'[u] = users[u]
        /\ DOMAIN creds \subseteq DOMAIN creds'
    BY <1>3, <1>5 DEF InsertRow
  <2>6. \/ \E op \in Op, code \in Code, linked \in BOOLEAN :
              Answer(r, op, code, linked)
        \/ GoIssue(r, req[r].uid, FALSE)
    BY <1>2, <1>5 DEF LostReply, Fails, Op, Code, ErrorCode
  <2> QED
    BY <1>1, <1>2, <1>3, <2>3, <2>4, <2>5, <2>6, WriteStep
<1> QED
  BY <1>4, <1>5 DEF CreateWithPassword

(* AuthenticateWithGoogle: the account of the identity is looked up.       *)
LEMMA GoogleFindBySubKeeps ==
    ASSUME AuthInv, NEW r \in Request, GoogleFindBySub(r)
    PROVE  AuthInv'
<1>1. /\ faults \in 0 .. MaxFaults /\ usedIds \subseteq UserId \cup TokenId
      /\ DOMAIN users \subseteq usedIds /\ DOMAIN users \subseteq UserId
  BY DEF AuthInv, AuthTypeOK, StoreTypeOK, IdsOK, IsTable
<1>2. UNCHANGED <<tables, usedIds, sessions, faults>>
  BY DEF GoogleFindBySub
<1>3. PICK s \in Sub :
          \/ \E u \in UserBySub(s) :
                Continue(r, [Idle EXCEPT !.op = "google", !.call = "Issue",
                                         !.uid = u, !.sub = s,
                                         !.linked = TRUE])
          \/ Fails(r, "google", "email_not_verified")
          \/ \E e \in RawEmail, name \in Name :
                Continue(r, [Idle EXCEPT !.op = "google",
                                         !.call = "FindByEmail", !.sub = s,
                                         !.email = Lower[e], !.name = name])
  BY DEF GoogleFindBySub
<1>4. CASE Fails(r, "google", "email_not_verified")
  BY <1>1, <1>2, <1>4, AnswerOK DEF Fails, Op, Code, ErrorCode
<1>5. ASSUME NEW u \in UserBySub(s),
             Continue(r, [Idle EXCEPT !.op = "google", !.call = "Issue",
                                      !.uid = u, !.sub = s, !.linked = TRUE])
      PROVE  AuthInv'
  <2> PICK q : q = [Idle EXCEPT !.op = "google", !.call = "Issue",
                                !.uid = u, !.sub = s, !.linked = TRUE]
    OBVIOUS
  <2>1. u \in DOMAIN users
    BY DEF UserBySub
  <2>2. /\ q \in RequestState /\ q.uid = u /\ q.call = "Issue"
        /\ ControlOK(q) /\ MemoryOK(q) /\ ~ Creating(q)
    BY <1>1, <2>1
       DEF Idle, RequestState, Name, Op, Call, ControlOK, MemoryOK, Creating
  <2>3. req' = [req EXCEPT ![r] = q] /\ answer' \in Response
    BY <1>5 DEF Continue, NoAnswer, Response, Op, Code
  <2> QED
    BY <1>1, <1>2, <2>1, <2>2, <2>3, QuietStep
<1>6. ASSUME NEW e \in RawEmail, NEW name \in Name,
             Continue(r, [Idle EXCEPT !.op = "google",
                                      !.call = "FindByEmail", !.sub = s,
                                      !.email = Lower[e], !.name = name])
      PROVE  AuthInv'
  <2> PICK q : q = [Idle EXCEPT !.op = "google", !.call = "FindByEmail",
                                !.sub = s, !.email = Lower[e],
                                !.name = name]
    OBVIOUS
  <2>1. Lower[e] \in RawEmail /\ Lower[Lower[e]] = Lower[e]
    BY EmailAssumption
  <2>2. /\ q \in RequestState /\ q.uid = NoUser /\ q.call = "FindByEmail"
        /\ ControlOK(q) /\ MemoryOK(q) /\ ~ Creating(q)
    BY <1>1, <2>1, IdentityAssumption
       DEF Idle, RequestState, Name, Op, Call, ControlOK, MemoryOK, Creating
  <2>3. req' = [req EXCEPT ![r] = q] /\ answer' \in Response
    BY <1>6 DEF Continue, NoAnswer, Response, Op, Code
  <2> QED
    BY <1>1, <1>2, <2>2, <2>3, QuietStep
<1> QED
  BY <1>3, <1>4, <1>5, <1>6

(* AuthenticateWithGoogle: no account has the identity; one may have its   *)
(* email.                                                                  *)
LEMMA GoogleFindByEmailKeeps ==
    ASSUME AuthInv, NEW r \in Request, GoogleFindByEmail(r)
    PROVE  AuthInv'
<1>1. /\ faults \in 0 .. MaxFaults /\ usedIds \subseteq UserId \cup TokenId
      /\ DOMAIN users \subseteq usedIds /\ DOMAIN users \subseteq UserId
      /\ req[r] \in RequestState /\ ControlOK(req[r]) /\ EmailsCanonical
  BY DEF AuthInv, AuthTypeOK, StoreTypeOK, IdsOK, IsTable
<1>2. /\ req[r].op = "google" /\ req[r].sub \in Sub
      /\ req[r].email \in RawEmail /\ Lower[req[r].email] = req[r].email
  BY <1>1 DEF GoogleFindByEmail, ControlOK
<1>3. UNCHANGED <<tables, sessions, faults>>
  BY DEF GoogleFindByEmail
<1>4. ASSUME NEW code \in {"internal_error", "validation_failed", "email_taken"},
             Fails(r, "google", code), UNCHANGED usedIds
      PROVE  AuthInv'
  BY <1>1, <1>3, <1>4, AnswerOK DEF Fails, Op, Code, ErrorCode
<1>5. ASSUME NEW i \in UserId,
             NewUserOK(req[r].email, req[r].name), NewID(i),
             usedIds' = usedIds \cup {i},
             Continue(r, [req[r] EXCEPT !.call = "Create", !.uid = i])
      PROVE  AuthInv'
  <2> PICK q : q = [req[r] EXCEPT !.call = "Create", !.uid = i]
    OBVIOUS
  <2>1. /\ q \in RequestState /\ q.uid = i /\ q.call = "Create"
        /\ q.op = "google" /\ q.sub \in Sub /\ q.email = req[r].email
    BY <1>1, <1>2 DEF RequestState, Name, Op, Call
  <2>2. ControlOK(q) /\ MemoryOK(q)
    BY <1>2, <1>5, <2>1 DEF ControlOK, MemoryOK, NewUserOK
  <2>3. req' = [req EXCEPT ![r] = q] /\ answer' \in Response
    BY <1>5 DEF Continue, NoAnswer, Response, Op, Code
  <2>4. i \in UserId \ usedIds
    BY <1>5 DEF NewID
  <2>5. /\ usedIds \subseteq usedIds' /\ usedIds' \subseteq UserId \cup TokenId
        /\ q.uid \in usedIds' /\ q.uid \in UserId \ usedIds
        /\ UNCHANGED <<tables, sessions>> /\ faults' \in 0 .. MaxFaults
    BY <1>1, <1>3, <1>5, <2>1, <2>4
  <2> QED
    BY <2>1, <2>2, <2>3, <2>5, QuietStep
<1>6. ASSUME NEW u \in UserByEmail(req[r].email),
             users[u].sub = NoSub, users[u].provider = "google",
             Continue(r, [req[r] EXCEPT !.call = "LinkGoogleSub", !.uid = u,
                                        !.name = "blank"]),
             UNCHANGED usedIds
      PROVE  AuthInv'
  <2> PICK q : q = [req[r] EXCEPT !.call = "LinkGoogleSub", !.uid = u,
                                  !.name = "blank"]
    OBVIOUS
  <2>1. u \in DOMAIN users /\ users[u].email = req[r].email
    BY <1>1, <1>2, EmailAssumption DEF UserByEmail, EmailsCanonical
  <2>2. /\ q \in RequestState /\ q.uid = u /\ q.call = "LinkGoogleSub"
        /\ q.op = "google" /\ q.sub \in Sub /\ q.email = req[r].email
    BY <1>1, <1>2, <2>1 DEF RequestState, Name, Op, Call
  <2>3. ControlOK(q) /\ MemoryOK(q) /\ ~ Creating(q)
    BY <1>1, <1>6, <2>1, <2>2 DEF ControlOK, MemoryOK, Creating
  <2>4. req' = [req EXCEPT ![r] = q] /\ answer' \in Response
    BY <1>6 DEF Continue, NoAnswer, Response, Op, Code
  <2> QED
    BY <1>1, <1>3, <1>6, <2>1, <2>2, <2>3, <2>4, QuietStep
<1> QED
  BY <1>4, <1>5, <1>6 DEF GoogleFindByEmail

(* AuthenticateWithGoogle: the INSERT, which a race may refuse.            *)
LEMMA GoogleCreateKeeps ==
    ASSUME AuthInv, NEW r \in Request, GoogleCreate(r)
    PROVE  AuthInv'
<1>1. /\ faults \in 0 .. MaxFaults /\ DOMAIN users \subseteq usedIds
      /\ usedIds \subseteq UserId \cup TokenId
      /\ req[r] \in RequestState /\ ControlOK(req[r]) /\ IdsOK /\ TablesOK
  BY DEF AuthInv, AuthTypeOK, StoreTypeOK, IdsOK, IsTable, TablesOK
<1>2. /\ req[r].op = "google" /\ req[r].email \in ValidEmail
      /\ req[r].sub \in Sub /\ req[r].uid \in UserId /\ Creating(req[r])
  BY <1>1 DEF GoogleCreate, ControlOK, Creating
<1>3. req[r].uid \in usedIds /\ req[r].uid \notin DOMAIN users
  BY <1>1, <1>2, IdentityAssumption DEF IdsOK
<1>4. ASSUME NEW code \in {"internal_error", "email_taken"},
             Fails(r, "google", code), UNCHANGED <<users, faults>>
      PROVE  AuthInv'
  BY <1>1, <1>4, AnswerOK DEF GoogleCreate, Fails, Op, Code, ErrorCode, tables
<1>5. CASE /\ Continue(r, [req[r] EXCEPT !.call = "FindByGoogleSub"])
           /\ UNCHANGED <<users, faults>>
  <2> PICK q : q = [req[r] EXCEPT !.call = "FindByGoogleSub"]
    OBVIOUS
  <2>1. /\ q \in RequestState /\ q.uid = req[r].uid
        /\ q.call = "FindByGoogleSub" /\ q.op = "google" /\ q.sub \in Sub
    BY <1>1, <1>2 DEF RequestState, Name, Op, Call
  <2>2. ControlOK(q) /\ MemoryOK(q) /\ ~ Creating(q)
    BY <1>2, <2>1 DEF ControlOK, MemoryOK, Creating
  <2>3. req' = [req EXCEPT ![r] = q] /\ answer' \in Response
    BY <1>5 DEF Continue, NoAnswer, Response, Op, Code
  <2>4. /\ UNCHANGED <<tables, sessions>> /\ faults' \in 0 .. MaxFaults
        /\ usedIds \subseteq usedIds' /\ usedIds' \subseteq UserId \cup TokenId
        /\ q.uid \in usedIds'
    BY <1>1, <1>3, <1>5, <2>1 DEF GoogleCreate, tables
  <2> QED
    BY <2>1, <2>2, <2>3, <2>4, QuietStep
<1>6. CASE /\ Violated(GoogleRow(r)) = {}
           /\ users' = InsertRow(users, req[r].uid, GoogleRow(r))
           /\ \/ GoIssue(r, req[r].uid, TRUE) /\ UNCHANGED faults
              \/ LostReply(r, "google")
  <2>1. PICK row : row = GoogleRow(r)
    OBVIOUS
  <2>2. /\ row \in UserRow /\ row.email \in ValidEmail
        /\ row.provider = "google"
    BY <1>2, <2>1, EmailAssumption DEF GoogleRow, UserRow, Providers
  <2>3. /\ faults' \in 0 .. MaxFaults
        /\ UNCHANGED <<creds, tokens, usedIds, sessions>>
    <3>1. UNCHANGED <<creds, tokens, usedIds, sessions>>
      BY DEF GoogleCreate
    <3>2. UNCHANGED faults \/ (faults > 0 /\ faults' = faults - 1)
      BY <1>6 DEF LostReply
    <3> QED
      BY <1>1, <3>1, <3>2, FaultAssumption
  <2>4. TablesOK'
    <3>1. PICK i \in UserId : i = req[r].uid
      BY <1>2
    <3> QED
      BY <1>1, <1>2, <1>3, <1>6, <2>1, <2>2, <2>3, <3>1, InsertKeepsTables
  <2>5. /\ DOMAIN users' = DOMAIN users \cup {req[r].uid}
        /\ \A u \in DOMAIN users : users'[u] = users[u]
    BY <1>3, <1>6 DEF InsertRow
  <2>6. \/ \E op \in Op, code \in Code, linked \in BOOLEAN :
              Answer(r, op, code, linked)
        \/ GoIssue(r, req[r].uid, TRUE)
    BY <1>6 DEF LostReply, Fails, Op, Code, ErrorCode
  <2> QED
    BY <1>1, <1>2, <1>3, <2>3, <2>4, <2>5, <2>6, WriteStep
<1> QED
  BY <1>4, <1>5, <1>6 DEF GoogleCreate

(* AuthenticateWithGoogle: the second lookup, after the race was lost.     *)
LEMMA GoogleRefindKeeps ==
    ASSUME AuthInv, NEW r \in Request, GoogleRefind(r)
    PROVE  AuthInv'
<1>1. /\ faults \in 0 .. MaxFaults /\ usedIds \subseteq UserId \cup TokenId
      /\ DOMAIN users \subseteq usedIds /\ DOMAIN users \subseteq UserId
      /\ req[r] \in RequestState /\ ControlOK(req[r])
  BY DEF AuthInv, AuthTypeOK, StoreTypeOK, IdsOK, IsTable
<1>2. req[r].op = "google"
  BY <1>1 DEF GoogleRefind, ControlOK
<1>3. UNCHANGED <<tables, usedIds, sessions, faults>>
  BY DEF GoogleRefind
<1>4. CASE Fails(r, "google", "google_link_conflict")
  BY <1>1, <1>3, <1>4, AnswerOK DEF Fails, Op, Code, ErrorCode
<1>5. ASSUME NEW u \in UserBySub(req[r].sub), GoIssue(r, u, TRUE)
      PROVE  AuthInv'
  <2> PICK q : q = [req[r] EXCEPT !.call = "Issue", !.uid = u, !.linked = TRUE,
                                  !.name = "blank"]
    OBVIOUS
  <2>1. u \in DOMAIN users
    BY DEF UserBySub
  <2>2. /\ q \in RequestState /\ q.uid = u /\ q.call = "Issue"
        /\ q.op = "google"
    BY <1>1, <1>2, <2>1 DEF RequestState, Name, Op, Call
  <2>3. ControlOK(q) /\ MemoryOK(q) /\ ~ Creating(q)
    BY <1>1, <2>1, <2>2 DEF ControlOK, MemoryOK, Creating
  <2>4. req' = [req EXCEPT ![r] = q] /\ answer' \in Response
    BY <1>5 DEF GoIssue, Continue, NoAnswer, Response, Op, Code
  <2> QED
    BY <1>1, <1>3, <2>1, <2>2, <2>3, <2>4, QuietStep
<1> QED
  BY <1>4, <1>5 DEF GoogleRefind

(* The three statements that write google_sub.                             *)
LEMMA SetSubStep ==
    ASSUME AuthInv, NEW r \in Request, NEW u \in DOMAIN users,
           NEW s \in Sub \cup {NoSub}, u = req[r].uid,
           SetSub(u, s), s = NoSub \/ ~ SubTaken(u, s),
           \/ /\ UNCHANGED faults
              /\ \E op \in Op, linked \in BOOLEAN : Answer(r, op, "ok", linked)
           \/ /\ UNCHANGED faults
              /\ req[r].op \in {"register", "login", "google"}
              /\ GoIssue(r, req[r].uid, FALSE)
           \/ \E op \in Op : LostReply(r, op),
           UNCHANGED <<creds, tokens, usedIds, sessions>>
    PROVE  AuthInv'
<1>1. /\ faults \in 0 .. MaxFaults /\ DOMAIN users \subseteq usedIds
      /\ DOMAIN users \subseteq UserId /\ TablesOK
  BY DEF AuthInv, AuthTypeOK, StoreTypeOK, IdsOK, IsTable, TablesOK
<1>2. faults' \in 0 .. MaxFaults
  <2>1. UNCHANGED faults \/ (faults > 0 /\ faults' = faults - 1)
    BY DEF LostReply
  <2> QED
    BY <1>1, <2>1, FaultAssumption
<1>3. TablesOK'
  BY <1>1, <1>2, SetSubKeepsTables
<1>4. /\ DOMAIN users' = DOMAIN users
      /\ \A v \in DOMAIN users : /\ users'[v].email = users[v].email
                                 /\ users'[v].provider = users[v].provider
  <2>1. users \in [DOMAIN users -> UserRow]
    BY <1>1 DEF TablesOK, StoreTypeOK, IsTable
  <2>2. users' = [users EXCEPT ![u] = [users[u] EXCEPT !.sub = s]]
    BY DEF SetSub
  <2>3. users[u] \in UserRow
    BY <2>1
  <2>4. /\ [users[u] EXCEPT !.sub = s].email = users[u].email
        /\ [users[u] EXCEPT !.sub = s].provider = users[u].provider
    BY <2>3 DEF UserRow
  <2> QED
    BY <2>1, <2>2, <2>4
<1>5. \/ \E op \in Op, code \in Code, linked \in BOOLEAN :
            Answer(r, op, code, linked)
      \/ /\ req[r].op \in {"register", "login", "google"}
         /\ req[r].uid \in UserId
         /\ \E linked \in BOOLEAN : GoIssue(r, req[r].uid, linked)
  BY <1>1 DEF LostReply, Fails, Code, ErrorCode
<1> QED
  BY <1>1, <1>3, <1>4, <1>5, WriteStep

(* The three writers of google_sub: backfill, link and unlink.             *)
LEMMA SubWritesKeep ==
    ASSUME AuthInv, NEW r \in Request,
           GoogleBackfill(r) \/ LinkGoogleSub(r) \/ ClearGoogleSub(r)
    PROVE  AuthInv'
<1>1. /\ faults \in 0 .. MaxFaults /\ ControlOK(req[r])
  BY DEF AuthInv, AuthTypeOK, StoreTypeOK
<1>2. PICK op \in {"google", "link", "unlink"} :
        /\ UNCHANGED <<creds, tokens, usedIds, sessions>>
        /\ \/ /\ \E code \in {"user_not_found", "email_taken",
                              "google_link_conflict"} : Fails(r, op, code)
              /\ UNCHANGED <<users, faults>>
           \/ \E s \in Sub \cup {NoSub} :
                /\ req[r].uid \in DOMAIN users
                /\ s = NoSub \/ ~ SubTaken(req[r].uid, s)
                /\ SetSub(req[r].uid, s)
                /\ \/ /\ UNCHANGED faults
                      /\ \E linked \in BOOLEAN : Answer(r, op, "ok", linked)
                   \/ /\ UNCHANGED faults
                      /\ req[r].op = "google"
                      /\ GoIssue(r, req[r].uid, FALSE)
                   \/ LostReply(r, op)
  <2>1. CASE GoogleBackfill(r)
    <3>1. req[r].sub \in Sub /\ req[r].op = "google"
      BY <1>1, <2>1 DEF GoogleBackfill, ControlOK
    <3> QED
      BY <2>1, <3>1 DEF GoogleBackfill
  <2>2. CASE LinkGoogleSub(r)
    <3>1. req[r].sub \in Sub
      BY <1>1, <2>2 DEF LinkGoogleSub, ControlOK
    <3> QED
      BY <2>2, <3>1 DEF LinkGoogleSub
  <2>3. CASE ClearGoogleSub(r)
    BY <2>3 DEF ClearGoogleSub
  <2> QED
    BY <2>1, <2>2, <2>3
<1>3. CASE /\ \E code \in {"user_not_found", "email_taken",
                           "google_link_conflict"} : Fails(r, op, code)
           /\ UNCHANGED <<users, faults>>
  BY <1>1, <1>2, <1>3, AnswerOK DEF Fails, Op, Code, ErrorCode, tables
<1>4. ASSUME NEW s \in Sub \cup {NoSub},
             req[r].uid \in DOMAIN users,
             s = NoSub \/ ~ SubTaken(req[r].uid, s),
             SetSub(req[r].uid, s),
             \/ /\ UNCHANGED faults
                /\ \E linked \in BOOLEAN : Answer(r, op, "ok", linked)
             \/ /\ UNCHANGED faults
                /\ req[r].op = "google"
                /\ GoIssue(r, req[r].uid, FALSE)
             \/ LostReply(r, op)
      PROVE  AuthInv'
  <2>1. PICK u \in DOMAIN users : u = req[r].uid
    BY <1>4
  <2>2. op \in Op
    BY DEF Op
  <2>3. UNCHANGED <<creds, tokens, usedIds, sessions>>
    BY <1>2
  <2> QED
    BY <1>4, <2>1, <2>2, <2>3, SetSubStep
<1> QED
  BY <1>2, <1>3, <1>4

(* LinkGoogle: the account is looked up.                                   *)
LEMMA LinkFindByIDKeeps ==
    ASSUME AuthInv, NEW r \in Request, LinkFindByID(r)
    PROVE  AuthInv'
<1>1. /\ faults \in 0 .. MaxFaults /\ usedIds \subseteq UserId \cup TokenId
      /\ sessions \subseteq usedIds /\ sessions \subseteq UserId
  BY DEF AuthInv, AuthTypeOK, StoreTypeOK, IdsOK
<1>2. UNCHANGED <<tables, usedIds, sessions, faults>>
  BY DEF LinkFindByID
<1>3. PICK u \in sessions, s \in Sub :
         \/ \E code \in Code, linked \in BOOLEAN : Answer(r, "link", code, linked)
         \/ Continue(r, [Idle EXCEPT !.op = "link", !.uid = u, !.sub = s,
                                     !.call = "LinkGoogleSub"])
  BY DEF LinkFindByID, Fails, Code, ErrorCode
<1>4. CASE \E code \in Code, linked \in BOOLEAN : Answer(r, "link", code, linked)
  BY <1>1, <1>2, <1>4, AnswerOK DEF Op
<1>5. CASE Continue(r, [Idle EXCEPT !.op = "link", !.uid = u, !.sub = s,
                                    !.call = "LinkGoogleSub"])
  <2> PICK q : q = [Idle EXCEPT !.op = "link", !.uid = u, !.sub = s,
                                !.call = "LinkGoogleSub"]
    OBVIOUS
  <2>1. /\ q \in RequestState /\ q.uid = u /\ q.call = "LinkGoogleSub"
        /\ q.op = "link" /\ q.sub \in Sub
    BY <1>1 DEF Idle, RequestState, Name, Op, Call
  <2>2. ControlOK(q) /\ MemoryOK(q) /\ ~ Creating(q)
    BY <1>1, <2>1 DEF ControlOK, MemoryOK, Creating
  <2>3. req' = [req EXCEPT ![r] = q] /\ answer' \in Response
    BY <1>5 DEF Continue, NoAnswer, Response, Op, Code
  <2> QED
    BY <1>1, <1>2, <2>1, <2>2, <2>3, QuietStep
<1> QED
  BY <1>3, <1>4, <1>5

(* UnlinkGoogle: the account is looked up.                                 *)
LEMMA UnlinkFindByIDKeeps ==
    ASSUME AuthInv, NEW r \in Request, UnlinkFindByID(r)
    PROVE  AuthInv'
<1>1. /\ faults \in 0 .. MaxFaults /\ usedIds \subseteq UserId \cup TokenId
      /\ sessions \subseteq usedIds /\ sessions \subseteq UserId
  BY DEF AuthInv, AuthTypeOK, StoreTypeOK, IdsOK
<1>2. UNCHANGED <<tables, usedIds, sessions, faults>>
  BY DEF UnlinkFindByID
<1>3. PICK u \in sessions :
         \/ \E code \in Code, linked \in BOOLEAN : Answer(r, "unlink", code, linked)
         \/ Continue(r, [Idle EXCEPT !.op = "unlink", !.uid = u,
                                     !.call = "GetPasswordHash"])
  BY DEF UnlinkFindByID, Fails, Code, ErrorCode
<1>4. CASE \E code \in Code, linked \in BOOLEAN :
              Answer(r, "unlink", code, linked)
  BY <1>1, <1>2, <1>4, AnswerOK DEF Op
<1>5. CASE Continue(r, [Idle EXCEPT !.op = "unlink", !.uid = u,
                                    !.call = "GetPasswordHash"])
  <2> PICK q : q = [Idle EXCEPT !.op = "unlink", !.uid = u,
                                !.call = "GetPasswordHash"]
    OBVIOUS
  <2>1. /\ q \in RequestState /\ q.uid = u /\ q.call = "GetPasswordHash"
        /\ q.op = "unlink"
    BY <1>1 DEF Idle, RequestState, Name, Op, Call
  <2>2. ControlOK(q) /\ MemoryOK(q) /\ ~ Creating(q)
    BY <1>1, <2>1 DEF ControlOK, MemoryOK, Creating
  <2>3. req' = [req EXCEPT ![r] = q] /\ answer' \in Response
    BY <1>5 DEF Continue, NoAnswer, Response, Op, Code
  <2> QED
    BY <1>1, <1>2, <2>1, <2>2, <2>3, QuietStep
<1> QED
  BY <1>3, <1>4, <1>5

(* UnlinkGoogle: the credential is looked up before Google is detached.    *)
LEMMA UnlinkGetPasswordHashKeeps ==
    ASSUME AuthInv, NEW r \in Request, UnlinkGetPasswordHash(r)
    PROVE  AuthInv'
<1>1. /\ faults \in 0 .. MaxFaults /\ usedIds \subseteq UserId \cup TokenId
      /\ req[r] \in RequestState /\ ControlOK(req[r])
      /\ req[r].uid \in usedIds \cup {NoUser}
  BY DEF AuthInv, AuthTypeOK, StoreTypeOK, IdsOK
<1>2. UNCHANGED <<tables, usedIds, sessions, faults>>
  BY DEF UnlinkGetPasswordHash
<1>3. CASE Fails(r, "unlink", "cannot_unlink_google")
  BY <1>1, <1>2, <1>3, AnswerOK DEF Fails, Op, Code, ErrorCode
<1>4. CASE /\ req[r].uid \in DOMAIN creds
           /\ Continue(r, [req[r] EXCEPT !.call = "ClearGoogleSub"])
  <2> PICK q : q = [req[r] EXCEPT !.call = "ClearGoogleSub"]
    OBVIOUS
  <2>1. req[r].op = "unlink" /\ req[r].uid \in UserId
    BY <1>1 DEF UnlinkGetPasswordHash, ControlOK
  <2>2. /\ q \in RequestState /\ q.uid = req[r].uid
        /\ q.call = "ClearGoogleSub" /\ q.op = "unlink"
    BY <1>1, <2>1 DEF RequestState, Name, Op, Call
  <2>3. ControlOK(q) /\ MemoryOK(q) /\ ~ Creating(q)
    BY <1>4, <2>1, <2>2 DEF ControlOK, MemoryOK, Creating
  <2>4. req' = [req EXCEPT ![r] = q] /\ answer' \in Response
    BY <1>4 DEF Continue, NoAnswer, Response, Op, Code
  <2> QED
    BY <1>1, <1>2, <2>1, <2>2, <2>3, <2>4, QuietStep
<1> QED
  BY <1>3, <1>4 DEF UnlinkGetPasswordHash

(* DeleteAccount, with other requests of the account in flight.            *)
LEMMA DeleteAccountKeeps ==
    ASSUME AuthInv, NEW r \in Request, DeleteAccount(r)
    PROVE  AuthInv'
<1>1. /\ faults \in 0 .. MaxFaults /\ DOMAIN users \subseteq usedIds
      /\ TablesOK
  BY DEF AuthInv, AuthTypeOK, StoreTypeOK, IdsOK, TablesOK
<1>2. UNCHANGED <<usedIds, sessions>>
  BY DEF DeleteAccount
<1>3. CASE Fails(r, "delete", "user_not_found") /\ UNCHANGED <<tables, faults>>
  BY <1>1, <1>2, <1>3, AnswerOK DEF Fails, Op, Code, ErrorCode
<1>4. ASSUME NEW u \in DOMAIN users, DeleteUser(u),
             \/ Answer(r, "delete", "ok", FALSE) /\ UNCHANGED faults
             \/ LostReply(r, "delete")
      PROVE  AuthInv'
  <2>1. faults' \in 0 .. MaxFaults
    <3>1. UNCHANGED faults \/ (faults > 0 /\ faults' = faults - 1)
      BY <1>4 DEF LostReply
    <3> QED
      BY <1>1, <3>1, FaultAssumption
  <2>2. TablesOK'
    BY <1>1, <1>2, <1>4, <2>1, DeleteKeepsTables
  <2>3. /\ DOMAIN users' = DOMAIN users \ {u}
        /\ \A v \in DOMAIN users' : users'[v] = users[v]
        /\ \A v \in DOMAIN users' : v \in DOMAIN creds => v \in DOMAIN creds'
    BY <1>4 DEF DeleteUser, DeleteRows
  <2>4. \E op \in Op, code \in Code, linked \in BOOLEAN :
            Answer(r, op, code, linked)
    BY <1>4 DEF LostReply, Fails, Op, Code, ErrorCode
  <2> QED
    BY <1>1, <1>2, <2>2, <2>3, <2>4, WriteStep
<1> QED
  BY <1>3, <1>4 DEF DeleteAccount

(* A token is issued, perhaps for an account deleted meanwhile.            *)
LEMMA IssueKeeps ==
    ASSUME AuthInv, NEW r \in Request, Issue(r)
    PROVE  AuthInv'
<1>1. /\ faults \in 0 .. MaxFaults /\ TablesOK /\ IdsOK
      /\ req[r] \in RequestState /\ ControlOK(req[r])
      /\ usedIds \subseteq UserId \cup TokenId /\ sessions \subseteq UserId
  BY DEF AuthInv, AuthTypeOK, StoreTypeOK, TablesOK
<1>2. /\ req[r].uid \in UserId /\ req[r].op \in Op /\ req[r].linked \in BOOLEAN
      /\ req[r].uid \in usedIds
  BY <1>1, IdentityAssumption DEF Issue, ControlOK, RequestState, IdsOK
<1>3. /\ UNCHANGED <<tables, usedIds, faults>>
      /\ sessions' = sessions \cup {req[r].uid}
      /\ req' = [req EXCEPT ![r] = Idle]
      /\ answer' \in Response
  BY <1>2, AnswerTyped DEF Issue, Code
<1>4. TablesOK'
  BY <1>1, <1>2, <1>3, TablesUnchanged
<1>5. RequestsOK'
  <2>1. /\ Idle \in RequestState /\ ControlOK(Idle) /\ ~ Creating(Idle)
        /\ Idle.uid = NoUser
    BY IdleOK
  <2>2. MemoryOK(Idle)'
    BY DEF MemoryOK, Idle
  <2>3. DOMAIN users' \cup sessions' \subseteq usedIds'
    BY <1>1, <1>2, <1>3 DEF IdsOK, tables
  <2> QED
    BY <1>3, <2>1, <2>2, <2>3, StepKeepsRequests DEF tables
<1> QED
  BY <1>3, <1>4, <1>5 DEF AuthInv, TablesOK, RequestsOK, AuthTypeOK

(* A token expires.                                                        *)
LEMMA ExpireKeeps ==
    ASSUME AuthInv, NEW u \in UserId, Expire(u)
    PROVE  AuthInv'
<1>1. /\ UNCHANGED <<tables, usedIds, req, faults>>
      /\ sessions' = sessions \ {u}
      /\ answer' \in Response
  BY DEF Expire, NoAnswer, Response, Op, Code
<1>2. TablesOK'
  BY <1>1, TablesUnchanged, Parts DEF TablesOK, StoreTypeOK
<1>3. RequestsOK'
  <2>1. IdsOK'
    BY <1>1 DEF AuthInv, IdsOK, tables
  <2>2. \A r \in Request : ControlOK(req'[r]) /\ MemoryOK(req[r])'
    BY <1>1 DEF AuthInv, MemoryOK, tables
  <2> QED
    BY <1>1, <2>1, <2>2 DEF AuthInv, AuthTypeOK, RequestsOK
<1> QED
  BY <1>1, <1>2, <1>3 DEF AuthInv, TablesOK, RequestsOK, AuthTypeOK

(* AuthInv is inductive.                                                   *)
THEOREM InvNext == AuthInv /\ [AuthNext]_authVars => AuthInv'
<1> SUFFICES ASSUME AuthInv, [AuthNext]_authVars
             PROVE  AuthInv'
  OBVIOUS
<1>1. ASSUME NEW r \in Request, AuthStep(r)
      PROVE  AuthInv'
  BY <1>1, RefusalsKeep, RegisterStartKeeps, CreateWithPasswordKeeps,
     LoginKeeps, GoogleFindBySubKeeps, GoogleFindByEmailKeeps,
     GoogleCreateKeeps, GoogleRefindKeeps, SubWritesKeep, LinkFindByIDKeeps,
     UnlinkFindByIDKeeps, UnlinkGetPasswordHashKeeps, DeleteAccountKeeps,
     IssueKeeps
     DEF AuthStep
<1>2. ASSUME NEW u \in UserId, Expire(u)
      PROVE  AuthInv'
  BY <1>2, ExpireKeeps
<1>3. CASE UNCHANGED authVars
  BY <1>3 DEF authVars, storeVars, AuthInv, AuthTypeOK, StoreTypeOK,
     EmailsCanonical, UniqueKeys, CredentialsMatchProvider, IdsOK, MemoryOK
<1> QED
  BY <1>1, <1>2, <1>3 DEF AuthNext

(* AuthInv is an invariant: it holds at the start and every step of every  *)
(* handler keeps it.                                                       *)
THEOREM Invariance == AuthSpec => []AuthInv
<1>1. AuthInit => AuthInv
  BY InvInit
<1>2. AuthInv /\ [AuthNext]_authVars => AuthInv'
  BY InvNext
<1> QED
  BY <1>1, <1>2, PTL DEF AuthSpec

-----------------------------------------------------------------------------
(* The properties.                                                         *)

(* The tables and the memory of every request keep their types.            *)
THEOREM TypeCorrect == AuthSpec => []AuthTypeOK
BY Invariance, PTL DEF AuthInv

(* No two accounts ever share an email, up to spelling, or a Google        *)
(* identity.                                                               *)
THEOREM KeysAreUnique == AuthSpec => []UniqueKeys
BY Invariance, PTL DEF AuthInv

(* An account has a credential exactly when its origin is a password.      *)
THEOREM CredentialsMatch == AuthSpec => []CredentialsMatchProvider
BY Invariance, PTL DEF AuthInv

(* Steps of one request leave the others as they are.                      *)
LEMMA OnlyOneMoves ==
    ASSUME AuthInv, NEW r \in Request, AuthStep(r),
           NEW s \in Request, s # r
    PROVE  req'[s] = req[s]
<1>1. \E q : req' = [req EXCEPT ![r] = q]
  BY DEF AuthStep, RegisterRefused, RegisterStart, CreateWithPassword,
         LoginFindByEmail, LoginGetPasswordHash, GoogleRefused,
         GoogleFindBySub, GoogleFindByEmail, GoogleCreate, GoogleRefind,
         GoogleBackfill, LinkRefused, LinkFindByID, LinkGoogleSub,
         UnlinkFindByID, UnlinkGetPasswordHash, ClearGoogleSub, DeleteAccount,
         Me, Issue, FirstCallFails, CallFails, LostReply, Fails, FailsOn, Answer,
         AnswerTo, Continue, GoIssue
<1> QED
  BY <1>1 DEF AuthInv, AuthTypeOK

(* Which step writes which part of the row of an account that stays.       *)
LEMMA SubChange ==
    ASSUME AuthInv, NEW r \in Request, AuthStep(r),
           NEW u \in DOMAIN users \cap DOMAIN users',
           users'[u].sub # users[u].sub
    PROVE  /\ req[r].uid = u
           /\ UNCHANGED creds
           /\ \/ req[r].call = "LinkGoogleSub" /\ users'[u].sub = req[r].sub
              \/ req[r].call = "ClearGoogleSub" /\ users'[u].sub = NoSub
<1>1. users \in [DOMAIN users -> UserRow]
  BY DEF AuthInv, AuthTypeOK, StoreTypeOK, IsTable
<1>2. ASSUME NEW s, req[r].uid \in DOMAIN users, SetSub(req[r].uid, s)
      PROVE  req[r].uid = u /\ users'[u].sub = s
  BY <1>1, <1>2 DEF SetSub, UserRow
<1>3. CASE GoogleBackfill(r) \/ LinkGoogleSub(r)
  BY <1>2, <1>3 DEF GoogleBackfill, LinkGoogleSub
<1>4. CASE ClearGoogleSub(r)
  BY <1>2, <1>4 DEF ClearGoogleSub
<1>5. CASE CreateWithPassword(r) \/ GoogleCreate(r)
  <2>1. req[r].uid \notin DOMAIN users
    BY <1>5 DEF CreateWithPassword, GoogleCreate, AuthInv, IdsOK, Creating
  <2> QED
    BY <1>5, <2>1 DEF CreateWithPassword, GoogleCreate, InsertRow
<1>6. CASE DeleteAccount(r)
  BY <1>6 DEF DeleteAccount, DeleteUser, DeleteRows, tables
<1>7. CASE UNCHANGED users
  BY <1>7
<1> QED
  BY <1>3, <1>4, <1>5, <1>6, <1>7
     DEF AuthStep, RegisterRefused, RegisterStart,
         LoginFindByEmail, LoginGetPasswordHash, GoogleRefused,
         GoogleFindBySub, GoogleFindByEmail, GoogleRefind,
         LinkRefused, LinkFindByID, UnlinkFindByID, UnlinkGetPasswordHash,
         Me, Issue, FirstCallFails, CallFails, tables

(* Google leaves an account only while a password still opens it.          *)
THEOREM UnlinkIsSafe == AuthSpec => UnlinkKeepsAccess
<1> DEFINE A == \A u \in DOMAIN users \cap DOMAIN users' :
                   users[u].sub # NoSub /\ users'[u].sub = NoSub
                     => u \in DOMAIN creds'
<1>1. AuthInv /\ [AuthNext]_authVars => [A]_authVars
  <2> SUFFICES ASSUME AuthInv, AuthNext,
                      NEW u \in DOMAIN users \cap DOMAIN users',
                      users[u].sub # NoSub, users'[u].sub = NoSub
               PROVE  u \in DOMAIN creds'
    OBVIOUS
  <2>1. ASSUME NEW r \in Request, AuthStep(r)
        PROVE  u \in DOMAIN creds'
    <3>1. /\ req[r].uid = u /\ UNCHANGED creds
          /\ \/ req[r].call = "LinkGoogleSub" /\ users'[u].sub = req[r].sub
             \/ req[r].call = "ClearGoogleSub"
      BY <2>1, SubChange
    <3>2. ControlOK(req[r]) /\ MemoryOK(req[r])
      BY DEF AuthInv
    <3>3. req[r].call # "LinkGoogleSub"
      BY <3>1, <3>2, IdentityAssumption DEF ControlOK
    <3> QED
      BY <3>1, <3>2, <3>3 DEF MemoryOK
  <2>2. ASSUME NEW v \in UserId, Expire(v)
        PROVE  FALSE
    BY <2>2 DEF Expire, tables
  <2> QED
    BY <2>1, <2>2 DEF AuthNext
<1> QED
  BY <1>1, Invariance, PTL DEF AuthSpec, UnlinkKeepsAccess

(* Google sign-in attaches its sub to Google accounts with its email only. *)
THEOREM NeverMergesByEmail == AuthSpec => NoMergeByEmail
<1> DEFINE A == \A r \in Request, u \in DOMAIN users \cap DOMAIN users' :
                  users'[u].sub # users[u].sub /\ req'[r] # req[r]
                    => \/ req[r].op = "google" /\ users[u].provider = "google"
                            /\ users[u].email = req[r].email
                       \/ req[r].op \in {"link", "unlink"} /\ req[r].uid = u
<1>1. AuthInv /\ [AuthNext]_authVars => [A]_authVars
  <2> SUFFICES ASSUME AuthInv, AuthNext, NEW r \in Request,
                      NEW u \in DOMAIN users \cap DOMAIN users',
                      users'[u].sub # users[u].sub, req'[r] # req[r]
               PROVE  \/ req[r].op = "google" /\ users[u].provider = "google"
                            /\ users[u].email = req[r].email
                      \/ req[r].op \in {"link", "unlink"} /\ req[r].uid = u
    OBVIOUS
  <2>1. AuthStep(r)
    BY OnlyOneMoves DEF AuthNext, Expire
  <2>2. /\ req[r].uid = u
        /\ req[r].call \in {"LinkGoogleSub", "ClearGoogleSub"}
    BY <2>1, SubChange
  <2>3. ControlOK(req[r]) /\ MemoryOK(req[r])
    BY DEF AuthInv
  <2> QED
    BY <2>2, <2>3 DEF ControlOK, MemoryOK
<1> QED
  BY <1>1, Invariance, PTL DEF AuthSpec, NoMergeByEmail

(* The session of a deleted account never becomes that of another account. *)
THEOREM DeadSessions == AuthSpec => DeadSessionsStayDead
<1> DEFINE A == \A u \in sessions : u \notin DOMAIN users => u \notin DOMAIN users'
<1>1. AuthInv /\ [AuthNext]_authVars => [A]_authVars
  <2> SUFFICES ASSUME AuthInv, AuthNext, NEW u \in sessions,
                      u \notin DOMAIN users
               PROVE  u \notin DOMAIN users'
    OBVIOUS
  <2>1. ASSUME NEW r \in Request, AuthStep(r)
        PROVE  u \notin DOMAIN users'
    <3>1. CASE CreateWithPassword(r) \/ GoogleCreate(r)
      <4>1. req[r].uid # u
        BY <3>1 DEF CreateWithPassword, GoogleCreate, AuthInv, IdsOK, Creating
      <4>2. UNCHANGED users \/ \E row : users' = InsertRow(users, req[r].uid, row)
        BY <3>1 DEF CreateWithPassword, GoogleCreate
      <4> QED
        BY <4>1, <4>2 DEF InsertRow
    <3>2. CASE DOMAIN users' \subseteq DOMAIN users
      BY <3>2
    <3>3. CASE GoogleBackfill(r) \/ LinkGoogleSub(r) \/ ClearGoogleSub(r)
      <4>1. UNCHANGED users \/ \E s : SetSub(req[r].uid, s)
        BY <3>3 DEF GoogleBackfill, LinkGoogleSub, ClearGoogleSub
      <4> QED
        BY <4>1 DEF SetSub
    <3>4. CASE DeleteAccount(r)
      BY <3>4 DEF DeleteAccount, DeleteUser, DeleteRows, tables
    <3> QED
      BY <2>1, <3>1, <3>2, <3>3, <3>4
         DEF AuthStep, RegisterRefused, RegisterStart,
             LoginFindByEmail, LoginGetPasswordHash, GoogleRefused,
             GoogleFindBySub, GoogleFindByEmail, GoogleRefind,
             LinkRefused, LinkFindByID, UnlinkFindByID, UnlinkGetPasswordHash,
             Me, Issue, FirstCallFails, CallFails, tables
  <2> QED
    BY <2>1 DEF AuthNext, Expire, tables
<1> QED
  BY <1>1, Invariance, PTL DEF AuthSpec, DeadSessionsStayDead

-----------------------------------------------------------------------------
(* What the handlers answer.                                               *)

(* The codes a request with a valid token may be answered with.            *)
PastAuthentication ==
    {"ok", "user_not_found", "google_link_conflict", "cannot_unlink_google",
     "bad_request", "invalid_google_token", "internal_error"}

(* None of them is a 401.                                                  *)
LEMMA NoneIs401 == \A code \in PastAuthentication : StatusForCode(code) # 401
<1> TAKE code \in PastAuthentication
<1> QED
  BY DEF PastAuthentication, StatusForCode

(* A step that answers a request with a valid token answers one of them.   *)
LEMMA AuthenticatedAnswers ==
    ASSUME AuthInv, NEW r \in Request, AuthStep(r),
           answer'.op \in Authenticated
    PROVE  answer'.code \in PastAuthentication
<1> USE DEF Authenticated, PastAuthentication
<1>a. \A q : Continue(r, q) => answer'.op = "none" /\ answer'.code = "none"
  BY DEF Continue, NoAnswer
<1>b. /\ \A op, code, linked : Answer(r, op, code, linked)
                                 => answer'.op = op /\ answer'.code = code
      /\ \A op, code, e, n : FailsOn(r, op, code, e, n)
                              => answer'.op = op /\ answer'.code = code
  BY DEF Answer, FailsOn, AnswerTo
<1>c. \A u, linked : GoIssue(r, u, linked) => answer'.op = "none"
  BY <1>a DEF GoIssue
<1>1. ControlOK(req[r])
  BY DEF AuthInv
<1>2. CASE RegisterRefused(r) \/ RegisterStart(r)
  BY <1>a, <1>b, <1>c, <1>2 DEF RegisterRefused, RegisterStart, Fails
<1>3. CASE CreateWithPassword(r)
  BY <1>a, <1>b, <1>c, <1>1, <1>3 DEF CreateWithPassword, ControlOK,
                                      LostReply, Fails
<1>4. CASE LoginFindByEmail(r) \/ LoginGetPasswordHash(r)
  BY <1>a, <1>b, <1>c, <1>4 DEF LoginFindByEmail, LoginGetPasswordHash, Fails
<1>5. CASE GoogleRefused(r) \/ GoogleFindBySub(r)
  BY <1>a, <1>b, <1>c, <1>5 DEF GoogleRefused, GoogleFindBySub, Fails
<1>6. CASE GoogleFindByEmail(r)
  BY <1>a, <1>b, <1>c, <1>6 DEF GoogleFindByEmail, Fails
<1>7. CASE GoogleCreate(r) \/ GoogleRefind(r) \/ GoogleBackfill(r)
  BY <1>a, <1>b, <1>c, <1>7 DEF GoogleCreate, GoogleRefind, GoogleBackfill,
                                LostReply, Fails
<1>8. CASE LinkRefused(r) \/ LinkFindByID(r) \/ LinkGoogleSub(r)
  BY <1>a, <1>b, <1>c, <1>8 DEF LinkRefused, LinkFindByID, LinkGoogleSub,
                                LostReply, Fails
<1>9. CASE UnlinkFindByID(r) \/ UnlinkGetPasswordHash(r) \/ ClearGoogleSub(r)
  BY <1>a, <1>b, <1>c, <1>9 DEF UnlinkFindByID, UnlinkGetPasswordHash,
                                ClearGoogleSub, LostReply, Fails
<1>10. CASE DeleteAccount(r) \/ Me(r)
  BY <1>a, <1>b, <1>c, <1>10 DEF DeleteAccount, Me, LostReply, Fails
<1>11. CASE Issue(r)
  BY <1>a, <1>b, <1>c, <1>11 DEF Issue
<1>12. CASE FirstCallFails(r)
  BY <1>a, <1>b, <1>c, <1>12 DEF FirstCallFails, Fails
<1>13. CASE CallFails(r)
  BY <1>a, <1>b, <1>c, <1>13 DEF CallFails, Fails
<1> QED
  BY <1>2, <1>3, <1>4, <1>5, <1>6, <1>7, <1>8, <1>9, <1>10, <1>11, <1>12,
     <1>13 DEF AuthStep

(* No request that came with a valid token is answered 401: whatever its   *)
(* handler meets, the client keeps its session.                            *)
THEOREM TokensAreNotRejected == AuthSpec => []AuthenticatedNever401
<1>1. AuthInit => AuthenticatedNever401
  BY DEF AuthInit, NoAnswer, AuthenticatedNever401, Authenticated
<1>2. AuthInv /\ AuthenticatedNever401 /\ [AuthNext]_authVars
        => AuthenticatedNever401'
  <2> SUFFICES ASSUME AuthInv, AuthenticatedNever401, [AuthNext]_authVars,
                      answer'.op \in Authenticated
               PROVE  StatusForCode(answer'.code) # 401
    BY DEF AuthenticatedNever401, StatusForCode
  <2>1. ASSUME NEW r \in Request, AuthStep(r)
        PROVE  StatusForCode(answer'.code) # 401
    BY <2>1, AuthenticatedAnswers, NoneIs401
  <2>2. ASSUME NEW u \in UserId, Expire(u)
        PROVE  FALSE
    BY <2>2 DEF Expire, NoAnswer, Authenticated
  <2>3. CASE UNCHANGED authVars
    BY <2>3 DEF authVars, AuthenticatedNever401
  <2> QED
    BY <2>1, <2>2, <2>3 DEF AuthNext
<1> QED
  BY <1>1, <1>2, Invariance, PTL DEF AuthSpec

(* The body of NoSpuriousInternalError, for one step.                      *)
InternalErrorCosts ==
    answer'.code = "internal_error" => faults' # faults \/ answer'.nul

(* A step of a request answers internal_error only at the cost of one of   *)
(* the infrastructure's failures or because of a U+0000: the guard on the  *)
(* length of the password keeps bcrypt from refusing it.                   *)
LEMMA InternalErrorsAreFaults ==
    ASSUME AuthInv, NEW r \in Request, AuthStep(r)
    PROVE  InternalErrorCosts
<1>0. SUFFICES ASSUME answer'.code = "internal_error", UNCHANGED faults,
                      ~ answer'.nul
               PROVE  FALSE
  BY DEF InternalErrorCosts
<1>a. \A q : ~ Continue(r, q)
  BY <1>0 DEF Continue, NoAnswer
<1>b. \A op, code, linked : Answer(r, op, code, linked)
                                => code = "internal_error"
  BY <1>0 DEF Answer, AnswerTo
<1>c. \A u, linked : ~ GoIssue(r, u, linked)
  BY <1>a DEF GoIssue
<1>d. ASSUME TextRefused(r)
      PROVE  \A op, code, linked : ~ Answer(r, op, code, linked)
  BY <1>0, <1>d DEF Answer, AnswerTo, TextRefused
<1>e. \A op, code, e, n : FailsOn(r, op, code, e, n)
                            => code = "internal_error"
  BY <1>0 DEF FailsOn, AnswerTo
<1>f. ASSUME NEW e \in NulEmail
      PROVE  \A op, code, n : ~ FailsOn(r, op, code, e, n)
  <2>1. \A n : HasNul(e, n) = TRUE
    BY DEF HasNul
  <2> QED
    BY <1>0, <2>1 DEF FailsOn, AnswerTo
<1>1. faults \in Nat /\ faults' = faults
  BY <1>0, FaultAssumption DEF AuthInv, AuthTypeOK, StoreTypeOK
<1>2. ~ \E op : LostReply(r, op)
  BY <1>a, <1>b, <1>c, <1>1 DEF LostReply
<1>3. CASE RegisterRefused(r) \/ RegisterStart(r)
  <2>1. PICK q, op, e, n : \/ Continue(r, q)
                           \/ FailsOn(r, op, "validation_failed", e, n)
                           \/ \E p \in Password : PasswordOK(p) /\ ~ HashOK(p)
    BY <1>3 DEF RegisterRefused, RegisterStart
  <2>2. \A p \in Password : PasswordOK(p) => HashOK(p)
    BY PasswordAssumption DEF PasswordOK, HashOK, MaxPasswordLen
  <2> QED
    BY <1>a, <1>e, <2>1, <2>2
<1>4. CASE CreateWithPassword(r) \/ LoginFindByEmail(r)
             \/ LoginGetPasswordHash(r)
  BY <1>a, <1>b, <1>c, <1>d, <1>e, <1>f, <1>2, <1>4
     DEF CreateWithPassword, LoginFindByEmail, LoginGetPasswordHash, Fails
<1>5. CASE GoogleRefused(r) \/ GoogleFindBySub(r) \/ GoogleFindByEmail(r)
  <2>1. req[r].email \in NulEmail => TextRefused(r)
    BY DEF TextRefused, HasNul
  <2> QED
    BY <1>a, <1>b, <1>c, <1>d, <1>5, <2>1
       DEF GoogleRefused, GoogleFindBySub, GoogleFindByEmail, Fails
<1>6. CASE GoogleCreate(r) \/ GoogleRefind(r) \/ GoogleBackfill(r)
  BY <1>a, <1>b, <1>c, <1>d, <1>2, <1>6
     DEF GoogleCreate, GoogleRefind, GoogleBackfill, Fails
<1>7. CASE LinkRefused(r) \/ LinkFindByID(r) \/ LinkGoogleSub(r)
  BY <1>a, <1>b, <1>c, <1>2, <1>7 DEF LinkRefused, LinkFindByID,
                                      LinkGoogleSub, Fails
<1>8. CASE UnlinkFindByID(r) \/ UnlinkGetPasswordHash(r) \/ ClearGoogleSub(r)
  BY <1>a, <1>b, <1>c, <1>2, <1>8 DEF UnlinkFindByID, UnlinkGetPasswordHash,
                                      ClearGoogleSub, Fails
<1>9. CASE DeleteAccount(r) \/ Me(r) \/ Issue(r)
  BY <1>a, <1>b, <1>c, <1>2, <1>9 DEF DeleteAccount, Me, Issue, Fails
<1>10. CASE FirstCallFails(r) \/ CallFails(r)
  BY <1>a, <1>b, <1>c, <1>1, <1>10 DEF FirstCallFails, CallFails
<1> QED
  BY <1>3, <1>4, <1>5, <1>6, <1>7, <1>8, <1>9, <1>10 DEF AuthStep

(* A 500 is the infrastructure's, or the answer to a text with a U+0000.   *)
THEOREM ErrorsAreFaults == AuthSpec => NoSpuriousInternalError
<1>1. AuthInv /\ [AuthNext]_authVars => [InternalErrorCosts]_authVars
  <2> SUFFICES ASSUME AuthInv, AuthNext PROVE InternalErrorCosts
    OBVIOUS
  <2>1. ASSUME NEW r \in Request, AuthStep(r)
        PROVE  InternalErrorCosts
    BY <2>1, InternalErrorsAreFaults
  <2>2. ASSUME NEW u \in UserId, Expire(u)
        PROVE  InternalErrorCosts
    BY <2>2 DEF Expire, NoAnswer, InternalErrorCosts
  <2> QED
    BY <2>1, <2>2 DEF AuthNext
<1> QED
  BY <1>1, Invariance, PTL
     DEF AuthSpec, NoSpuriousInternalError, InternalErrorCosts

-----------------------------------------------------------------------------
(* Who a token is signed for.                                              *)

(* What the two ways of going on leave in the memory of a request.         *)
LEMMA Memory ==
    ASSUME AuthInv, NEW r \in Request
    PROVE  /\ \A q : Continue(r, q) => req'[r] = q
           /\ \A op, code, linked : Answer(r, op, code, linked)
                                       => req'[r].call = "none"
           /\ \A op, code, e, n : FailsOn(r, op, code, e, n)
                                    => req'[r].call = "none"
           /\ \A u, linked : GoIssue(r, u, linked) =>
                 /\ req'[r].call = "Issue" /\ req'[r].uid = u
                 /\ req'[r].op = req[r].op /\ req'[r].email = req[r].email
                 /\ req'[r].sub = req[r].sub /\ req'[r].pw = req[r].pw
<1>1. req[r] \in RequestState /\ req \in [Request -> RequestState]
  BY DEF AuthInv, AuthTypeOK
<1>2. \A q : Continue(r, q) => req'[r] = q
  BY <1>1 DEF Continue
<1>3. /\ \A op, code, linked : Answer(r, op, code, linked)
                                  => req'[r].call = "none"
      /\ \A op, code, e, n : FailsOn(r, op, code, e, n)
                               => req'[r].call = "none"
  BY <1>1 DEF Answer, FailsOn, AnswerTo, Idle
<1>4. ASSUME NEW u, NEW linked, GoIssue(r, u, linked)
      PROVE  /\ req'[r].call = "Issue" /\ req'[r].uid = u
             /\ req'[r].op = req[r].op /\ req'[r].email = req[r].email
             /\ req'[r].sub = req[r].sub /\ req'[r].pw = req[r].pw
  <2>1. req'[r] = [req[r] EXCEPT !.call = "Issue", !.uid = u,
                                 !.linked = linked, !.name = "blank"]
    BY <1>2, <1>4 DEF GoIssue
  <2> QED
    BY <1>1, <2>1 DEF RequestState
<1> QED
  BY <1>2, <1>3, <1>4

(* The steps that decide to sign a token, each with the account it is for. *)
LEMMA WhoSigns ==
    ASSUME AuthInv, NEW r \in Request, AuthStep(r), StartsIssue(r)
    PROVE  \/ CreateWithPassword(r) /\ GoIssue(r, req[r].uid, FALSE)
           \/ /\ LoginGetPasswordHash(r)
              /\ GoIssue(r, req[r].uid, req[r].linked)
           \/ /\ GoogleFindBySub(r)
              /\ \E s \in Sub : \E u \in UserBySub(s) :
                    /\ req'[r].op = "google" /\ req'[r].uid = u
                    /\ req'[r].sub = s
           \/ GoogleCreate(r) /\ GoIssue(r, req[r].uid, TRUE)
           \/ /\ GoogleRefind(r)
              /\ \E u \in UserBySub(req[r].sub) : GoIssue(r, u, TRUE)
           \/ GoogleBackfill(r) /\ GoIssue(r, req[r].uid, FALSE)
<1>1. /\ req[r] \in RequestState
      /\ req'[r].call = "Issue" /\ req[r].call # "Issue"
  BY DEF AuthInv, AuthTypeOK, StartsIssue
<1>2. /\ \A op, code, linked : ~ Answer(r, op, code, linked)
      /\ \A op, code, e, n : ~ FailsOn(r, op, code, e, n)
  BY <1>1, Memory
<1>3. \A q : Continue(r, q) => q.call = "Issue"
  BY <1>1, Memory
<1>4. CASE RegisterRefused(r) \/ GoogleRefused(r)
  BY <1>2, <1>4 DEF RegisterRefused, GoogleRefused, Fails
<1>5. CASE RegisterStart(r)
  <2>1. ASSUME NEW e, NEW name, NEW p, NEW i
       PROVE  ~ Continue(r, [Idle EXCEPT !.op = "register", !.uid = i,
                                        !.call = "CreateWithPassword",
                                        !.email = Lower[e], !.name = name,
                                        !.pw = p])
    <3>1. PICK q : q = [Idle EXCEPT !.op = "register", !.uid = i,
                                    !.call = "CreateWithPassword",
                                    !.email = Lower[e], !.name = name,
                                    !.pw = p]
      OBVIOUS
    <3>2. q.call # "Issue"
      BY <3>1 DEF Idle
    <3>3. ~ Continue(r, q)
      BY <1>3, <3>2
    <3> QED
      BY <3>1, <3>3, Zenon
  <2> QED
    BY <1>2, <1>5, <2>1, Zenon DEF RegisterStart, Fails
<1>6. CASE CreateWithPassword(r) \/ LoginGetPasswordHash(r)
  BY <1>2, <1>6 DEF CreateWithPassword, LoginGetPasswordHash, LostReply, Fails
<1>7. CASE LoginFindByEmail(r)
  <2>1. ASSUME NEW e, NEW p, NEW u
       PROVE  ~ Continue(r, [Idle EXCEPT !.op = "login", !.uid = u, !.pw = p,
                                        !.call = "GetPasswordHash",
                                        !.email = Lower[e],
                                        !.linked = users[u].sub # NoSub])
    <3>1. PICK q : q = [Idle EXCEPT !.op = "login", !.uid = u, !.pw = p,
                                !.call = "GetPasswordHash",
                                !.email = Lower[e],
                                !.linked = users[u].sub # NoSub]
      OBVIOUS
    <3>2. q.call # "Issue"
      BY <3>1 DEF Idle
    <3>3. ~ Continue(r, q)
      BY <1>3, <3>2
    <3> QED
      BY <3>1, <3>3, Zenon
  <2> QED
    BY <1>2, <1>7, <2>1, Zenon DEF LoginFindByEmail, Fails
<1>8. CASE GoogleFindBySub(r)
  <2>1. PICK s \in Sub : \E u \in UserBySub(s) :
            Continue(r, [Idle EXCEPT !.op = "google", !.call = "Issue",
                                     !.uid = u, !.sub = s, !.linked = TRUE])
    <3>1. ASSUME NEW s, NEW e, NEW n
         PROVE  ~ Continue(r, [Idle EXCEPT !.op = "google",
                                          !.call = "FindByEmail", !.sub = s,
                                          !.email = Lower[e], !.name = n])
      <4>1. PICK q : q = [Idle EXCEPT !.op = "google",
                                  !.call = "FindByEmail", !.sub = s,
                                  !.email = Lower[e], !.name = n]
        OBVIOUS
      <4>2. q.call # "Issue"
        BY <4>1 DEF Idle
      <4>3. ~ Continue(r, q)
        BY <1>3, <4>2
      <4> QED
        BY <4>1, <4>3, Zenon
    <3> QED
      BY <1>2, <1>8, <3>1, Zenon DEF GoogleFindBySub, Fails
  <2>2. PICK u \in UserBySub(s) :
            Continue(r, [Idle EXCEPT !.op = "google", !.call = "Issue",
                                     !.uid = u, !.sub = s, !.linked = TRUE])
    BY <2>1
  <2>3. req'[r] = [Idle EXCEPT !.op = "google", !.call = "Issue",
                               !.uid = u, !.sub = s, !.linked = TRUE]
    BY <2>2, Memory
  <2>4. req'[r].op = "google" /\ req'[r].uid = u /\ req'[r].sub = s
    BY <2>3 DEF Idle
  <2> QED
    BY <1>8, <2>4
<1>9. CASE GoogleFindByEmail(r)
  <2>1. PICK q, op, code, linked :
            \/ Continue(r, q) /\ q.call \in {"Create", "LinkGoogleSub"}
            \/ Answer(r, op, code, linked)
    <3>1. \A i : /\ [req[r] EXCEPT !.call = "Create", !.uid = i].call
                       = "Create"
                 /\ [req[r] EXCEPT !.call = "LinkGoogleSub", !.uid = i,
                                   !.name = "blank"].call = "LinkGoogleSub"
      BY <1>1 DEF RequestState
    <3> QED
      BY <1>9, <3>1 DEF GoogleFindByEmail, Fails
  <2> QED
    BY <1>2, <1>3, <2>1
<1>10. CASE GoogleCreate(r)
  <2>1. [req[r] EXCEPT !.call = "FindByGoogleSub"].call = "FindByGoogleSub"
    BY <1>1 DEF RequestState
  <2> QED
    BY <1>2, <1>3, <1>10, <2>1 DEF GoogleCreate, LostReply, Fails
<1>11. CASE GoogleRefind(r) \/ GoogleBackfill(r)
  BY <1>2, <1>11 DEF GoogleRefind, GoogleBackfill, LostReply, Fails
<1>12. CASE LinkRefused(r) \/ LinkGoogleSub(r)
  BY <1>2, <1>12 DEF LinkRefused, LinkGoogleSub, LostReply, Fails
<1>13. CASE LinkFindByID(r)
  <2>1. ASSUME NEW u, NEW s
       PROVE  ~ Continue(r, [Idle EXCEPT !.op = "link", !.uid = u, !.sub = s,
                                        !.call = "LinkGoogleSub"])
    <3>1. PICK q : q = [Idle EXCEPT !.op = "link", !.uid = u, !.sub = s,
                                !.call = "LinkGoogleSub"]
      OBVIOUS
    <3>2. q.call # "Issue"
      BY <3>1 DEF Idle
    <3>3. ~ Continue(r, q)
      BY <1>3, <3>2
    <3> QED
      BY <3>1, <3>3, Zenon
  <2> QED
    BY <1>2, <1>13, <2>1, Zenon DEF LinkFindByID, Fails
<1>14. CASE UnlinkFindByID(r)
  <2>1. ASSUME NEW u
       PROVE  ~ Continue(r, [Idle EXCEPT !.op = "unlink", !.uid = u,
                                        !.call = "GetPasswordHash"])
    <3>1. PICK q : q = [Idle EXCEPT !.op = "unlink", !.uid = u,
                                !.call = "GetPasswordHash"]
      OBVIOUS
    <3>2. q.call # "Issue"
      BY <3>1 DEF Idle
    <3>3. ~ Continue(r, q)
      BY <1>3, <3>2
    <3> QED
      BY <3>1, <3>3, Zenon
  <2> QED
    BY <1>2, <1>14, <2>1, Zenon DEF UnlinkFindByID, Fails
<1>15. CASE UnlinkGetPasswordHash(r)
  <2>1. [req[r] EXCEPT !.call = "ClearGoogleSub"].call = "ClearGoogleSub"
    BY <1>1 DEF RequestState
  <2> QED
    BY <1>2, <1>3, <1>15, <2>1 DEF UnlinkGetPasswordHash, Fails
<1>16. CASE ClearGoogleSub(r) \/ DeleteAccount(r) \/ Me(r)
  BY <1>2, <1>16 DEF ClearGoogleSub, DeleteAccount, Me, LostReply, Fails
<1>17. CASE Issue(r) \/ FirstCallFails(r) \/ CallFails(r)
  BY <1>2, <1>17 DEF Issue, FirstCallFails, CallFails, Fails
<1> QED
  BY <1>4, <1>5, <1>6, <1>7, <1>8, <1>9, <1>10, <1>11, <1>12, <1>13, <1>14,
     <1>15, <1>16, <1>17 DEF AuthStep

(* The body of GoogleLoginHoldsSub, for one request.                       *)
HoldsSub(r) ==
    StartsIssue(r) /\ req'[r].op = "google"
      => /\ req'[r].uid \in DOMAIN users'
         /\ users'[req'[r].uid].sub = req'[r].sub

(* The body of LoginProvesPassword, for one request.                       *)
ProvesPassword(r) ==
    StartsIssue(r) /\ req'[r].op = "login"
      => /\ req'[r].uid \in DOMAIN users
         /\ users[req'[r].uid].email = req'[r].email
         /\ req'[r].uid \in DOMAIN creds
         /\ creds[req'[r].uid] = req'[r].pw

(* A step that signs for a Google sign-in: the account holds the sub.      *)
LEMMA SigningHoldsSub ==
    ASSUME AuthInv, NEW r \in Request, AuthStep(r)
    PROVE  HoldsSub(r)
<1> SUFFICES ASSUME StartsIssue(r), req'[r].op = "google"
             PROVE  /\ req'[r].uid \in DOMAIN users'
                    /\ users'[req'[r].uid].sub = req'[r].sub
  BY DEF HoldsSub
<1>1. ControlOK(req[r]) /\ users \in [DOMAIN users -> UserRow]
  BY DEF AuthInv, AuthTypeOK, StoreTypeOK, IsTable
<1>2. \A u, linked : GoIssue(r, u, linked) =>
         /\ req'[r].uid = u
         /\ req'[r].op = req[r].op
         /\ req'[r].sub = req[r].sub
  BY Memory
<1>3. CASE CreateWithPassword(r) /\ GoIssue(r, req[r].uid, FALSE)
  BY <1>1, <1>2, <1>3 DEF CreateWithPassword, ControlOK
<1>4. CASE /\ LoginGetPasswordHash(r)
           /\ GoIssue(r, req[r].uid, req[r].linked)
  BY <1>2, <1>4 DEF LoginGetPasswordHash
<1>5. CASE /\ GoogleFindBySub(r)
           /\ \E s \in Sub : \E u \in UserBySub(s) :
                 /\ req'[r].op = "google" /\ req'[r].uid = u
                 /\ req'[r].sub = s
  BY <1>5 DEF GoogleFindBySub, UserBySub, tables
<1>6. CASE GoogleCreate(r) /\ GoIssue(r, req[r].uid, TRUE)
  <2>1. users' = InsertRow(users, req[r].uid, GoogleRow(r))
    <3>1. req'[r].call = "Issue"
      BY DEF StartsIssue
    <3>2. ~ Continue(r, [req[r] EXCEPT !.call = "FindByGoogleSub"])
      <4>1. [req[r] EXCEPT !.call = "FindByGoogleSub"].call
               = "FindByGoogleSub"
        BY DEF AuthInv, AuthTypeOK, RequestState
      <4> QED
        BY <3>1, <4>1, Memory
    <3>3. \A code : ~ Fails(r, "google", code)
      BY <3>1, Memory DEF Fails
    <3> QED
      BY <1>6, <3>2, <3>3 DEF GoogleCreate
  <2>2. req[r].uid \in DOMAIN users' /\ users'[req[r].uid].sub = req[r].sub
    BY <2>1 DEF InsertRow, GoogleRow
  <2> QED
    BY <1>2, <1>6, <2>2
<1>7. CASE /\ GoogleRefind(r)
           /\ \E u \in UserBySub(req[r].sub) : GoIssue(r, u, TRUE)
  BY <1>2, <1>7 DEF GoogleRefind, UserBySub, tables
<1>8. CASE GoogleBackfill(r) /\ GoIssue(r, req[r].uid, FALSE)
  <2>1. req[r].uid \in DOMAIN users /\ SetSub(req[r].uid, req[r].sub)
    <3>1. \A code : ~ Fails(r, "google", code)
      BY Memory DEF StartsIssue, Fails
    <3> QED
      BY <1>8, <3>1 DEF GoogleBackfill
  <2>2. req[r].uid \in DOMAIN users' /\ users'[req[r].uid].sub = req[r].sub
    BY <1>1, <2>1 DEF SetSub, UserRow
  <2> QED
    BY <1>2, <1>8, <2>2
<1> QED
  BY <1>3, <1>4, <1>5, <1>6, <1>7, <1>8, WhoSigns

(* A step that signs for a login: the account still has the email and the  *)
(* password that were typed.                                               *)
LEMMA SigningProvesPassword ==
    ASSUME AuthInv, NEW r \in Request, AuthStep(r)
    PROVE  ProvesPassword(r)
<1> SUFFICES ASSUME StartsIssue(r), req'[r].op = "login"
             PROVE  /\ req'[r].uid \in DOMAIN users
                    /\ users[req'[r].uid].email = req'[r].email
                    /\ req'[r].uid \in DOMAIN creds
                    /\ creds[req'[r].uid] = req'[r].pw
  BY DEF ProvesPassword
<1>1. ControlOK(req[r]) /\ MemoryOK(req[r]) /\ CredentialsMatchProvider
  BY DEF AuthInv
<1>2. \A u, linked : GoIssue(r, u, linked) =>
         /\ req'[r].uid = u /\ req'[r].op = req[r].op
         /\ req'[r].email = req[r].email /\ req'[r].pw = req[r].pw
  BY Memory
<1>3. LoginGetPasswordHash(r) /\ GoIssue(r, req[r].uid, req[r].linked)
  BY <1>1, <1>2, WhoSigns
     DEF CreateWithPassword, GoogleCreate, GoogleRefind, GoogleBackfill,
         ControlOK
<1>4. CredentialMatches(req[r].uid, req[r].pw)
  <2>1. ~ Fails(r, "login", "invalid_credential")
    BY Memory DEF StartsIssue, Fails
  <2> QED
    BY <1>3, <2>1 DEF LoginGetPasswordHash
<1>5. /\ req[r].uid \in DOMAIN creds /\ creds[req[r].uid] = req[r].pw
      /\ req[r].uid \in DOMAIN users
  BY <1>1, <1>4 DEF CredentialMatches, CredentialsMatchProvider
<1>6. users[req[r].uid].email = req[r].email
  BY <1>1, <1>3, <1>5 DEF MemoryOK, LoginGetPasswordHash
<1> QED
  BY <1>2, <1>3, <1>5, <1>6

(* Any step, seen from any request: it is the one that runs, or it does    *)
(* not start to sign.                                                      *)
LEMMA NextSigns ==
    ASSUME AuthInv, AuthNext, NEW r \in Request
    PROVE  HoldsSub(r) /\ ProvesPassword(r)
<1>1. CASE AuthStep(r)
  BY <1>1, SigningHoldsSub, SigningProvesPassword
<1>2. CASE req'[r] = req[r]
  BY <1>2 DEF HoldsSub, ProvesPassword, StartsIssue
<1>3. AuthStep(r) \/ req'[r] = req[r]
  BY OnlyOneMoves DEF AuthNext, Expire
<1> QED
  BY <1>1, <1>2, <1>3

(* A Google sign-in enters an account that holds the sub of the idToken,   *)
(* never one that was met by its email alone.                              *)
THEOREM GoogleEntersBySub == AuthSpec => GoogleLoginHoldsSub
<1> DEFINE A == \A r \in Request : HoldsSub(r)
<1>1. AuthInv /\ [AuthNext]_authVars => [A]_authVars
  BY NextSigns
<1> QED
  BY <1>1, Invariance, PTL DEF AuthSpec, GoogleLoginHoldsSub, HoldsSub

(* A login enters an account whose email and password are those typed,     *)
(* although they are read in two calls.                                    *)
THEOREM LoginIsByPassword == AuthSpec => LoginProvesPassword
<1> DEFINE A == \A r \in Request : ProvesPassword(r)
<1>1. AuthInv /\ [AuthNext]_authVars => [A]_authVars
  BY NextSigns
<1> QED
  BY <1>1, Invariance, PTL DEF AuthSpec, LoginProvesPassword, ProvesPassword

-----------------------------------------------------------------------------
(* AuthService implements AccessDirectory: whatever its requests           *)
(* interleave to, the tables of users and credentials change as one        *)
(* directory of accounts and keys does.  The writes of a step are          *)
(* classified first (StepWrites); each class is then one action of the     *)
(* directory under the refinement mapping Entries, by what AuthInv says of *)
(* the tables.                                                             *)

(* The refinement mapping.                                                 *)

(* The keys of an account: its password and its Google identity, if any.   *)
LEMMA KeysAre ==
    ASSUME NEW u, NEW k
    PROVE  k \in Keys(u)
             <=> \/ u \in DOMAIN creds /\ k = <<"password", creds[u]>>
                 \/ users[u].sub # NoSub /\ k = <<"google", users[u].sub>>
BY DEF Keys

(* The same, after a step.                                                 *)
LEMMA KeysNext ==
    ASSUME NEW u, NEW k
    PROVE  k \in Keys(u)'
             <=> \/ u \in DOMAIN creds' /\ k = <<"password", creds'[u]>>
                 \/ users'[u].sub # NoSub /\ k = <<"google", users'[u].sub>>
BY DEF Keys

(* An entry is read off the row of its account and the credential.         *)
LEMMA EntriesAre ==
    /\ DOMAIN Entries = DOMAIN users
    /\ \A u \in DOMAIN users :
          Entries[u] = [email |-> users[u].email,
                        origin |-> users[u].provider, keys |-> Keys(u)]
BY DEF Entries

(* The same, after a step.                                                 *)
LEMMA EntriesNext ==
    Entries' = [u \in DOMAIN users' |->
                   [email |-> users'[u].email, origin |-> users'[u].provider,
                    keys |-> Keys(u)']]
BY DEF Entries

(* An account whose row and credential stay keeps its keys.                *)
LEMMA KeysStay ==
    ASSUME NEW u, users'[u] = users[u],
           u \in DOMAIN creds' <=> u \in DOMAIN creds,
           u \in DOMAIN creds => creds'[u] = creds[u]
    PROVE  Keys(u)' = Keys(u)
<1>1. users[u].sub = users'[u].sub
  OBVIOUS
<1>2. {<<"password", creds'[x]>> : x \in DOMAIN creds' \cap {u}}
         = {<<"password", creds[x]>> : x \in DOMAIN creds \cap {u}}
  OBVIOUS
<1> QED
  BY <1>1, <1>2 DEF Keys

-----------------------------------------------------------------------------
(* What a step may write.                                                  *)

(* Register: the account and its credential appear together.               *)
WritesPassword(r) ==
    /\ req[r].uid \in UserId \ DOMAIN users
    /\ req[r].email \in ValidEmail /\ req[r].pw \in Password
    /\ Violated(PasswordRow(r)) = {}
    /\ users' = InsertRow(users, req[r].uid, PasswordRow(r))
    /\ creds' = InsertRow(creds, req[r].uid, req[r].pw)

(* A Google sign-in creates the account.                                   *)
WritesGoogle(r) ==
    /\ req[r].uid \in UserId \ DOMAIN users
    /\ req[r].email \in ValidEmail /\ req[r].sub \in Sub
    /\ Violated(GoogleRow(r)) = {}
    /\ users' = InsertRow(users, req[r].uid, GoogleRow(r))
    /\ UNCHANGED creds

(* A link or a backfill.                                                   *)
WritesSub(r) ==
    /\ req[r].uid \in DOMAIN users /\ req[r].sub \in Sub
    /\ ~ SubTaken(req[r].uid, req[r].sub)
    /\ SetSub(req[r].uid, req[r].sub)
    /\ UNCHANGED creds

(* An unlink.                                                              *)
ClearsSub(r) ==
    /\ req[r].uid \in DOMAIN users /\ req[r].uid \in DOMAIN creds
    /\ SetSub(req[r].uid, NoSub)
    /\ UNCHANGED creds

(* Every step of a request does one of these, deletes one account, or      *)
(* leaves users and credentials alone.                                     *)
LEMMA StepWrites ==
    ASSUME AuthInv, NEW r \in Request, AuthStep(r)
    PROVE  \/ WritesPassword(r) \/ WritesGoogle(r)
           \/ WritesSub(r) \/ ClearsSub(r)
           \/ \E u \in DOMAIN users : DeleteUser(u)
           \/ UNCHANGED <<users, creds>>
<1>1. ControlOK(req[r]) /\ MemoryOK(req[r]) /\ IdsOK
  BY DEF AuthInv
<1>2. CASE CreateWithPassword(r)
  <2>1. /\ req[r].uid \in UserId \ DOMAIN users
        /\ req[r].email \in ValidEmail /\ req[r].pw \in Password
    BY <1>1, <1>2 DEF CreateWithPassword, ControlOK, IdsOK, Creating
  <2>2. \/ UNCHANGED <<users, creds>>
        \/ /\ Violated(PasswordRow(r)) = {}
           /\ users' = InsertRow(users, req[r].uid, PasswordRow(r))
           /\ creds' = InsertRow(creds, req[r].uid, req[r].pw)
    BY <1>2 DEF CreateWithPassword
  <2> QED
    BY <2>1, <2>2 DEF WritesPassword
<1>3. CASE GoogleCreate(r)
  <2>1. /\ req[r].uid \in UserId \ DOMAIN users
        /\ req[r].email \in ValidEmail /\ req[r].sub \in Sub
    BY <1>1, <1>3 DEF GoogleCreate, ControlOK, IdsOK, Creating
  <2>2. /\ UNCHANGED creds
        /\ \/ UNCHANGED users
           \/ /\ Violated(GoogleRow(r)) = {}
              /\ users' = InsertRow(users, req[r].uid, GoogleRow(r))
    BY <1>3 DEF GoogleCreate
  <2> QED
    BY <2>1, <2>2 DEF WritesGoogle
<1>4. CASE GoogleBackfill(r) \/ LinkGoogleSub(r)
  <2>1. req[r].sub \in Sub
    BY <1>1, <1>4 DEF GoogleBackfill, LinkGoogleSub, ControlOK
  <2>2. /\ UNCHANGED creds
        /\ \/ UNCHANGED users
           \/ /\ req[r].uid \in DOMAIN users
              /\ ~ SubTaken(req[r].uid, req[r].sub)
              /\ SetSub(req[r].uid, req[r].sub)
    BY <1>4 DEF GoogleBackfill, LinkGoogleSub
  <2> QED
    BY <2>1, <2>2 DEF WritesSub
<1>5. CASE ClearGoogleSub(r)
  <2>1. /\ UNCHANGED creds
        /\ \/ UNCHANGED users
           \/ req[r].uid \in DOMAIN users /\ SetSub(req[r].uid, NoSub)
    BY <1>5 DEF ClearGoogleSub
  <2>2. req[r].uid \in DOMAIN users => req[r].uid \in DOMAIN creds
    BY <1>1, <1>5 DEF ClearGoogleSub, MemoryOK
  <2> QED
    BY <2>1, <2>2 DEF ClearsSub
<1>6. CASE DeleteAccount(r)
  BY <1>6 DEF DeleteAccount, tables
<1>7. CASE UNCHANGED tables
  BY <1>7 DEF tables
<1> QED
  BY <1>2, <1>3, <1>4, <1>5, <1>6, <1>7
     DEF AuthStep, RegisterRefused, RegisterStart,
         LoginFindByEmail, LoginGetPasswordHash, GoogleRefused,
         GoogleFindBySub, GoogleFindByEmail, GoogleRefind,
         LinkRefused, LinkFindByID, UnlinkFindByID, UnlinkGetPasswordHash,
         Me, Issue, FirstCallFails, CallFails

-----------------------------------------------------------------------------
(* Each write is an action of the directory.                               *)

(* An email that violates no index is in no entry.                         *)
LEMMA FreshEmail ==
    ASSUME NEW row, Violated(row) = {}
    PROVE  ~ Directory!EmailInUse(row.email)
<1>1. \A u \in DOMAIN users : Lower[users[u].email] # Lower[row.email]
  BY DEF Violated
<1> QED
  BY <1>1, EntriesAre DEF Directory!EmailInUse

(* The two ways in which an account appears.                               *)
LEMMA InsertOpens ==
    ASSUME AuthInv, NEW i \in UserId, i \notin DOMAIN users,
           NEW row \in UserRow, Violated(row) = {},
           users' = InsertRow(users, i, row), NEW k, Keys(i)' = {k},
           \A u \in DOMAIN users : Keys(u)' = Keys(u)
    PROVE  Directory!OpenWith(i, row.email, row.provider, k)
<1>1. /\ DOMAIN users' = DOMAIN users \cup {i}
      /\ users'[i] = row
      /\ \A u \in DOMAIN users : users'[u] = users[u]
  BY DEF InsertRow
<1>2. Entries' = [x \in DOMAIN Entries \cup {i} |->
                     IF x = i
                     THEN [email |-> row.email, origin |-> row.provider,
                           keys |-> {k}]
                     ELSE Entries[x]]
  <2>1. \A x \in DOMAIN users \cup {i} :
            [email |-> users'[x].email, origin |-> users'[x].provider,
             keys |-> Keys(x)']
              = IF x = i
                THEN [email |-> row.email, origin |-> row.provider,
                      keys |-> {k}]
                ELSE Entries[x]
    BY <1>1, EntriesAre
  <2> QED
    BY <1>1, <2>1, EntriesAre, EntriesNext
<1> QED
  BY <1>2, FreshEmail, EntriesAre DEF Directory!OpenWith

(* Register opens an account with its password.                            *)
LEMMA PasswordOpens ==
    ASSUME AuthInv, NEW r \in Request, WritesPassword(r)
    PROVE  [Directory!Next]_Entries
<1> PICK i \in UserId : i = req[r].uid
  BY DEF WritesPassword
<1> PICK row : row = PasswordRow(r)
  OBVIOUS
<1> PICK k : k = <<"password", req[r].pw>>
  OBVIOUS
<1>1. /\ row \in UserRow /\ row.email \in ValidEmail /\ row.sub = NoSub
      /\ row.provider = "password"
  BY EmailAssumption DEF WritesPassword, PasswordRow, UserRow, Providers
<1>2. /\ i \notin DOMAIN users /\ Violated(row) = {}
      /\ users' = InsertRow(users, i, row)
      /\ creds' = InsertRow(creds, i, req[r].pw)
      /\ req[r].pw \in Password
  BY DEF WritesPassword
<1>3. Keys(i)' = {k}
  <2>1. users'[i] = row /\ i \in DOMAIN creds' /\ creds'[i] = req[r].pw
    BY <1>2 DEF InsertRow
  <2> QED
    BY <1>1, <2>1, KeysNext
<1>4. ASSUME NEW u \in DOMAIN users
      PROVE  Keys(u)' = Keys(u)
  <2>1. /\ users'[u] = users[u]
        /\ u \in DOMAIN creds' <=> u \in DOMAIN creds
        /\ u \in DOMAIN creds => creds'[u] = creds[u]
    BY <1>2 DEF InsertRow
  <2> QED
    BY <2>1, KeysStay
<1>5. Directory!OpenWith(i, row.email, row.provider, k)
  BY <1>1, <1>2, <1>3, <1>4, InsertOpens
<1>6. k \in {"password"} \X Password
  BY <1>2
<1> QED
  BY <1>1, <1>5, <1>6 DEF Directory!Next, Directory!OpenWithPassword

(* A first Google sign-in opens an account with its identity.              *)
LEMMA GoogleOpens ==
    ASSUME AuthInv, NEW r \in Request, WritesGoogle(r)
    PROVE  [Directory!Next]_Entries
<1> PICK i \in UserId : i = req[r].uid
  BY DEF WritesGoogle
<1> PICK row : row = GoogleRow(r)
  OBVIOUS
<1> PICK s \in Sub : s = req[r].sub
  BY DEF WritesGoogle
<1> PICK k : k = <<"google", s>>
  OBVIOUS
<1>1. /\ row \in UserRow /\ row.email \in ValidEmail /\ row.sub = s
      /\ row.provider = "google" /\ s # NoSub
  BY EmailAssumption, IdentityAssumption
     DEF WritesGoogle, GoogleRow, UserRow, Providers
<1>2. /\ i \notin DOMAIN users /\ Violated(row) = {}
      /\ users' = InsertRow(users, i, row)
      /\ UNCHANGED creds
  BY DEF WritesGoogle
<1>3. i \notin DOMAIN creds
  BY <1>2 DEF AuthInv, CredentialsMatchProvider
<1>4. Keys(i)' = {k}
  <2>1. users'[i] = row /\ i \notin DOMAIN creds'
    BY <1>2, <1>3 DEF InsertRow
  <2> QED
    BY <1>1, <2>1, KeysNext
<1>5. ASSUME NEW u \in DOMAIN users
      PROVE  Keys(u)' = Keys(u)
  <2>1. /\ users'[u] = users[u]
        /\ u \in DOMAIN creds' <=> u \in DOMAIN creds
        /\ u \in DOMAIN creds => creds'[u] = creds[u]
    BY <1>2 DEF InsertRow
  <2> QED
    BY <2>1, KeysStay
<1>6. Directory!OpenWith(i, row.email, row.provider, k)
  BY <1>1, <1>2, <1>4, <1>5, InsertOpens
<1>7. ~ Directory!Opens(k, DOMAIN Entries)
  <2>1. \A u \in DOMAIN users : users[u].sub # s
    BY <1>1, <1>2 DEF Violated
  <2>2. \A u \in DOMAIN users : k \notin Keys(u)
    BY <2>1, KeysAre
  <2> QED
    BY <2>2, EntriesAre DEF Directory!Opens
<1>8. k \in {"google"} \X Sub
  OBVIOUS
<1> QED
  BY <1>1, <1>6, <1>7, <1>8 DEF Directory!Next, Directory!OpenWithGoogle

(* What an UPDATE of google_sub makes of the entries.                      *)
LEMMA SetSubEntries ==
    ASSUME AuthInv, NEW u \in DOMAIN users, NEW s \in Sub \cup {NoSub},
           SetSub(u, s), UNCHANGED creds
    PROVE  Entries' = [Entries EXCEPT ![u].keys =
                          (@ \ ({"google"} \X Sub))
                             \cup {<<"google", x>> : x \in {s} \ {NoSub}}]
<1> DEFINE K == (Keys(u) \ ({"google"} \X Sub))
                   \cup {<<"google", x>> : x \in {s} \ {NoSub}}
<1>1. users \in [DOMAIN users -> UserRow]
  BY DEF AuthInv, AuthTypeOK, StoreTypeOK, IsTable
<1>2. /\ DOMAIN users' = DOMAIN users
      /\ \A v \in DOMAIN users : v # u => users'[v] = users[v]
      /\ users'[u].email = users[u].email
      /\ users'[u].provider = users[u].provider
      /\ users'[u].sub = s
  BY <1>1 DEF SetSub, UserRow
<1>3. Keys(u)' = K
  <2>1. users[u].sub \in Sub \cup {NoSub}
    BY <1>1 DEF UserRow
  <2>2. ASSUME NEW k
        PROVE  k \in Keys(u)' <=> k \in K
    <3>1. k \in Keys(u)'
            <=> \/ u \in DOMAIN creds /\ k = <<"password", creds[u]>>
                \/ s # NoSub /\ k = <<"google", s>>
      BY <1>2, KeysNext
    <3>2. k \in Keys(u)
            <=> \/ u \in DOMAIN creds /\ k = <<"password", creds[u]>>
                \/ users[u].sub # NoSub /\ k = <<"google", users[u].sub>>
      BY KeysAre
    <3>3. k \in Keys(u) \ ({"google"} \X Sub)
            <=> u \in DOMAIN creds /\ k = <<"password", creds[u]>>
      BY <2>1, <3>2
    <3> QED
      BY <3>1, <3>3
  <2> QED
    BY <2>2
<1>4. \A v \in DOMAIN users : v # u => Keys(v)' = Keys(v)
  BY <1>2, KeysStay
<1> HIDE DEF K
<1>5. Entries' = [v \in DOMAIN users |->
                     [email |-> users[v].email, origin |-> users[v].provider,
                      keys |-> IF v = u THEN K ELSE Keys(v)]]
  BY <1>2, <1>3, <1>4, EntriesNext
<1>6. Entries' = [Entries EXCEPT ![u].keys = K]
  BY <1>5 DEF Entries
<1>7. Entries[u].keys = Keys(u)
  BY EntriesAre
<1> QED
  BY <1>6, <1>7 DEF K

(* A link, or the backfill of a legacy account, attaches the identity.     *)
LEMMA SubAttaches ==
    ASSUME AuthInv, NEW r \in Request, WritesSub(r)
    PROVE  [Directory!Next]_Entries
<1> PICK u \in DOMAIN users : u = req[r].uid
  BY DEF WritesSub
<1> PICK s \in Sub : s = req[r].sub
  BY DEF WritesSub
<1> PICK k : k = <<"google", s>>
  OBVIOUS
<1>1. {<<"google", x>> : x \in {s} \ {NoSub}} = {k}
  BY IdentityAssumption
<1>2. Entries' = [Entries EXCEPT ![u].keys =
                     (@ \ ({"google"} \X Sub)) \cup {k}]
  BY <1>1, SetSubEntries DEF WritesSub
<1>3. ~ Directory!Opens(k, DOMAIN Entries \ {u})
  <2>1. \A v \in DOMAIN users \ {u} : users[v].sub # s
    BY DEF WritesSub, SubTaken
  <2>2. \A v \in DOMAIN users \ {u} : k \notin Keys(v)
    BY <2>1, KeysAre
  <2> QED
    BY <2>2, EntriesAre DEF Directory!Opens
<1>4. u \in DOMAIN Entries /\ u \in UserId /\ k \in {"google"} \X Sub
  BY EntriesAre DEF AuthInv, AuthTypeOK, StoreTypeOK, IsTable
<1> QED
  BY <1>2, <1>3, <1>4 DEF Directory!Next, Directory!Attach

(* An unlink detaches it, from an account that a password still opens.     *)
LEMMA SubDetaches ==
    ASSUME AuthInv, NEW r \in Request, ClearsSub(r)
    PROVE  [Directory!Next]_Entries
<1> PICK u \in DOMAIN users : u = req[r].uid
  BY DEF ClearsSub
<1>1. Entries' = [Entries EXCEPT ![u].keys = @ \ ({"google"} \X Sub)]
  <2>1. \A X : X \cup {<<"google", x>> : x \in {NoSub} \ {NoSub}} = X
    OBVIOUS
  <2> QED
    BY <2>1, SetSubEntries DEF ClearsSub
<1>2. u \in DOMAIN creds /\ creds[u] \in Password
  BY DEF ClearsSub, AuthInv, AuthTypeOK, StoreTypeOK, IsTable
<1>3. <<"password", creds[u]>> \in Keys(u)
  BY <1>2, KeysAre
<1>4. Entries[u].keys \cap ({"password"} \X Password) # {}
  BY <1>2, <1>3, EntriesAre
<1>5. u \in DOMAIN Entries /\ u \in UserId
  BY EntriesAre DEF AuthInv, AuthTypeOK, StoreTypeOK, IsTable
<1> QED
  BY <1>1, <1>4, <1>5 DEF Directory!Next, Directory!Detach

(* DELETE FROM users closes the account: the credential goes with it.      *)
LEMMA DeleteCloses ==
    ASSUME AuthInv, NEW u \in DOMAIN users, DeleteUser(u)
    PROVE  [Directory!Next]_Entries
<1>1. /\ DOMAIN users' = DOMAIN users \ {u}
      /\ \A v \in DOMAIN users \ {u} : users'[v] = users[v]
  BY DEF DeleteUser, DeleteRows
<1>2. \A v \in DOMAIN users \ {u} :
         /\ v \in DOMAIN creds' <=> v \in DOMAIN creds
         /\ v \in DOMAIN creds => creds'[v] = creds[v]
  BY DEF DeleteUser, DeleteRows
<1>3. \A v \in DOMAIN users \ {u} : Keys(v)' = Keys(v)
  BY <1>1, <1>2, KeysStay
<1>4. Entries' = [v \in DOMAIN Entries \ {u} |-> Entries[v]]
  BY <1>1, <1>3, EntriesAre, EntriesNext
<1>5. u \in DOMAIN Entries /\ u \in UserId
  BY EntriesAre DEF AuthInv, AuthTypeOK, StoreTypeOK, IsTable
<1> QED
  BY <1>4, <1>5 DEF Directory!Next, Directory!Close

-----------------------------------------------------------------------------
(* The implementation.                                                     *)

(* The accounts older than migration 0003 are of Google origin and have no *)
(* key yet.                                                                *)
LEMMA DirectoryInit == AuthInit => Directory!Init
<1> SUFFICES ASSUME AuthInit PROVE Directory!Init
  OBVIOUS
<1>1. PICK L \in SUBSET LegacyId : \E e \in [L -> ValidEmail] :
          /\ \A u, v \in L : e[u] = e[v] => u = v
          /\ users = [u \in L |-> LegacyRow(e[u])]
  BY DEF AuthInit, StoreInit
<1>2. PICK e \in [L -> ValidEmail] :
          /\ \A u, v \in L : e[u] = e[v] => u = v
          /\ users = [u \in L |-> LegacyRow(e[u])]
  BY <1>1
<1>3. \A u \in L : Keys(u) = {}
  BY <1>2, KeysAre DEF AuthInit, StoreInit, LegacyRow
<1>4. Entries = [a \in L |-> [email |-> e[a], origin |-> "google",
                              keys |-> {}]]
  BY <1>2, <1>3 DEF Entries, LegacyRow
<1>5. L \in SUBSET UserId
  BY IdentityAssumption
<1> QED
  BY <1>2, <1>4, <1>5 DEF Directory!Init

(* Every step of the service is a step of the directory or a stutter.      *)
LEMMA DirectoryNext ==
    AuthInv /\ [AuthNext]_authVars => [Directory!Next]_Entries
<1> SUFFICES ASSUME AuthInv, [AuthNext]_authVars
             PROVE  Directory!Next \/ UNCHANGED Entries
  OBVIOUS
<1>1. CASE UNCHANGED <<users, creds>>
  BY <1>1 DEF Entries, Keys
<1>2. ASSUME NEW r \in Request, AuthStep(r)
      PROVE  Directory!Next \/ UNCHANGED Entries
  BY <1>1, <1>2, StepWrites, PasswordOpens, GoogleOpens, SubAttaches,
     SubDetaches, DeleteCloses
<1>3. ASSUME NEW u \in UserId, Expire(u)
      PROVE  UNCHANGED <<users, creds>>
  BY <1>3 DEF Expire, tables
<1>4. CASE UNCHANGED authVars
  BY <1>1, <1>4 DEF authVars, storeVars
<1> QED
  BY <1>1, <1>2, <1>3, <1>4 DEF AuthNext

(* The service of accounts implements the directory of accounts and keys.  *)
THEOREM Implementation == AuthSpec => ImplementsDirectory
<1> QED
  BY DirectoryInit, DirectoryNext, Invariance, PTL
     DEF AuthSpec, ImplementsDirectory, Directory!Spec
=============================================================================
