--------------------------- MODULE Accounts_proofs ---------------------------
(***************************************************************************)
(* The two account services on the same tables: AccountsInv is an          *)
(* invariant, for any number of accounts, tokens, requests in flight and   *)
(* failures, and with it the properties of the verification of emails.     *)
(* Each service is shown to leave the other's invariant alone.             *)
(***************************************************************************)
EXTENDS Accounts, AuthService_proofs, VerificationService_proofs

-----------------------------------------------------------------------------
(* Initially.                                                              *)

(* It holds at the start.                                                  *)
LEMMA AccountsInvInit == AccountsInit => AccountsInv
<1> SUFFICES ASSUME AccountsInit PROVE AccountsInv
  OBVIOUS
<1>1. AuthInv
  BY InvInit DEF AccountsInit
<1>2. /\ DOMAIN tokens = {}
      /\ \A u \in DOMAIN users : users[u].provider = "google"
  BY DEF AccountsInit, AuthInit, StoreInit, LegacyRow
<1>3. VerInv
  BY <1>1, <1>2, NoRequestsYet DEF AccountsInit, AuthInv, AuthTypeOK
<1>4. NoIdReturns
  BY VIdleOK DEF AccountsInit, AuthInit, VInit, NoIdReturns, Creating, Idle
<1> QED
  BY <1>1, <1>3, <1>4 DEF AccountsInv

-----------------------------------------------------------------------------
(* A step of the account service.                                          *)

(* What a step of an account request leaves of users and tokens.           *)
TablesMove(r) ==
    /\ DOMAIN tokens' = {t \in DOMAIN tokens :
                             tokens[t].user \in DOMAIN users'}
    /\ \A t \in DOMAIN tokens' : tokens'[t] = tokens[t]
    /\ \A u \in DOMAIN users \cap DOMAIN users' :
          /\ users'[u].verified = users[u].verified
          /\ users'[u].provider = users[u].provider
    /\ \A u \in DOMAIN users' \ DOMAIN users :
          /\ users'[u].verified => users'[u].provider # "password"
          /\ Creating(req[r]) /\ req[r].uid = u

(* Every step of an account request is such a move: only an INSERT brings  *)
(* an account, only a deletion takes tokens, and none verifies an email.   *)
LEMMA AuthStepMoves ==
    ASSUME AccountsInv, NEW r \in Request, AuthStep(r)
    PROVE  TablesMove(r)
<1>1. NoOrphanTokens /\ users \in [DOMAIN users -> UserRow]
  BY DEF AccountsInv, VerInv, AuthInv, AuthTypeOK, StoreTypeOK, IsTable
<1>2. ASSUME UNCHANGED <<users, tokens>>
      PROVE  TablesMove(r)
  BY <1>1, <1>2 DEF TablesMove, NoOrphanTokens
<1>3. ASSUME UNCHANGED tokens, Creating(req[r]), NEW row,
             row.verified => row.provider # "password",
             users' = InsertRow(users, req[r].uid, row)
      PROVE  TablesMove(r)
  <2>1. req[r].uid \notin DOMAIN users
    BY <1>3 DEF AccountsInv, AuthInv, IdsOK
  <2>2. /\ DOMAIN users' = DOMAIN users \cup {req[r].uid}
        /\ \A u \in DOMAIN users : users'[u] = users[u]
        /\ users'[req[r].uid] = row
    BY <1>3, <2>1 DEF InsertRow
  <2> QED
    BY <1>1, <1>3, <2>2 DEF TablesMove, NoOrphanTokens
<1>4. ASSUME UNCHANGED tokens, NEW u \in DOMAIN users, NEW s, SetSub(u, s)
      PROVE  TablesMove(r)
  <2>1. /\ DOMAIN users' = DOMAIN users
        /\ \A v \in DOMAIN users : v # u => users'[v] = users[v]
        /\ users'[u] = [users[u] EXCEPT !.sub = s]
    BY <1>1, <1>4 DEF SetSub
  <2>2. /\ users'[u].verified = users[u].verified
        /\ users'[u].provider = users[u].provider
    BY <1>1, <2>1 DEF UserRow
  <2> QED
    BY <1>1, <1>4, <2>1, <2>2 DEF TablesMove, NoOrphanTokens
<1>5. ASSUME NEW u \in DOMAIN users, DeleteUser(u)
      PROVE  TablesMove(r)
  BY <1>1, <1>5 DEF TablesMove, NoOrphanTokens, DeleteUser, DeleteRows
<1>6. CASE CreateWithPassword(r) \/ GoogleCreate(r)
  <2>1. \/ UNCHANGED users
        \/ users' = InsertRow(users, req[r].uid, PasswordRow(r))
        \/ users' = InsertRow(users, req[r].uid, GoogleRow(r))
    BY <1>6 DEF CreateWithPassword, GoogleCreate
  <2>2. UNCHANGED tokens /\ Creating(req[r])
    BY <1>6 DEF CreateWithPassword, GoogleCreate, Creating
  <2>3. /\ PasswordRow(r).verified => PasswordRow(r).provider # "password"
        /\ GoogleRow(r).verified => GoogleRow(r).provider # "password"
    BY DEF PasswordRow, GoogleRow
  <2> QED
    BY <1>2, <1>3, <2>1, <2>2, <2>3
<1>7. CASE GoogleBackfill(r) \/ LinkGoogleSub(r) \/ ClearGoogleSub(r)
  BY <1>2, <1>4, <1>7 DEF GoogleBackfill, LinkGoogleSub, ClearGoogleSub
<1>8. CASE DeleteAccount(r)
  BY <1>2, <1>5, <1>8 DEF DeleteAccount, tables
<1>9. CASE UNCHANGED <<users, tokens>>
  BY <1>2, <1>9
<1> QED
  BY <1>6, <1>7, <1>8, <1>9
     DEF AuthStep, RegisterRefused, RegisterStart,
         LoginFindByEmail, LoginGetPasswordHash, GoogleRefused,
         GoogleFindBySub, GoogleFindByEmail, GoogleRefind,
         LinkRefused, LinkFindByID, UnlinkFindByID, UnlinkGetPasswordHash,
         Me, Issue, FirstCallFails, CallFails, tables

(* Ids are only added to those handed out, and a request that begins to    *)
(* create an account has a new one.                                        *)
LEMMA AuthStepIds ==
    ASSUME AccountsInv, NEW r \in Request, AuthStep(r)
    PROVE  /\ usedIds \subseteq usedIds'
           /\ \A s \in Request : Creating(req'[s]) =>
                 req'[s] = req[s] \/ req'[s].uid \notin usedIds
<1>1. /\ req \in [Request -> RequestState]
      /\ req[r] \in RequestState
  BY DEF AccountsInv, AuthInv, AuthTypeOK
<1>2. ASSUME NEW q, req' = [req EXCEPT ![r] = q],
             Creating(q) => q.uid \notin usedIds
      PROVE  \A s \in Request : Creating(req'[s]) =>
                 req'[s] = req[s] \/ req'[s].uid \notin usedIds
  BY <1>1, <1>2
<1>3. CASE RegisterStart(r)
  <2>1. PICK e \in RawEmail, name \in Name, p \in Password, i \in UserId :
          /\ NewID(i)
          /\ usedIds' = usedIds \cup {i}
          /\ Continue(r, [Idle EXCEPT !.op = "register", !.uid = i,
                                      !.call = "CreateWithPassword",
                                      !.email = Lower[e], !.name = name,
                                      !.pw = p])
    BY <1>3 DEF RegisterStart
  <2> PICK q : q = [Idle EXCEPT !.op = "register", !.uid = i,
                                !.call = "CreateWithPassword",
                                !.email = Lower[e], !.name = name, !.pw = p]
    OBVIOUS
  <2>2. q.uid = i
    BY DEF Idle
  <2>3. req' = [req EXCEPT ![r] = q]
    BY <2>1 DEF Continue
  <2> QED
    BY <1>2, <2>1, <2>2, <2>3 DEF NewID
<1>4. ASSUME NEW i \in UserId, NewID(i), usedIds' = usedIds \cup {i},
             Continue(r, [req[r] EXCEPT !.call = "Create", !.uid = i])
      PROVE  /\ usedIds \subseteq usedIds'
             /\ \A s \in Request : Creating(req'[s]) =>
                   req'[s] = req[s] \/ req'[s].uid \notin usedIds
  <2> PICK q : q = [req[r] EXCEPT !.call = "Create", !.uid = i]
    OBVIOUS
  <2>1. q.uid = i
    BY <1>1 DEF RequestState
  <2>2. req' = [req EXCEPT ![r] = q]
    BY <1>4 DEF Continue
  <2> QED
    BY <1>2, <1>4, <2>1, <2>2 DEF NewID
<1>5. ASSUME UNCHANGED usedIds,
             \E q : req' = [req EXCEPT ![r] = q] /\ ~ Creating(q)
      PROVE  /\ usedIds \subseteq usedIds'
             /\ \A s \in Request : Creating(req'[s]) =>
                   req'[s] = req[s] \/ req'[s].uid \notin usedIds
  BY <1>2, <1>5
<1>6. ASSUME NEW op, NEW code, NEW linked, NEW e, NEW n,
             Answer(r, op, code, linked) \/ FailsOn(r, op, code, e, n)
      PROVE  \E q : req' = [req EXCEPT ![r] = q] /\ ~ Creating(q)
  BY <1>6, IdleOK DEF Answer, FailsOn, AnswerTo
<1>7. ASSUME NEW u, NEW linked, GoIssue(r, u, linked)
      PROVE  \E q : req' = [req EXCEPT ![r] = q] /\ ~ Creating(q)
  <2> PICK q : q = [req[r] EXCEPT !.call = "Issue", !.uid = u,
                                  !.linked = linked, !.name = "blank"]
    OBVIOUS
  <2>1. req' = [req EXCEPT ![r] = q]
    BY <1>7 DEF GoIssue, Continue
  <2>2. q.call = "Issue"
    BY <1>1 DEF RequestState
  <2> QED
    BY <2>1, <2>2 DEF Creating
<1>8. ASSUME NEW c \in {"FindByGoogleSub", "ClearGoogleSub"},
             Continue(r, [req[r] EXCEPT !.call = c])
      PROVE  \E q : req' = [req EXCEPT ![r] = q] /\ ~ Creating(q)
  <2> PICK q : q = [req[r] EXCEPT !.call = c]
    OBVIOUS
  <2>1. req' = [req EXCEPT ![r] = q]
    BY <1>8 DEF Continue
  <2>2. q.call = c
    BY <1>1 DEF RequestState
  <2> QED
    BY <2>1, <2>2 DEF Creating
<1>9. ASSUME NEW q, Continue(r, q), ~ Creating(q)
      PROVE  \E x : req' = [req EXCEPT ![r] = x] /\ ~ Creating(x)
  BY <1>9 DEF Continue
<1>10. CASE GoogleFindByEmail(r)
  <2>1. ASSUME NEW u, UNCHANGED usedIds,
               Continue(r, [req[r] EXCEPT !.call = "LinkGoogleSub", !.uid = u,
                                          !.name = "blank"])
        PROVE  \E q : req' = [req EXCEPT ![r] = q] /\ ~ Creating(q)
    <3> PICK q : q = [req[r] EXCEPT !.call = "LinkGoogleSub", !.uid = u,
                                    !.name = "blank"]
      OBVIOUS
    <3>1. req' = [req EXCEPT ![r] = q]
      BY <2>1 DEF Continue
    <3>2. q.call = "LinkGoogleSub"
      BY <1>1 DEF RequestState
    <3> QED
      BY <3>1, <3>2 DEF Creating
  <2> QED
    BY <1>4, <1>5, <1>6, <1>10, <2>1 DEF GoogleFindByEmail, Fails
<1>11. CASE LoginFindByEmail(r)
  <2>1. PICK e, p, u :
          \/ \E code : FailsOn(r, "login", code, e, "blank")
          \/ Continue(r, [Idle EXCEPT !.op = "login", !.uid = u, !.pw = p,
                                      !.call = "GetPasswordHash",
                                      !.email = Lower[e],
                                      !.linked = users[u].sub # NoSub])
    BY <1>11 DEF LoginFindByEmail
  <2> PICK q : q = [Idle EXCEPT !.op = "login", !.uid = u, !.pw = p,
                                !.call = "GetPasswordHash",
                                !.email = Lower[e],
                                !.linked = users[u].sub # NoSub]
    OBVIOUS
  <2>2. q.call = "GetPasswordHash"
    BY DEF Idle
  <2>3. \/ \E code : FailsOn(r, "login", code, e, "blank")
        \/ req' = [req EXCEPT ![r] = q]
    BY <2>1 DEF Continue
  <2>4. UNCHANGED usedIds /\ ~ Creating(q)
    BY <1>11, <2>2 DEF LoginFindByEmail, Creating
  <2> QED
    BY <1>5, <1>6, <2>3, <2>4
<1>12. CASE GoogleFindBySub(r) \/ LinkFindByID(r) \/ UnlinkFindByID(r)
  <2>1. UNCHANGED usedIds
    BY <1>12 DEF GoogleFindBySub, LinkFindByID, UnlinkFindByID
  <2>2. ASSUME NEW u, NEW s,
               Continue(r, [Idle EXCEPT !.op = "google", !.call = "Issue",
                                        !.uid = u, !.sub = s,
                                        !.linked = TRUE])
        PROVE  \E q : req' = [req EXCEPT ![r] = q] /\ ~ Creating(q)
    <3> PICK q : q = [Idle EXCEPT !.op = "google", !.call = "Issue",
                                  !.uid = u, !.sub = s, !.linked = TRUE]
      OBVIOUS
    <3>1. ~ Creating(q)
      BY DEF Idle, Creating
    <3> QED
      BY <1>9, <2>2, <3>1
  <2>3. ASSUME NEW s, NEW e, NEW name,
               Continue(r, [Idle EXCEPT !.op = "google",
                                        !.call = "FindByEmail", !.sub = s,
                                        !.email = Lower[e], !.name = name])
        PROVE  \E q : req' = [req EXCEPT ![r] = q] /\ ~ Creating(q)
    <3> PICK q : q = [Idle EXCEPT !.op = "google", !.call = "FindByEmail",
                                  !.sub = s, !.email = Lower[e],
                                  !.name = name]
      OBVIOUS
    <3>1. ~ Creating(q)
      BY DEF Idle, Creating
    <3> QED
      BY <1>9, <2>3, <3>1
  <2>4. ASSUME NEW u, NEW s,
               Continue(r, [Idle EXCEPT !.op = "link", !.uid = u, !.sub = s,
                                        !.call = "LinkGoogleSub"])
        PROVE  \E q : req' = [req EXCEPT ![r] = q] /\ ~ Creating(q)
    <3> PICK q : q = [Idle EXCEPT !.op = "link", !.uid = u, !.sub = s,
                                  !.call = "LinkGoogleSub"]
      OBVIOUS
    <3>1. ~ Creating(q)
      BY DEF Idle, Creating
    <3> QED
      BY <1>9, <2>4, <3>1
  <2>5. ASSUME NEW u,
               Continue(r, [Idle EXCEPT !.op = "unlink", !.uid = u,
                                        !.call = "GetPasswordHash"])
        PROVE  \E q : req' = [req EXCEPT ![r] = q] /\ ~ Creating(q)
    <3> PICK q : q = [Idle EXCEPT !.op = "unlink", !.uid = u,
                                  !.call = "GetPasswordHash"]
      OBVIOUS
    <3>1. ~ Creating(q)
      BY DEF Idle, Creating
    <3> QED
      BY <1>9, <2>5, <3>1
  <2>6. CASE GoogleFindBySub(r)
    BY <1>5, <1>6, <2>1, <2>2, <2>3, <2>6 DEF GoogleFindBySub, Fails
  <2>7. CASE LinkFindByID(r)
    BY <1>5, <1>6, <2>1, <2>4, <2>7 DEF LinkFindByID, Fails
  <2>8. CASE UnlinkFindByID(r)
    BY <1>5, <1>6, <2>1, <2>5, <2>8 DEF UnlinkFindByID, Fails
  <2> QED
    BY <1>12, <2>6, <2>7, <2>8
<1>13. CASE \/ GoogleRefind(r) \/ UnlinkGetPasswordHash(r)
            \/ CreateWithPassword(r) \/ LoginGetPasswordHash(r)
            \/ GoogleCreate(r) \/ GoogleBackfill(r)
  BY <1>5, <1>6, <1>7, <1>8, <1>13
     DEF GoogleRefind, UnlinkGetPasswordHash, CreateWithPassword,
         LoginGetPasswordHash, GoogleCreate, GoogleBackfill, LostReply, Fails
<1>14. CASE \/ RegisterRefused(r) \/ GoogleRefused(r) \/ LinkRefused(r)
            \/ LinkGoogleSub(r) \/ ClearGoogleSub(r) \/ DeleteAccount(r)
            \/ Me(r) \/ Issue(r) \/ FirstCallFails(r) \/ CallFails(r)
  BY <1>5, <1>6, <1>14
     DEF RegisterRefused, GoogleRefused, LinkRefused, LinkGoogleSub,
         ClearGoogleSub, DeleteAccount, Me, Issue, FirstCallFails, CallFails,
         LostReply, Fails
<1> QED
  BY <1>3, <1>10, <1>11, <1>12, <1>13, <1>14 DEF AuthStep

(* A step of the account service keeps both invariants.                    *)
LEMMA AuthNextKeeps ==
    ASSUME AccountsInv, AuthNext, vanswer' = VNoAnswer,
           UNCHANGED <<vreq, mailbox, clock>>
    PROVE  AccountsInv'
<1>1. AuthInv'
  BY InvNext DEF AccountsInv
<1>2. StoreTypeOK' /\ vanswer' \in VResponse /\ VerInv /\ NoIdReturns
  BY <1>1
     DEF AccountsInv, AuthInv, AuthTypeOK, VNoAnswer, VResponse, Code
<1>3. ASSUME NEW r \in Request, AuthStep(r)
      PROVE  VerInv' /\ NoIdReturns'
  <2>1. TablesMove(r)
    BY <1>3, AuthStepMoves
  <2>2. /\ usedIds \subseteq usedIds'
        /\ \A s \in Request : Creating(req'[s]) =>
              req'[s] = req[s] \/ req'[s].uid \notin usedIds
    BY <1>3, AuthStepIds
  <2>3. \A u \in DOMAIN users' \ DOMAIN users :
           \A v \in VRequest : vreq[v].uid # u
    BY <1>2, <2>1 DEF TablesMove, NoIdReturns
  <2>4. VerInv'
    BY <1>2, <2>1, <2>2, <2>3, AccountsChange DEF TablesMove
  <2>5. NoIdReturns'
    <3> SUFFICES ASSUME NEW v \in VRequest
                 PROVE  /\ vreq[v].uid \in usedIds' \cup {NoUser}
                        /\ \A s \in Request :
                              Creating(req'[s]) => req'[s].uid # vreq[v].uid
      BY DEF NoIdReturns
    <3>1. vreq[v].uid \in usedIds \cup {NoUser}
      BY <1>2 DEF NoIdReturns
    <3>2. ASSUME NEW s \in Request, Creating(req'[s])
          PROVE  req'[s].uid # vreq[v].uid
      <4>1. CASE req'[s] = req[s]
        BY <1>2, <3>2, <4>1 DEF NoIdReturns
      <4>2. CASE req'[s].uid \notin usedIds
        <5>1. req'[s].uid \in UserId
          BY <1>1, <3>2 DEF AuthInv, ControlOK, Creating
        <5> QED
          BY <3>1, <4>2, <5>1, IdentityAssumption
      <4> QED
        BY <2>2, <3>2, <4>1, <4>2
    <3> QED
      BY <2>2, <3>1, <3>2
  <2> QED
    BY <2>4, <2>5
<1>4. ASSUME NEW u \in UserId, Expire(u)
      PROVE  VerInv' /\ NoIdReturns'
  <2>1. UNCHANGED <<users, tokens, usedIds, req>>
    BY <1>4 DEF Expire, tables
  <2>2. VerInv'
    BY <1>2, <2>1, AccountsChange DEF VerInv, NoOrphanTokens
  <2>3. NoIdReturns'
    BY <1>2, <2>1 DEF NoIdReturns
  <2> QED
    BY <2>2, <2>3
<1> QED
  BY <1>1, <1>3, <1>4 DEF AuthNext, AccountsInv

-----------------------------------------------------------------------------
(* A step of the verification service.                                     *)

(* It writes nothing that the account service relies on: it marks tokens   *)
(* and emails, and the ids it takes are new.                               *)
LEMMA VerStepMoves ==
    ASSUME AccountsInv, NEW r \in VRequest, VerStep(r)
    PROVE  /\ UNCHANGED <<creds, sessions>> /\ usedIds \subseteq usedIds'
           /\ DOMAIN users' = DOMAIN users
           /\ \A u \in DOMAIN users :
                 /\ users'[u].email = users[u].email
                 /\ users'[u].provider = users[u].provider
                 /\ users'[u].sub = users[u].sub
           /\ \A v \in VRequest :
                 vreq'[v].uid \in {vreq[v].uid, NoUser} \cup DOMAIN users
<1>1. /\ users \in [DOMAIN users -> UserRow] /\ NoOrphanTokens
      /\ vreq \in [VRequest -> VRequestState]
  BY DEF AccountsInv, VerInv, VerTypeOK, StoreTypeOK, IsTable
<1>2. UNCHANGED <<creds, sessions>> /\ usedIds \subseteq usedIds'
  BY DEF VerStep, Proceed, RequestFindByID, CreateToken,
         SendVerificationEmail, ConfirmUnknown, ConfirmFindByHash, MarkUsed,
         SetEmailVerified, VFirstCallFails, VCallFails, tables, storeVars
<1>3. /\ DOMAIN users' = DOMAIN users
      /\ \A u \in DOMAIN users :
            /\ users'[u].email = users[u].email
            /\ users'[u].provider = users[u].provider
            /\ users'[u].sub = users[u].sub
  <2>1. UNCHANGED users \/ \E u \in DOMAIN users : SetVerified(u)
    BY DEF VerStep, Proceed, RequestFindByID, CreateToken,
           SendVerificationEmail, ConfirmUnknown, ConfirmFindByHash, MarkUsed,
           SetEmailVerified, VFirstCallFails, VCallFails, tables, storeVars
  <2>2. ASSUME NEW u \in DOMAIN users, SetVerified(u)
        PROVE  /\ DOMAIN users' = DOMAIN users
               /\ \A v \in DOMAIN users : v # u => users'[v] = users[v]
               /\ users'[u].email = users[u].email
               /\ users'[u].provider = users[u].provider
               /\ users'[u].sub = users[u].sub
    <3>1. /\ DOMAIN users' = DOMAIN users
          /\ \A v \in DOMAIN users : v # u => users'[v] = users[v]
          /\ users'[u] = [users[u] EXCEPT !.verified = TRUE]
      BY <1>1, <2>2 DEF SetVerified
    <3> QED
      BY <1>1, <3>1 DEF UserRow
  <2> QED
    BY <2>1, <2>2
<1>4. ASSUME NEW v \in VRequest
      PROVE  vreq'[v].uid \in {vreq[v].uid, NoUser} \cup DOMAIN users
  <2>1. ASSUME NEW q, vreq' = [vreq EXCEPT ![r] = q],
               q.uid \in {vreq[r].uid, NoUser} \cup DOMAIN users
        PROVE  vreq'[v].uid \in {vreq[v].uid, NoUser} \cup DOMAIN users
    BY <1>1, <2>1
  <2>2. ASSUME NEW op, NEW code, VAnswer(r, op, code)
        PROVE  vreq'[v].uid \in {vreq[v].uid, NoUser} \cup DOMAIN users
    BY <2>1, <2>2, VIdleOK DEF VAnswer
  <2>3. ASSUME NEW q, VContinue(r, q),
               q.uid \in {vreq[r].uid, NoUser} \cup DOMAIN users
        PROVE  vreq'[v].uid \in {vreq[v].uid, NoUser} \cup DOMAIN users
    BY <2>1, <2>3 DEF VContinue
  <2>4. ASSUME NEW c, VContinue(r, [vreq[r] EXCEPT !.call = c])
        PROVE  vreq'[v].uid \in {vreq[v].uid, NoUser} \cup DOMAIN users
    <3> PICK q : q = [vreq[r] EXCEPT !.call = c]
      OBVIOUS
    <3>1. q.uid = vreq[r].uid
      BY <1>1 DEF VRequestState
    <3> QED
      BY <2>3, <2>4, <3>1
  <2>5. ASSUME NEW u \in UserId, RequestFindByID(r, u)
        PROVE  vreq'[v].uid \in {vreq[v].uid, NoUser} \cup DOMAIN users
    BY <2>2, <2>3, <2>5 DEF RequestFindByID
  <2>6. ASSUME NEW t \in TokenId, ConfirmFindByHash(r, t)
        PROVE  vreq'[v].uid \in {vreq[v].uid, NoUser} \cup DOMAIN users
    BY <1>1, <2>2, <2>3, <2>6 DEF ConfirmFindByHash, NoOrphanTokens
  <2>7. CASE CreateToken(r) \/ MarkUsed(r)
    BY <2>2, <2>4, <2>7 DEF CreateToken, MarkUsed, VLostReply
  <2>8. CASE \/ ConfirmUnknown(r) \/ SendVerificationEmail(r)
             \/ SetEmailVerified(r) \/ VFirstCallFails(r) \/ VCallFails(r)
    BY <2>2, <2>8
       DEF ConfirmUnknown, SendVerificationEmail, SetEmailVerified,
           VFirstCallFails, VCallFails, VLostReply
  <2> QED
    BY <2>5, <2>6, <2>7, <2>8 DEF VerStep, Proceed
<1> QED
  BY <1>2, <1>3, <1>4

(* A step of the verification service, or of time, keeps both invariants.  *)
LEMMA VerStepKeepsAccounts ==
    ASSUME AccountsInv, answer' = NoAnswer, UNCHANGED req,
           (\E r \in VRequest : VerStep(r)) \/ Tick
    PROVE  AccountsInv'
<1>1. VerInv'
  BY VerStepKeeps, TickKeeps DEF AccountsInv
<1>2. /\ UNCHANGED <<creds, sessions>> /\ usedIds \subseteq usedIds'
      /\ DOMAIN users' = DOMAIN users
      /\ \A u \in DOMAIN users :
            /\ users'[u].email = users[u].email
            /\ users'[u].provider = users[u].provider
            /\ users'[u].sub = users[u].sub
      /\ \A v \in VRequest :
            vreq'[v].uid \in {vreq[v].uid, NoUser} \cup DOMAIN users
  <2>1. CASE Tick
    BY <2>1 DEF Tick, storeVars
  <2> QED
    BY <2>1, VerStepMoves
<1>3. AuthInv /\ NoIdReturns
  BY DEF AccountsInv
<1>4. AuthTypeOK'
  BY <1>1, <1>3
     DEF VerInv, VerTypeOK, AuthInv, AuthTypeOK, NoAnswer, Response, Op, Code
<1>5. EmailsCanonical' /\ UniqueKeys' /\ CredentialsMatchProvider'
  BY <1>2, <1>3
     DEF AuthInv, EmailsCanonical, UniqueKeys, CredentialsMatchProvider
<1>6. IdsOK'
  BY <1>2, <1>3 DEF AuthInv, IdsOK
<1>7. \A r \in Request : ControlOK(req'[r]) /\ MemoryOK(req[r])'
  BY <1>2, <1>3 DEF AuthInv, MemoryOK
<1>8. NoIdReturns'
  <2>1. DOMAIN users \subseteq usedIds
    BY <1>3 DEF AuthInv, IdsOK
  <2>2. ASSUME NEW s \in Request, Creating(req[s])
        PROVE  req[s].uid \notin DOMAIN users /\ req[s].uid # NoUser
    BY <1>3, <2>2, IdentityAssumption
       DEF AuthInv, IdsOK, ControlOK, Creating
  <2> QED
    BY <1>2, <1>3, <2>1, <2>2 DEF NoIdReturns
<1> QED
  BY <1>1, <1>4, <1>5, <1>6, <1>7, <1>8 DEF AccountsInv, AuthInv

-----------------------------------------------------------------------------
(* The invariant of the two services, and the properties.                  *)

(* Both services keep AccountsInv.                                         *)
THEOREM AccountsInvariance == AccountsSpec => []AccountsInv
<1>1. AccountsInv /\ [AccountsNext]_accountsVars => AccountsInv'
  <2> SUFFICES ASSUME AccountsInv, [AccountsNext]_accountsVars
               PROVE  AccountsInv'
    OBVIOUS
  <2>1. CASE AccountsNext
    BY <2>1, AuthNextKeeps, VerStepKeepsAccounts DEF AccountsNext
  <2>2. CASE UNCHANGED accountsVars
    <3>1. AuthInv'
      BY <2>2, InvNext DEF accountsVars, AccountsInv
    <3>2. UNCHANGED verVars /\ UNCHANGED <<req, usedIds>>
      BY <2>2 DEF accountsVars, authVars, verVars, storeVars
    <3>3. VerInv'
      BY <3>2
         DEF verVars, storeVars, AccountsInv, VerInv, VerTypeOK, StoreTypeOK,
             VerifiedByLink, OneConfirmer, UsedBeforeExpiry, NoOrphanTokens,
             TokensFresh, ConfirmsOwnToken
    <3> QED
      BY <3>1, <3>2, <3>3 DEF verVars, AccountsInv, NoIdReturns
  <2> QED
    BY <2>1, <2>2
<1> QED
  BY AccountsInvInit, <1>1, PTL DEF AccountsSpec

(* An account of password origin is verified only by a link that was       *)
(* mailed for it and is used up.                                           *)
THEOREM OnlyLinksVerify == AccountsSpec => []VerifiedByLink
BY AccountsInvariance, PTL DEF AccountsInv, VerInv

(* Of the confirmations that saw a token unused, one gets to mark the      *)
(* email.                                                                  *)
THEOREM OneConfirmationCounts == AccountsSpec => []OneConfirmer
BY AccountsInvariance, PTL DEF AccountsInv, VerInv

(* No token is recorded as used at or after the instant it expired.        *)
THEOREM NeverUsedLate == AccountsSpec => []UsedBeforeExpiry
BY AccountsInvariance, PTL DEF AccountsInv, VerInv

(* Every token in the table belongs to an account in the table.            *)
THEOREM TokensHaveAccounts == AccountsSpec => []NoOrphanTokens
BY AccountsInvariance, PTL DEF AccountsInv, VerInv
=============================================================================
