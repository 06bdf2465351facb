---------------------------- MODULE AuthService -----------------------------
(***************************************************************************)
(* The application service of accounts: register, log in, sign in with     *)
(* Google, link and unlink Google, delete the account, read it.  Requests  *)
(* run concurrently; each is a sequence of repository calls, and between   *)
(* two calls of one request any other request may run.  An action is one   *)
(* call with the code around it: what comes before the first call of a     *)
(* handler reads no shared state, so the arrival of a request is merged    *)
(* with its first call.                                                    *)
(*                                                                         *)
(* Each member of Request is a slot that serves one request after another. *)
(***************************************************************************)
EXTENDS AccountStore, ErrorCodes

CONSTANT
    Request      \* requests in flight at once (a bound)

VARIABLES
    req,         \* what the handler of each slot holds in memory
    answer       \* the response a handler wrote in the last step, if it did

authVars == <<storeVars, req, answer>>

MinPasswordLen == 8
MaxPasswordLen == 72

Op == {"none", "register", "login", "google", "link", "unlink", "delete", "me"}

(* Operations behind authMiddleware: the user id is that of a valid token. *)
Authenticated == {"link", "unlink", "delete", "me"}

(* The repository call (or token issue) a request makes next.              *)
Call == {"none", "CreateWithPassword", "GetPasswordHash", "FindByEmail",
         "Create", "FindByGoogleSub", "LinkGoogleSub", "ClearGoogleSub",
         "Issue"}

(* What the name of a request is once trimmed.                             *)
Name == {"blank", "text", "nul"}

RequestState ==
    [op : Op, call : Call, uid : UserId \cup {NoUser},
     email : RawEmail \cup {NoEmail}, sub : Sub \cup {NoSub},
     pw : Password \cup {NoPassword}, name : Name, linked : BOOLEAN]

Idle ==
    [op |-> "none", call |-> "none", uid |-> NoUser, email |-> NoEmail,
     sub |-> NoSub, pw |-> NoPassword, name |-> "blank", linked |-> FALSE]

Response == [op : Op, code : Code, linked : BOOLEAN, nul : BOOLEAN]

NoAnswer == [op |-> "none", code |-> "none", linked |-> FALSE, nul |-> FALSE]

AuthTypeOK ==
    /\ StoreTypeOK
    /\ req \in [Request -> RequestState]
    /\ answer \in Response

AuthInit ==
    /\ StoreInit
    /\ req = [r \in Request |-> Idle]
    /\ answer = NoAnswer

-----------------------------------------------------------------------------
(* Steps of a request.                                                     *)

Free(r) == req[r].call = "none"

(* A text of the request has a U+0000: a string of JSON may, a parameter   *)
(* of a statement may not, and Postgres refuses it before it runs.         *)
HasNul(email, name) == email \in NulEmail \/ name = "nul"

(* The handler writes its response; linked is GoogleLinked() of the user   *)
(* it answers with, nul whether a text of the request has a U+0000.        *)
AnswerTo(r, op, code, linked, nul) ==
    /\ req' = [req EXCEPT ![r] = Idle]
    /\ answer' = [op |-> op, code |-> code, linked |-> linked, nul |-> nul]

Answer(r, op, code, linked) ==
    AnswerTo(r, op, code, linked, HasNul(req[r].email, req[r].name))

Fails(r, op, code) == Answer(r, op, code, FALSE)

(* A request fails on its first call: the slot holds nothing of it yet.    *)
FailsOn(r, op, code, email, name) ==
    AnswerTo(r, op, code, FALSE, HasNul(email, name))

(* The request goes on with the given memory.                              *)
Continue(r, state) ==
    /\ req' = [req EXCEPT ![r] = state]
    /\ answer' = NoAnswer

(* issue(u): the service goes on to sign a token for the user it holds;    *)
(* no statement takes the name from here on.                               *)
GoIssue(r, u, linked) ==
    Continue(r, [req[r] EXCEPT !.call = "Issue", !.uid = u, !.linked = linked,
                               !.name = "blank"])

(* A write took effect, but its acknowledgement is lost (connection,       *)
(* deadline): the code sees an infrastructure error, a 500.                *)
LostReply(r, op) ==
    /\ faults > 0
    /\ faults' = faults - 1
    /\ Fails(r, op, "internal_error")

NewUserOK(e, name) == Lower[e] \in ValidEmail /\ name # "blank"

(* Mutant: the guard for bcrypt's limit is forgotten.                      *)
PasswordOK_NoMax(p) == PasswordLen[p] >= MinPasswordLen

PasswordOK(p) == PasswordLen[p] >= MinPasswordLen /\ PasswordLen[p] <= MaxPasswordLen

(* bcrypt refuses a password longer than 72 bytes.                         *)
HashOK(p) == PasswordLen[p] <= 72

-----------------------------------------------------------------------------
(* Register.                                                               *)

RegisterRefused(r) ==
    /\ Free(r)
    /\ \E e \in RawEmail, name \in Name, p \in Password :
          \/ /\ ~ (NewUserOK(e, name) /\ PasswordOK(p))
             /\ FailsOn(r, "register", "validation_failed", e, name)
          \/ /\ NewUserOK(e, name) /\ PasswordOK(p)
             /\ ~ HashOK(p)
             /\ FailsOn(r, "register", "internal_error", e, name)
    /\ UNCHANGED <<tables, usedIds, sessions, faults>>

(* Mutant: the email is validated normalised and stored as it came.        *)
RegisterStart_RawEmail(r) ==
    /\ Free(r)
    /\ \E e \in RawEmail, name \in Name, p \in Password, i \in UserId :
          /\ NewUserOK(e, name) /\ PasswordOK(p) /\ HashOK(p)
          /\ NewID(i)
          /\ usedIds' = usedIds \cup {i}
          /\ Continue(r, [Idle EXCEPT !.op = "register", !.uid = i,
                                      !.call = "CreateWithPassword",
                                      !.email = e, !.name = name,
                                      !.pw = p])
    /\ UNCHANGED <<tables, sessions, faults>>

RegisterStart(r) ==
    /\ Free(r)
    /\ \E e \in RawEmail, name \in Name, p \in Password, i \in UserId :
          /\ NewUserOK(e, name) /\ PasswordOK(p) /\ HashOK(p)
          /\ NewID(i)
          /\ usedIds' = usedIds \cup {i}
          /\ Continue(r, [Idle EXCEPT !.op = "register", !.uid = i,
                                      !.call = "CreateWithPassword",
                                      !.email = Lower[e], !.name = name,
                                      !.pw = p])
    /\ UNCHANGED <<tables, sessions, faults>>

PasswordRow(r) ==
    [email |-> req[r].email, provider |-> "password", sub |-> NoSub,
     verified |-> FALSE]

(* Nothing checks the name for a U+0000 before the INSERT, which answers   *)
(* a 500.                                                                  *)
TextRefused(r) == HasNul(req[r].email, req[r].name)

(* One transaction: the user and its credential, or neither.               *)
CreateWithPassword(r) ==
    /\ req[r].call = "CreateWithPassword"
    /\ \/ /\ TextRefused(r)
          /\ Fails(r, req[r].op, "internal_error")
          /\ UNCHANGED <<users, creds, faults>>
       \/ /\ ~ TextRefused(r)
          /\ "users_email_lower_uniq" \in Violated(PasswordRow(r))
          /\ Fails(r, req[r].op, "email_taken")
          /\ UNCHANGED <<users, creds, faults>>
       \/ /\ ~ TextRefused(r)
          /\ Violated(PasswordRow(r)) = {}
          /\ users' = InsertRow(users, req[r].uid, PasswordRow(r))
          /\ creds' = InsertRow(creds, req[r].uid, req[r].pw)
          /\ \/ GoIssue(r, req[r].uid, FALSE) /\ UNCHANGED faults
             \/ LostReply(r, req[r].op)
    /\ UNCHANGED <<tokens, usedIds, sessions>>

-----------------------------------------------------------------------------
(* Login.  Whatever is wrong with the credential, the answer is the same;  *)
(* the email is not validated, and the SELECT refuses one with a U+0000.   *)

LoginFindByEmail(r) ==
    /\ Free(r)
    /\ \E e \in RawEmail, p \in Password :
          \/ /\ e \in NulEmail
             /\ FailsOn(r, "login", "internal_error", e, "blank")
          \/ /\ e \notin NulEmail
             /\ UserByEmail(Lower[e]) = {}
             /\ FailsOn(r, "login", "invalid_credential", e, "blank")
          \/ \E u \in UserByEmail(Lower[e]) :
                Continue(r, [Idle EXCEPT !.op = "login", !.uid = u, !.pw = p,
                                         !.call = "GetPasswordHash",
                                         !.email = Lower[e],
                                         !.linked = users[u].sub # NoSub])
    /\ UNCHANGED <<tables, usedIds, sessions, faults>>

(* Mutant: having a credential is enough.                                  *)
CredentialMatches_Any(u, p) == u \in DOMAIN creds

(* GetPasswordHash and Compare.                                            *)
CredentialMatches(u, p) == u \in DOMAIN creds /\ creds[u] = p

LoginGetPasswordHash(r) ==
    /\ req[r].call = "GetPasswordHash"
    /\ req[r].op = "login"
    /\ \/ /\ CredentialMatches(req[r].uid, req[r].pw)
          /\ GoIssue(r, req[r].uid, req[r].linked)
       \/ /\ ~ CredentialMatches(req[r].uid, req[r].pw)
          /\ Fails(r, "login", "invalid_credential")
    /\ UNCHANGED <<tables, usedIds, sessions, faults>>

-----------------------------------------------------------------------------
(* AuthenticateWithGoogle.  The claims of the idToken are those Google     *)
(* signs today: an email may be verified or not, and may have belonged to  *)
(* somebody else before.                                                   *)

(* An idToken that is missing, or that does not verify.                    *)
GoogleRefused(r) ==
    /\ Free(r)
    /\ \E code \in {"bad_request", "unauthorized"} : Fails(r, "google", code)
    /\ UNCHANGED <<tables, usedIds, sessions, faults>>

(* The stable key first: an account that holds the sub is entered whatever *)
(* the email says; without one, an email that is not verified is refused   *)
(* and a verified one is looked up.                                        *)
GoogleFindBySub(r) ==
    /\ Free(r)
    /\ \E s \in Sub :
          \/ \E u \in UserBySub(s) :
                Continue(r, [Idle EXCEPT !.op = "google", !.call = "Issue",
                                         !.uid = u, !.sub = s,
                                         !.linked = TRUE])
          \/ /\ UserBySub(s) = {}
             /\ Fails(r, "google", "email_not_verified")
          \/ /\ UserBySub(s) = {}
             /\ \E e \in RawEmail, name \in Name :
                   Continue(r, [Idle EXCEPT !.op = "google",
                                            !.call = "FindByEmail", !.sub = s,
                                            !.email = Lower[e],
                                            !.name = name])
    /\ UNCHANGED <<tables, usedIds, sessions, faults>>

(* Mutant: any account without a Google identity is taken for a legacy one. *)
GoogleFindByEmail_Merges(r) ==
    /\ req[r].call = "FindByEmail"
    /\ \E u \in UserByEmail(req[r].email) :
          /\ users[u].sub = NoSub
          /\ Continue(r, [req[r] EXCEPT !.call = "LinkGoogleSub", !.uid = u,
                                        !.name = "blank"])
    /\ UNCHANGED <<tables, usedIds, sessions, faults>>

(* No account has the email: create one.  A legacy Google account has it:  *)
(* fill in its sub.  Any other account: the email is taken.                *)
GoogleFindByEmail(r) ==
    /\ req[r].call = "FindByEmail"
    /\ \/ /\ req[r].email \in NulEmail
          /\ Fails(r, "google", "internal_error")
          /\ UNCHANGED usedIds
       \/ /\ req[r].email \notin NulEmail
          /\ UserByEmail(req[r].email) = {}
          /\ ~ NewUserOK(req[r].email, req[r].name)
          /\ Fails(r, "google", "validation_failed")
          /\ UNCHANGED usedIds
       \/ /\ UserByEmail(req[r].email) = {}
          /\ NewUserOK(req[r].email, req[r].name)
          /\ \E i \in UserId :
                /\ NewID(i)
                /\ usedIds' = usedIds \cup {i}
                /\ Continue(r, [req[r] EXCEPT !.call = "Create", !.uid = i])
       \/ \E u \in UserByEmail(req[r].email) :
             IF users[u].sub = NoSub /\ users[u].provider = "google"
             THEN /\ Continue(r, [req[r] EXCEPT !.call = "LinkGoogleSub",
                                                !.uid = u, !.name = "blank"])
                  /\ UNCHANGED usedIds
             ELSE /\ Fails(r, "google", "email_taken")
                  /\ UNCHANGED usedIds
    /\ UNCHANGED <<tables, sessions, faults>>

GoogleRow(r) ==
    [email |-> req[r].email, provider |-> "google", sub |-> req[r].sub,
     verified |-> TRUE]

(* Mutant: the winner of the race is looked up by email.                   *)
GoogleCreate_EntersByEmail(r) ==
    /\ req[r].call = "Create"
    /\ \/ \E u \in UserByEmail(req[r].email) :
             /\ GoIssue(r, u, TRUE)
             /\ UNCHANGED users
       \/ /\ Violated(GoogleRow(r)) = {}
          /\ users' = InsertRow(users, req[r].uid, GoogleRow(r))
          /\ GoIssue(r, req[r].uid, TRUE)
    /\ UNCHANGED <<creds, tokens, usedIds, sessions, faults>>

(* The INSERT reports one of the indexes it violates.  Another request     *)
(* with the same sub won: enter its account.                               *)
GoogleCreate(r) ==
    /\ req[r].call = "Create"
    /\ \/ /\ TextRefused(r)
          /\ Fails(r, "google", "internal_error")
          /\ UNCHANGED <<users, faults>>
       \/ \E c \in Violated(GoogleRow(r)) :
             /\ ~ TextRefused(r)
             /\ \/ /\ c = "users_email_lower_uniq"
                   /\ Fails(r, "google", "email_taken")
                \/ /\ c = "users_google_sub_key"
                   /\ Continue(r, [req[r] EXCEPT !.call = "FindByGoogleSub"])
             /\ UNCHANGED <<users, faults>>
       \/ /\ ~ TextRefused(r)
          /\ Violated(GoogleRow(r)) = {}
          /\ users' = InsertRow(users, req[r].uid, GoogleRow(r))
          /\ \/ GoIssue(r, req[r].uid, TRUE) /\ UNCHANGED faults
             \/ LostReply(r, "google")
    /\ UNCHANGED <<creds, tokens, usedIds, sessions>>

GoogleRefind(r) ==
    /\ req[r].call = "FindByGoogleSub"
    /\ \/ \E u \in UserBySub(req[r].sub) : GoIssue(r, u, TRUE)
       \/ /\ UserBySub(req[r].sub) = {}
          /\ Fails(r, "google", "google_link_conflict")
    /\ UNCHANGED <<tables, usedIds, sessions, faults>>

(* The legacy account: the user in memory keeps a nil GoogleSub, and that  *)
(* is the one the response is made from.                                   *)
GoogleBackfill(r) ==
    /\ req[r].call = "LinkGoogleSub"
    /\ req[r].op = "google"
    /\ \/ /\ req[r].uid \notin DOMAIN users
          /\ Fails(r, "google", "user_not_found")
          /\ UNCHANGED <<users, faults>>
       \/ /\ req[r].uid \in DOMAIN users
          /\ SubTaken(req[r].uid, req[r].sub)
          /\ Fails(r, "google", "email_taken")
          /\ UNCHANGED <<users, faults>>
       \/ /\ req[r].uid \in DOMAIN users
          /\ ~ SubTaken(req[r].uid, req[r].sub)
          /\ SetSub(req[r].uid, req[r].sub)
          /\ \/ GoIssue(r, req[r].uid, FALSE) /\ UNCHANGED faults
             \/ LostReply(r, "google")
    /\ UNCHANGED <<creds, tokens, usedIds, sessions>>

-----------------------------------------------------------------------------
(* LinkGoogle: attach the Google identity of the idToken to the account.   *)

LinkRefused(r) ==
    /\ Free(r)
    /\ sessions # {}
    /\ \E code \in {"bad_request", "invalid_google_token"} : Fails(r, "link", code)
    /\ UNCHANGED <<tables, usedIds, sessions, faults>>

LinkFindByID(r) ==
    /\ Free(r)
    /\ \E u \in sessions, s \in Sub :
          IF u \notin DOMAIN users THEN Fails(r, "link", "user_not_found")
          ELSE IF users[u].sub = s THEN Answer(r, "link", "ok", TRUE)
          ELSE IF users[u].sub # NoSub
               THEN Fails(r, "link", "google_link_conflict")
          ELSE Continue(r, [Idle EXCEPT !.op = "link", !.uid = u, !.sub = s,
                                        !.call = "LinkGoogleSub"])
    /\ UNCHANGED <<tables, usedIds, sessions, faults>>

LinkGoogleSub(r) ==
    /\ req[r].call = "LinkGoogleSub"
    /\ req[r].op = "link"
    /\ \/ /\ req[r].uid \notin DOMAIN users
          /\ Fails(r, "link", "user_not_found")
          /\ UNCHANGED <<users, faults>>
       \/ /\ req[r].uid \in DOMAIN users
          /\ SubTaken(req[r].uid, req[r].sub)
          /\ Fails(r, "link", "google_link_conflict")
          /\ UNCHANGED <<users, faults>>
       \/ /\ req[r].uid \in DOMAIN users
          /\ ~ SubTaken(req[r].uid, req[r].sub)
          /\ SetSub(req[r].uid, req[r].sub)
          /\ \/ Answer(r, "link", "ok", TRUE) /\ UNCHANGED faults
             \/ LostReply(r, "link")
    /\ UNCHANGED <<creds, tokens, usedIds, sessions>>

-----------------------------------------------------------------------------
(* UnlinkGoogle: only from an account that keeps a password credential.    *)

UnlinkFindByID(r) ==
    /\ Free(r)
    /\ \E u \in sessions :
          IF u \notin DOMAIN users THEN Fails(r, "unlink", "user_not_found")
          ELSE IF users[u].sub = NoSub THEN Answer(r, "unlink", "ok", FALSE)
          ELSE Continue(r, [Idle EXCEPT !.op = "unlink", !.uid = u,
                                        !.call = "GetPasswordHash"])
    /\ UNCHANGED <<tables, usedIds, sessions, faults>>

(* Mutant: the credential is not looked at.                                *)
UnlinkGetPasswordHash_Unchecked(r) ==
    /\ req[r].call = "GetPasswordHash"
    /\ req[r].op = "unlink"
    /\ Continue(r, [req[r] EXCEPT !.call = "ClearGoogleSub"])
    /\ UNCHANGED <<tables, usedIds, sessions, faults>>

(* Mutant: the repository's error is returned as it is.                    *)
UnlinkGetPasswordHash_Propagates(r) ==
    /\ req[r].call = "GetPasswordHash"
    /\ req[r].op = "unlink"
    /\ IF req[r].uid \in DOMAIN creds
       THEN Continue(r, [req[r] EXCEPT !.call = "ClearGoogleSub"])
       ELSE Fails(r, "unlink", "invalid_credential")
    /\ UNCHANGED <<tables, usedIds, sessions, faults>>

UnlinkGetPasswordHash(r) ==
    /\ req[r].call = "GetPasswordHash"
    /\ req[r].op = "unlink"
    /\ \/ /\ req[r].uid \notin DOMAIN creds
          /\ Fails(r, "unlink", "cannot_unlink_google")
       \/ /\ req[r].uid \in DOMAIN creds
          /\ Continue(r, [req[r] EXCEPT !.call = "ClearGoogleSub"])
    /\ UNCHANGED <<tables, usedIds, sessions, faults>>

ClearGoogleSub(r) ==
    /\ req[r].call = "ClearGoogleSub"
    /\ \/ /\ req[r].uid \notin DOMAIN users
          /\ Fails(r, "unlink", "user_not_found")
          /\ UNCHANGED <<users, faults>>
       \/ /\ req[r].uid \in DOMAIN users
          /\ SetSub(req[r].uid, NoSub)
          /\ \/ Answer(r, "unlink", "ok", FALSE) /\ UNCHANGED faults
             \/ LostReply(r, "unlink")
    /\ UNCHANGED <<creds, tokens, usedIds, sessions>>

-----------------------------------------------------------------------------
(* DeleteAccount and Me: one statement each.                               *)

DeleteAccount(r) ==
    /\ Free(r)
    /\ \E u \in sessions :
          \/ /\ u \notin DOMAIN users
             /\ Fails(r, "delete", "user_not_found")
             /\ UNCHANGED <<tables, faults>>
          \/ /\ u \in DOMAIN users
             /\ DeleteUser(u)
             /\ \/ Answer(r, "delete", "ok", FALSE) /\ UNCHANGED faults
                \/ LostReply(r, "delete")
    /\ UNCHANGED <<usedIds, sessions>>

Me(r) ==
    /\ Free(r)
    /\ \E u \in sessions :
          IF u \in DOMAIN users
          THEN Answer(r, "me", "ok", users[u].sub # NoSub)
          ELSE Fails(r, "me", "user_not_found")
    /\ UNCHANGED <<tables, usedIds, sessions, faults>>

-----------------------------------------------------------------------------
(* issue: the token names the user in memory; nobody looks whether the     *)
(* account is still there.  A token expires some time later.               *)

Issue(r) ==
    /\ req[r].call = "Issue"
    /\ sessions' = sessions \cup {req[r].uid}
    /\ Answer(r, req[r].op, "ok", req[r].linked)
    /\ UNCHANGED <<tables, usedIds, faults>>

Expire(u) ==
    /\ u \in sessions
    /\ sessions' = sessions \ {u}
    /\ answer' = NoAnswer
    /\ UNCHANGED <<tables, usedIds, req, faults>>

-----------------------------------------------------------------------------
(* The database (or the token signer) fails a call, which has no effect.   *)
(* An error while looking for the account that won a creation race is      *)
(* dropped, and the conflict is answered instead.                          *)

FirstCallFails(r) ==
    /\ Free(r)
    /\ faults > 0
    /\ faults' = faults - 1
    /\ \E op \in Op \ {"none", "register"} :
          /\ op \in Authenticated => sessions # {}
          /\ Fails(r, op, "internal_error")
    /\ UNCHANGED <<tables, usedIds, sessions>>

CallFails(r) ==
    /\ ~ Free(r)
    /\ faults > 0
    /\ faults' = faults - 1
    /\ Fails(r, req[r].op,
             IF req[r].call = "FindByGoogleSub" THEN "google_link_conflict"
                                                ELSE "internal_error")
    /\ UNCHANGED <<tables, usedIds, sessions>>

-----------------------------------------------------------------------------
AuthStep(r) ==
    \/ RegisterRefused(r) \/ RegisterStart(r) \/ CreateWithPassword(r)
    \/ LoginFindByEmail(r) \/ LoginGetPasswordHash(r)
    \/ GoogleRefused(r) \/ GoogleFindBySub(r) \/ GoogleFindByEmail(r)
    \/ GoogleCreate(r) \/ GoogleRefind(r) \/ GoogleBackfill(r)
    \/ LinkRefused(r) \/ LinkFindByID(r) \/ LinkGoogleSub(r)
    \/ UnlinkFindByID(r) \/ UnlinkGetPasswordHash(r) \/ ClearGoogleSub(r)
    \/ DeleteAccount(r) \/ Me(r) \/ Issue(r)
    \/ FirstCallFails(r) \/ CallFails(r)

AuthNext == (\E r \in Request : AuthStep(r)) \/ (\E u \in UserId : Expire(u))

AuthSpec == AuthInit /\ [][AuthNext]_authVars

-----------------------------------------------------------------------------
(* Properties.                                                             *)

(* No two accounts have the same email up to spelling, nor the same Google *)
(* identity, however creations, links and backfills interleave: the checks *)
(* in the service are stale when the write runs, the indexes are not.      *)
UniqueKeys ==
    \A u, v \in DOMAIN users :
        \/ u = v
        \/ /\ Lower[users[u].email] # Lower[users[v].email]
           /\ users[u].sub = NoSub \/ users[u].sub # users[v].sub

(* Emails are stored as the domain wants them, valid and normalised, in    *)
(* whatever spelling they arrive and whichever operation stores them.      *)
EmailsCanonical == \A u \in DOMAIN users : users[u].email \in ValidEmail

(* Exactly the accounts of password origin have a credential: registration *)
(* never leaves one without the other, nor does a deletion.                *)
CredentialsMatchProvider ==
    DOMAIN creds = {u \in DOMAIN users : users[u].provider = "password"}

(* Google leaves an account only while a password still opens it, although *)
(* UnlinkGoogle looks for the credential two calls before it clears the    *)
(* sub.                                                                    *)
UnlinkKeepsAccess ==
    [][\A u \in DOMAIN users \cap DOMAIN users' :
          users[u].sub # NoSub /\ users'[u].sub = NoSub => u \in DOMAIN creds']_authVars

StartsIssue(r) == req'[r].call = "Issue" /\ req[r].call # "Issue"

(* When a Google sign-in decides to sign a token, the account it is for    *)
(* holds the sub of the idToken: never an account met by its email alone.  *)
GoogleLoginHoldsSub ==
    [][\A r \in Request :
          StartsIssue(r) /\ req'[r].op = "google"
            => /\ req'[r].uid \in DOMAIN users'
               /\ users'[req'[r].uid].sub = req'[r].sub]_authVars

(* When a login decides to sign a token, the account exists, has the email *)
(* that was typed and the password that was typed, although the three are  *)
(* read in two calls and the account may be deleted in between.            *)
LoginProvesPassword ==
    [][\A r \in Request :
          StartsIssue(r) /\ req'[r].op = "login"
            => /\ req'[r].uid \in DOMAIN users
               /\ users[req'[r].uid].email = req'[r].email
               /\ req'[r].uid \in DOMAIN creds
               /\ creds[req'[r].uid] = req'[r].pw]_authVars

(* A Google sign-in attaches its sub only to an account of Google origin   *)
(* with the (verified) email of the idToken; a password account gets a     *)
(* Google identity from a link of its own session and in no other way.     *)
NoMergeByEmail ==
    [][\A r \in Request, u \in DOMAIN users \cap DOMAIN users' :
          users'[u].sub # users[u].sub /\ req'[r] # req[r]
            => \/ req[r].op = "google" /\ users[u].provider = "google"
                    /\ users[u].email = req[r].email
               \/ req[r].op \in {"link", "unlink"} /\ req[r].uid = u]_authVars

(* A token outlives its account, but an id never comes back: the session   *)
(* of a deleted account never becomes the session of another one.          *)
DeadSessionsStayDead ==
    [][\A u \in sessions : u \notin DOMAIN users => u \notin DOMAIN users']_authVars

(* Once a request is past the authentication, it is never answered 401:    *)
(* the client takes a 401 for an expired session and signs the user out.   *)
AuthenticatedNever401 ==
    answer.op \in Authenticated => StatusForCode(answer.code) # 401

(* A 500 is the infrastructure's, or the answer to a text with a U+0000    *)
(* that the validations let through to a statement: no other input and no  *)
(* interleaving makes a handler answer internal_error by itself.           *)
NoSpuriousInternalError ==
    [][answer'.code = "internal_error" => faults' # faults \/ answer'.nul]_authVars

(* The service is a directory of accounts and the keys that open them.     *)
Keys(u) ==
    {<<"password", creds[x]>> : x \in DOMAIN creds \cap {u}}
      \cup {<<"google", s>> : s \in {users[u].sub} \ {NoSub}}

Entries ==
    [u \in DOMAIN users |-> [email |-> users[u].email,
                             origin |-> users[u].provider, keys |-> Keys(u)]]

Directory == INSTANCE AccessDirectory WITH
    AccountId <- UserId, EmailAddress <- ValidEmail,
    PasswordKey <- {"password"} \X Password, GoogleKey <- {"google"} \X Sub,
    entry <- Entries

ImplementsDirectory == Directory!Spec

-----------------------------------------------------------------------------
(* What the requests in flight may rely on, although others run between    *)
(* their calls: the part that makes the properties above inductive.        *)

Creating(q) == q.call \in {"CreateWithPassword", "Create"}

(* The control points of each operation, and the data it carries there.    *)
ControlOK(q) ==
    /\ q.call = "none" => q = Idle
    /\ q.call = "CreateWithPassword" =>
          q.op = "register" /\ q.email \in ValidEmail /\ q.pw \in Password
    /\ q.call = "GetPasswordHash" =>
          q.op \in {"login", "unlink"} /\ (q.op = "login" => q.pw \in Password)
    /\ q.call = "FindByEmail" =>
          q.op = "google" /\ q.sub \in Sub /\ q.email \in RawEmail
            /\ Lower[q.email] = q.email
    /\ q.call = "Create" =>
          q.op = "google" /\ q.sub \in Sub /\ q.email \in ValidEmail
    /\ q.call = "FindByGoogleSub" => q.op = "google" /\ q.sub \in Sub
    /\ q.call = "LinkGoogleSub" =>
          q.op \in {"google", "link"} /\ q.sub \in Sub
    /\ q.call = "ClearGoogleSub" => q.op = "unlink"
    /\ q.call = "Issue" => q.op \in {"register", "login", "google"}
    /\ q.call \notin {"none", "FindByEmail"} => q.uid \in UserId

(* An id under creation belongs to one request, and was never an account.  *)
IdsOK ==
    /\ DOMAIN users \cup sessions \subseteq usedIds
    /\ \A r \in Request : req[r].uid \in usedIds \cup {NoUser}
    /\ \A r \in Request : Creating(req[r]) =>
          /\ req[r].uid \notin DOMAIN users \cup sessions
          /\ \A s \in Request : req[s].uid = req[r].uid => s = r

(* What a request read of an account still holds, or the account is gone.  *)
MemoryOK(q) ==
    q.uid \in DOMAIN users =>
        /\ q.call = "GetPasswordHash" /\ q.op = "login"
             => users[q.uid].email = q.email
        /\ q.call = "LinkGoogleSub" /\ q.op = "google"
             => users[q.uid].provider = "google" /\ users[q.uid].email = q.email
        /\ q.call = "ClearGoogleSub" => q.uid \in DOMAIN creds

AuthInv ==
    /\ AuthTypeOK
    /\ EmailsCanonical
    /\ UniqueKeys
    /\ CredentialsMatchProvider
    /\ IdsOK
    /\ \A r \in Request : ControlOK(req[r]) /\ MemoryOK(req[r])

-----------------------------------------------------------------------------
(* What the repository says of the service and the service does not do.    *)

(* "si la cuenta ya tiene otro Google ... -> ErrGoogleLinkConflict": an    *)
(* account's Google identity is never replaced by another one.             *)
SubNeverReplaced ==
    [][\A u \in DOMAIN users \cap DOMAIN users' :
          users[u].sub # NoSub => users'[u].sub \in {users[u].sub, NoSub}]_authVars

(* "Carrera: otra peticion con el MISMO sub gano la creacion. En vez de    *)
(* devolver un error, entramos a la cuenta que ya quedo creada."           *)
SameSubRaceSignsIn ==
    [][\A r \in Request, u \in DOMAIN users :
          /\ req[r].call = "Create" /\ req'[r] # req[r]
          /\ users[u].sub = req[r].sub /\ users[u].email = req[r].email
          => answer'.code # "email_taken"]_authVars
=============================================================================
