------------------------ MODULE VerificationService -------------------------
(***************************************************************************)
(* Email verification: a signed-in user asks for a link, which is mailed   *)
(* with a secret token; whoever presents the token confirms the email of   *)
(* the account it was made for.  A token is good once, and until it        *)
(* expires.  Requests run concurrently, a repository call (or the mail) at *)
(* a time.  A token's id stands for its secret and for the hash of it.     *)
(***************************************************************************)
EXTENDS AccountStore, ErrorCodes

CONSTANTS
    VRequest,    \* verification requests in flight at once (a bound)
    NoToken,
    TTL,         \* how long a token is good for
    MaxClock     \* the last instant of a behaviour (a bound)

ASSUME VerificationAssumption ==
    /\ TTL \in Nat \ {0}
    /\ MaxClock \in Nat
    /\ NoToken \notin TokenId

VARIABLES
    vreq,        \* what the handler of each slot holds in memory
    vanswer,     \* the response a handler wrote in the last step, if it did
    mailbox,     \* tokens whose link was delivered
    clock

verVars == <<storeVars, vreq, vanswer, mailbox, clock>>

VCall == {"none", "CreateToken", "SendVerificationEmail", "MarkUsed",
          "SetEmailVerified"}

(* now: the instant the handler read from the clock.                       *)
VRequestState ==
    [call : VCall, uid : UserId \cup {NoUser}, tok : TokenId \cup {NoToken},
     now : 0 .. MaxClock]

VIdle == [call |-> "none", uid |-> NoUser, tok |-> NoToken, now |-> 0]

VResponse == [op : {"none", "request", "confirm"}, code : Code]

VNoAnswer == [op |-> "none", code |-> "none"]

VerTypeOK ==
    /\ StoreTypeOK
    /\ vreq \in [VRequest -> VRequestState]
    /\ vanswer \in VResponse
    /\ mailbox \subseteq TokenId
    /\ clock \in 0 .. MaxClock

VAnswer(r, op, code) ==
    /\ vreq' = [vreq EXCEPT ![r] = VIdle]
    /\ vanswer' = [op |-> op, code |-> code]

VContinue(r, state) ==
    /\ vreq' = [vreq EXCEPT ![r] = state]
    /\ vanswer' = VNoAnswer

VFree(r) == vreq[r].call = "none"

(* A write took effect, but the code sees an infrastructure error.         *)
VLostReply(r, op) ==
    /\ faults > 0
    /\ faults' = faults - 1
    /\ VAnswer(r, op, "internal_error")

-----------------------------------------------------------------------------
(* RequestVerification.                                                    *)

(* Mutant: no second link while a token of the user is in the table.       *)
RequestFindByID_OnePerUser(r, u) ==
    /\ VFree(r)
    /\ u \in sessions \cap DOMAIN users
    /\ ~ users[u].verified
    /\ \A t \in DOMAIN tokens : tokens[t].user # u
    /\ \E t \in TokenId :
          /\ NewID(t)
          /\ usedIds' = usedIds \cup {t}
          /\ VContinue(r, [call |-> "CreateToken", uid |-> u, tok |-> t,
                           now |-> clock])
    /\ UNCHANGED <<tables, sessions, faults, mailbox, clock>>

(* Nothing to do for an account that is gone or already verified; else     *)
(* mint a token.                                                           *)
RequestFindByID(r, u) ==
    /\ VFree(r)
    /\ u \in sessions
    /\ \/ /\ u \notin DOMAIN users
          /\ VAnswer(r, "request", "user_not_found")
          /\ UNCHANGED usedIds
       \/ /\ u \in DOMAIN users /\ users[u].verified
          /\ VAnswer(r, "request", "ok")
          /\ UNCHANGED usedIds
       \/ /\ u \in DOMAIN users /\ ~ users[u].verified
          /\ \E t \in TokenId :
                /\ NewID(t)
                /\ usedIds' = usedIds \cup {t}
                /\ VContinue(r, [call |-> "CreateToken", uid |-> u, tok |-> t,
                                 now |-> clock])
    /\ UNCHANGED <<tables, sessions, faults, mailbox, clock>>

NewToken(r) ==
    [user |-> vreq[r].uid, expires |-> vreq[r].now + TTL, usedAt |-> NotUsed]

(* Mutant: a new token takes the place of the user's earlier ones, one of  *)
(* which may be about to be confirmed.                                     *)
CreateToken_ReplacesOld(r) ==
    /\ vreq[r].call = "CreateToken"
    /\ vreq[r].uid \in DOMAIN users
    /\ tokens' = InsertRow(DeleteRows(tokens, {t \in DOMAIN tokens :
                                tokens[t].user = vreq[r].uid}),
                           vreq[r].tok, NewToken(r))
    /\ VContinue(r, [vreq[r] EXCEPT !.call = "SendVerificationEmail"])
    /\ UNCHANGED <<users, creds, usedIds, sessions, mailbox, clock, faults>>

(* Mutant: the table without its foreign key.                              *)
CreateToken_NoForeignKey(r) ==
    /\ vreq[r].call = "CreateToken"
    /\ tokens' = InsertRow(tokens, vreq[r].tok, NewToken(r))
    /\ VContinue(r, [vreq[r] EXCEPT !.call = "SendVerificationEmail"])
    /\ UNCHANGED <<users, creds, usedIds, sessions, mailbox, clock, faults>>

(* The foreign key refuses the token of an account deleted meanwhile: an   *)
(* error the repository does not translate.                                *)
CreateToken(r) ==
    /\ vreq[r].call = "CreateToken"
    /\ \/ /\ vreq[r].uid \notin DOMAIN users
          /\ VAnswer(r, "request", "internal_error")
          /\ UNCHANGED <<tokens, faults>>
       \/ /\ vreq[r].uid \in DOMAIN users
          /\ tokens' = InsertRow(tokens, vreq[r].tok, NewToken(r))
          /\ \/ /\ VContinue(r, [vreq[r] EXCEPT !.call = "SendVerificationEmail"])
                /\ UNCHANGED faults
             \/ VLostReply(r, "request")
    /\ UNCHANGED <<users, creds, usedIds, sessions, mailbox, clock>>

(* The provider takes the mail, and its answer may still get lost.         *)
SendVerificationEmail(r) ==
    /\ vreq[r].call = "SendVerificationEmail"
    /\ mailbox' = mailbox \cup {vreq[r].tok}
    /\ \/ VAnswer(r, "request", "ok") /\ UNCHANGED faults
       \/ VLostReply(r, "request")
    /\ UNCHANGED <<tables, usedIds, sessions, clock>>

-----------------------------------------------------------------------------
(* ConfirmVerification.                                                    *)

(* Mutant: a token is still good at the instant it expires.                *)
Expired_AtTheEnd(t, now) == ~ (now <= tokens[t].expires)

Expired(t, now) == ~ (now < tokens[t].expires)

(* A token nobody was given, or an empty one, which the handler refuses.   *)
ConfirmUnknown(r) ==
    /\ VFree(r)
    /\ \E code \in {"invalid_verification_token", "bad_request"} :
          VAnswer(r, "confirm", code)
    /\ UNCHANGED <<storeVars, mailbox, clock>>

ConfirmFindByHash(r, t) ==
    /\ VFree(r)
    /\ t \in mailbox
    /\ \/ /\ \/ t \notin DOMAIN tokens
             \/ t \in DOMAIN tokens /\ tokens[t].usedAt # NotUsed
          /\ VAnswer(r, "confirm", "invalid_verification_token")
       \/ /\ t \in DOMAIN tokens /\ tokens[t].usedAt = NotUsed
          /\ Expired(t, clock)
          /\ VAnswer(r, "confirm", "verification_token_expired")
       \/ /\ t \in DOMAIN tokens /\ tokens[t].usedAt = NotUsed
          /\ ~ Expired(t, clock)
          /\ VContinue(r, [call |-> "MarkUsed", uid |-> tokens[t].user,
                           tok |-> t, now |-> clock])
    /\ UNCHANGED <<storeVars, mailbox, clock>>

(* Mutant: UPDATE ... WHERE id = t, whatever used_at is.                   *)
Markable_Always(t) == t \in DOMAIN tokens

(* UPDATE ... WHERE id = t AND used_at IS NULL marks a row.                *)
Markable(t) == t \in DOMAIN tokens /\ tokens[t].usedAt = NotUsed

(* Mutant: the email is marked verified first, then the token used.        *)
MarkUsed_AfterVerified(r) ==
    /\ vreq[r].call = "MarkUsed"
    /\ vreq[r].uid \in DOMAIN users
    /\ SetVerified(vreq[r].uid)
    /\ VContinue(r, [vreq[r] EXCEPT !.call = "SetEmailVerified"])
    /\ UNCHANGED <<creds, tokens, usedIds, sessions, faults, mailbox, clock>>

(* Only one of the confirmations that saw the token unused marks it; it    *)
(* records the instant it read before.                                     *)
MarkUsed(r) ==
    /\ vreq[r].call = "MarkUsed"
    /\ \/ /\ ~ Markable(vreq[r].tok)
          /\ VAnswer(r, "confirm", "invalid_verification_token")
          /\ UNCHANGED <<tokens, faults>>
       \/ /\ Markable(vreq[r].tok)
          /\ tokens' = [tokens EXCEPT ![vreq[r].tok].usedAt = vreq[r].now]
          /\ \/ /\ VContinue(r, [vreq[r] EXCEPT !.call = "SetEmailVerified"])
                /\ UNCHANGED faults
             \/ VLostReply(r, "confirm")
    /\ UNCHANGED <<users, creds, usedIds, sessions, mailbox, clock>>

SetEmailVerified(r) ==
    /\ vreq[r].call = "SetEmailVerified"
    /\ \/ /\ vreq[r].uid \notin DOMAIN users
          /\ VAnswer(r, "confirm", "user_not_found")
          /\ UNCHANGED <<users, faults>>
       \/ /\ vreq[r].uid \in DOMAIN users
          /\ SetVerified(vreq[r].uid)
          /\ \/ VAnswer(r, "confirm", "ok") /\ UNCHANGED faults
             \/ VLostReply(r, "confirm")
    /\ UNCHANGED <<creds, tokens, usedIds, sessions, mailbox, clock>>

-----------------------------------------------------------------------------
(* A call (or the mail) fails without effect, and the request with it.     *)

VFirstCallFails(r) ==
    /\ VFree(r)
    /\ faults > 0
    /\ faults' = faults - 1
    /\ \/ sessions # {} /\ VAnswer(r, "request", "internal_error")
       \/ VAnswer(r, "confirm", "internal_error")
    /\ UNCHANGED <<tables, usedIds, sessions, mailbox, clock>>

VCallFails(r) ==
    /\ ~ VFree(r)
    /\ faults > 0
    /\ faults' = faults - 1
    /\ VAnswer(r, IF vreq[r].call \in {"CreateToken", "SendVerificationEmail"}
                  THEN "request" ELSE "confirm", "internal_error")
    /\ UNCHANGED <<tables, usedIds, sessions, mailbox, clock>>

Tick ==
    /\ clock < MaxClock
    /\ clock' = clock + 1
    /\ vanswer' = VNoAnswer
    /\ UNCHANGED <<storeVars, vreq, mailbox>>

-----------------------------------------------------------------------------
(* The rest of a request that has arrived.                                 *)
Proceed(r) ==
    \/ CreateToken(r) \/ SendVerificationEmail(r)
    \/ MarkUsed(r) \/ SetEmailVerified(r)

VerStep(r) ==
    \/ \E u \in UserId : RequestFindByID(r, u)
    \/ ConfirmUnknown(r)
    \/ \E t \in TokenId : ConfirmFindByHash(r, t)
    \/ Proceed(r)
    \/ VFirstCallFails(r) \/ VCallFails(r)

(* What this component needs of the others: accounts of password origin    *)
(* with a session, which their users may delete at any moment.             *)
NewAccounts ==
    /\ \E e \in [UserId -> ValidEmail] :
          /\ \A u, v \in UserId : e[u] = e[v] => u = v
          /\ users = [u \in UserId |->
                        [email |-> e[u], provider |-> "password",
                         sub |-> NoSub, verified |-> FALSE]]
    /\ creds \in [UserId -> Password]
    /\ tokens = [t \in {} |-> NoUser]
    /\ usedIds = UserId
    /\ sessions = UserId
    /\ faults = MaxFaults

AccountDeleted(u) ==
    /\ u \in DOMAIN users
    /\ DeleteUser(u)
    /\ vanswer' = VNoAnswer
    /\ UNCHANGED <<usedIds, sessions, faults, vreq, mailbox, clock>>

VInit ==
    /\ vreq = [r \in VRequest |-> VIdle]
    /\ vanswer = VNoAnswer
    /\ mailbox = {}
    /\ clock = 0

VerInit == NewAccounts /\ VInit

VerNext ==
    \/ \E r \in VRequest : VerStep(r)
    \/ \E u \in UserId : AccountDeleted(u)
    \/ Tick

VerSpec == VerInit /\ [][VerNext]_verVars

-----------------------------------------------------------------------------
(* A user who wants to be verified: asks for a link when no usable one has *)
(* arrived and none is on its way, and follows a usable link.  Calls       *)
(* return and failures end (MaxFaults); links expire only while the clock  *)
(* runs (MaxClock): some link is followed in time.                         *)

Usable(t) ==
    /\ t \in mailbox \cap DOMAIN tokens
    /\ tokens[t].usedAt = NotUsed
    /\ ~ Expired(t, clock)

UsableBy(u) == {t \in TokenId : Usable(t) /\ tokens[t].user = u}

Asks(r, u) ==
    /\ UsableBy(u) = {}
    /\ \A s \in VRequest : vreq[s].uid # u
    /\ RequestFindByID(r, u)

Follows(r, u) == \E t \in UsableBy(u) : ConfirmFindByHash(r, t)

PatientNext ==
    \/ \E r \in VRequest :
          \/ \E u \in UserId : Asks(r, u) \/ Follows(r, u)
          \/ Proceed(r)
          \/ VFirstCallFails(r) \/ VCallFails(r)
    \/ \E u \in UserId : AccountDeleted(u)
    \/ Tick

PatientSpec ==
    /\ VerInit
    /\ [][PatientNext]_verVars
    /\ \A r \in VRequest : WF_verVars(Proceed(r))
    /\ \A u \in UserId :
          /\ WF_verVars(\E r \in VRequest : Asks(r, u))
          /\ WF_verVars(\E r \in VRequest : Follows(r, u))

-----------------------------------------------------------------------------
(* Properties.                                                             *)

(* An account of password origin is verified only by a link: one that was  *)
(* mailed for this very account and is used up.  A link never verifies     *)
(* another account, not even one registered later with the same email.     *)
VerifiedByLink ==
    \A u \in DOMAIN users :
        users[u].verified /\ users[u].provider = "password"
          => \E t \in mailbox \cap DOMAIN tokens :
                tokens[t].user = u /\ tokens[t].usedAt # NotUsed

(* Of several confirmations that saw the same token unused, only one gets  *)
(* to mark the email: "dos confirmaciones concurrentes solo una tiene      *)
(* efecto".                                                                *)
OneConfirmer ==
    \A r, s \in VRequest :
        /\ vreq[r].call = "SetEmailVerified"
        /\ vreq[s].call = "SetEmailVerified"
        /\ vreq[r].tok = vreq[s].tok
        => r = s

(* The instant a token was used, as recorded, is before it expired, though *)
(* the clock may pass the expiry between the check and the UPDATE.         *)
UsedBeforeExpiry ==
    \A t \in DOMAIN tokens :
        tokens[t].usedAt # NotUsed => tokens[t].usedAt < tokens[t].expires

(* No token survives its account, nor is stored after it: requests race    *)
(* with the deletion of the account.                                       *)
NoOrphanTokens == \A t \in DOMAIN tokens : tokens[t].user \in DOMAIN users

(* A user who keeps trying gets verified: no failure in the middle of a    *)
(* request or of a confirmation, which may use a token up for nothing,     *)
(* leaves the account unable to be verified.                               *)
EventuallyVerified ==
    \A u \in UserId :
        u \in DOMAIN users ~> (u \in DOMAIN users => users[u].verified)
-----------------------------------------------------------------------------
(* What the requests in flight may rely on, although others run between    *)
(* their calls: the part that makes the properties above inductive.        *)

(* A token belongs to the request that minted it until it is stored: no    *)
(* other request holds it, and no mail was sent with it.                   *)
TokensFresh ==
    /\ DOMAIN tokens \cup mailbox \subseteq usedIds
    /\ \A r \in VRequest : vreq[r].tok \in usedIds \cup {NoToken}
    /\ \A r \in VRequest : vreq[r].call = "CreateToken" =>
          /\ vreq[r].tok \notin DOMAIN tokens \cup mailbox
          /\ \A s \in VRequest : vreq[s].tok = vreq[r].tok => s = r

VControlOK(q) ==
    /\ q.call = "none" => q = VIdle
    /\ q.call # "none" => q.uid \in UserId /\ q.tok \in TokenId

(* What a confirmation read of its token still holds, or the token went    *)
(* with its account.                                                       *)
ConfirmsOwnToken(q) ==
    q.call \in {"MarkUsed", "SetEmailVerified"} =>
        /\ q.tok \in mailbox
        /\ q.uid \in DOMAIN users => q.tok \in DOMAIN tokens
        /\ q.tok \in DOMAIN tokens =>
              /\ tokens[q.tok].user = q.uid
              /\ IF q.call = "MarkUsed" THEN q.now < tokens[q.tok].expires
                                        ELSE tokens[q.tok].usedAt # NotUsed

VerInv ==
    /\ VerTypeOK
    /\ VerifiedByLink
    /\ OneConfirmer
    /\ UsedBeforeExpiry
    /\ NoOrphanTokens
    /\ TokensFresh
    /\ \A r \in VRequest : VControlOK(vreq[r]) /\ ConfirmsOwnToken(vreq[r])
=============================================================================
