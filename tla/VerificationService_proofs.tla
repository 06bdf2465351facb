--------------------- MODULE VerificationService_proofs ---------------------
(***************************************************************************)
(* VerInv is kept by every step of a verification request, and by whatever *)
(* the account service does to the tables meanwhile, for any number of     *)
(* accounts, tokens, requests in flight and failures.                      *)
(***************************************************************************)
EXTENDS VerificationService, TLAPS

-----------------------------------------------------------------------------
(* A step of one request keeps what the others rely on.                    *)

(* Ids of tokens stay fresh when request r goes on with memory q, and      *)
(* stores or mails no token but its own.                                   *)
LEMMA StepKeepsFresh ==
    ASSUME VerInv, NEW r \in VRequest, NEW q \in VRequestState,
           vreq' = [vreq EXCEPT ![r] = q],
           usedIds \subseteq usedIds',
           mailbox' \cup DOMAIN tokens'
              \subseteq mailbox \cup DOMAIN tokens \cup
                           ({vreq[r].tok} \cap TokenId),
           q.tok \in usedIds' \cup {NoToken},
           \/ q.tok \in {NoToken, vreq[r].tok} \cup mailbox
           \/ q.tok \in TokenId \ usedIds,
           q.call = "CreateToken" => q.tok \in TokenId \ usedIds
    PROVE  TokensFresh'
<1> USE VerificationAssumption
<1>1. /\ vreq'[r] = q
      /\ \A s \in VRequest : s # r => vreq'[s] = vreq[s]
  BY DEF VerInv, VerTypeOK
<1>2. TokensFresh /\ \A s \in VRequest : VControlOK(vreq[s])
  BY DEF VerInv
<1>3. vreq[r].tok \in usedIds \cup {NoToken}
  BY <1>2 DEF TokensFresh
<1>4. DOMAIN tokens' \cup mailbox' \subseteq usedIds'
  BY <1>2, <1>3 DEF TokensFresh
<1>5. ASSUME NEW s \in VRequest
      PROVE  vreq'[s].tok \in usedIds' \cup {NoToken}
  BY <1>1, <1>2 DEF TokensFresh
<1>6. ASSUME NEW s \in VRequest, vreq'[s].call = "CreateToken"
      PROVE  /\ vreq'[s].tok \notin DOMAIN tokens' \cup mailbox'
             /\ \A x \in VRequest : vreq'[x].tok = vreq'[s].tok => x = s
  <2>1. CASE s = r
    <3>1. q.tok \in TokenId \ usedIds
      BY <1>1, <1>6, <2>1
    <3>2. \A x \in VRequest : vreq[x].tok # q.tok
      BY <1>2, <3>1 DEF TokensFresh
    <3>3. q.tok \notin DOMAIN tokens' \cup mailbox'
      BY <1>2, <1>3, <3>1 DEF TokensFresh
    <3> QED
      BY <1>1, <2>1, <3>2, <3>3
  <2>2. CASE s # r
    <3>1. vreq'[s] = vreq[s] /\ vreq[s].call = "CreateToken"
      BY <1>1, <1>6, <2>2
    <3>2. vreq[s].tok \in TokenId /\ vreq[s].tok \in usedIds
      BY <1>2, <3>1 DEF VControlOK, TokensFresh
    <3>3. /\ vreq[s].tok \notin DOMAIN tokens \cup mailbox
          /\ \A x \in VRequest : vreq[x].tok = vreq[s].tok => x = s
      BY <1>2, <3>1 DEF TokensFresh
    <3>4. vreq[r].tok # vreq[s].tok
      BY <2>2, <3>3
    <3>5. q.tok # vreq[s].tok
      BY <3>2, <3>3, <3>4
    <3> QED
      BY <1>1, <2>2, <3>1, <3>3, <3>4, <3>5
  <2> QED
    BY <2>1, <2>2
<1> QED
  BY <1>4, <1>5, <1>6 DEF TokensFresh

(* A step that writes no row keeps the invariant.                          *)
LEMMA QuietVerStep ==
    ASSUME VerInv, NEW r \in VRequest, NEW q \in VRequestState,
           vreq' = [vreq EXCEPT ![r] = q], vanswer' \in VResponse,
           UNCHANGED <<tables, sessions, clock>>, faults' \in 0 .. MaxFaults,
           usedIds \subseteq usedIds', usedIds' \subseteq UserId \cup TokenId,
           mailbox \subseteq mailbox',
           mailbox' \subseteq mailbox \cup ({vreq[r].tok} \cap TokenId),
           q.call # "SetEmailVerified", VControlOK(q), ConfirmsOwnToken(q),
           q.tok \in usedIds' \cup {NoToken},
           \/ q.tok \in {NoToken, vreq[r].tok} \cup mailbox
           \/ q.tok \in TokenId \ usedIds,
           q.call = "CreateToken" => q.tok \in TokenId \ usedIds
    PROVE  VerInv'
<1>1. /\ vreq'[r] = q
      /\ \A s \in VRequest : s # r => vreq'[s] = vreq[s]
      /\ vreq' \in [VRequest -> VRequestState]
  BY DEF VerInv, VerTypeOK
<1>2. VerTypeOK'
  BY <1>1 DEF VerInv, VerTypeOK, StoreTypeOK, tables
<1>3. VerifiedByLink' /\ UsedBeforeExpiry' /\ NoOrphanTokens'
  BY DEF VerInv, VerifiedByLink, UsedBeforeExpiry, NoOrphanTokens, tables
<1>4. OneConfirmer'
  BY <1>1 DEF VerInv, OneConfirmer
<1>5. TokensFresh'
  BY StepKeepsFresh DEF tables
<1>6. ASSUME NEW s \in VRequest
      PROVE  VControlOK(vreq'[s]) /\ ConfirmsOwnToken(vreq[s])'
  <2>1. CASE s = r
    BY <1>1, <2>1 DEF ConfirmsOwnToken, tables
  <2>2. CASE s # r
    <3>1. vreq'[s] = vreq[s] /\ VControlOK(vreq[s]) /\ ConfirmsOwnToken(vreq[s])
      BY <1>1, <2>2 DEF VerInv
    <3> QED
      BY <3>1 DEF ConfirmsOwnToken, tables
  <2> QED
    BY <2>1, <2>2
<1> QED
  BY <1>2, <1>3, <1>4, <1>5, <1>6 DEF VerInv

(* Once answered, a request remembers nothing.                             *)
LEMMA VIdleOK ==
    /\ VIdle \in VRequestState
    /\ VIdle.uid = NoUser /\ VIdle.tok = NoToken /\ VIdle.call = "none"
    /\ VControlOK(VIdle)
    /\ ConfirmsOwnToken(VIdle)
    /\ ConfirmsOwnToken(VIdle)'
BY VerificationAssumption
   DEF VIdle, VRequestState, VCall, VControlOK, ConfirmsOwnToken

(* A handler that answers and writes nothing keeps the invariant; a mail   *)
(* may have gone out.                                                      *)
LEMMA VAnswerOK ==
    ASSUME VerInv, NEW r \in VRequest, NEW op \in {"request", "confirm"},
           NEW code \in Code, VAnswer(r, op, code),
           UNCHANGED <<tables, usedIds, sessions, clock>>,
           faults' \in 0 .. MaxFaults, mailbox \subseteq mailbox',
           mailbox' \subseteq mailbox \cup ({vreq[r].tok} \cap TokenId)
    PROVE  VerInv'
<1>1. vreq' = [vreq EXCEPT ![r] = VIdle] /\ vanswer' \in VResponse
  BY DEF VAnswer, VResponse
<1>2. usedIds' \subseteq UserId \cup TokenId
  BY DEF VerInv, VerTypeOK, StoreTypeOK
<1> QED
  BY <1>1, <1>2, VIdleOK, QuietVerStep

-----------------------------------------------------------------------------
(* Each action keeps the invariant.                                        *)

(* The steps that only answer: unknown tokens and failures.                *)
LEMMA VRefusalsKeep ==
    ASSUME VerInv, NEW r \in VRequest,
           ConfirmUnknown(r) \/ VFirstCallFails(r) \/ VCallFails(r)
    PROVE  VerInv'
<1>1. /\ faults \in 0 .. MaxFaults
      /\ {"ok", "internal_error", "bad_request", "invalid_verification_token"}
            \subseteq Code
  BY DEF VerInv, VerTypeOK, StoreTypeOK, Code, ErrorCode, CodecCode
<1>2. CASE ConfirmUnknown(r)
  BY <1>1, <1>2, VAnswerOK DEF ConfirmUnknown, storeVars, tables
<1>3. CASE VFirstCallFails(r) \/ VCallFails(r)
  <2>1. /\ faults' \in 0 .. MaxFaults
        /\ UNCHANGED <<tables, usedIds, sessions, mailbox, clock>>
    BY <1>1, <1>3, FaultAssumption DEF VFirstCallFails, VCallFails
  <2>2. \E op \in {"request", "confirm"} : VAnswer(r, op, "internal_error")
    BY <1>3 DEF VFirstCallFails, VCallFails
  <2> QED
    BY <1>1, <2>1, <2>2, VAnswerOK
<1> QED
  BY <1>2, <1>3

(* RequestVerification up to its INSERT.                                   *)
LEMMA RequestFindByIDKeeps ==
    ASSUME VerInv, NEW r \in VRequest, NEW u \in UserId, RequestFindByID(r, u)
    PROVE  VerInv'
<1>1. /\ faults \in 0 .. MaxFaults /\ clock \in 0 .. MaxClock
      /\ usedIds \subseteq UserId \cup TokenId
      /\ {"ok", "user_not_found"} \subseteq Code
  BY DEF VerInv, VerTypeOK, StoreTypeOK, Code, ErrorCode
<1>2. UNCHANGED <<tables, sessions, faults, mailbox, clock>>
  BY DEF RequestFindByID
<1>3. ASSUME NEW code \in {"ok", "user_not_found"},
             VAnswer(r, "request", code), UNCHANGED usedIds
      PROVE  VerInv'
  BY <1>1, <1>2, <1>3, VAnswerOK
<1>4. ASSUME NEW t \in TokenId, NewID(t), usedIds' = usedIds \cup {t},
             VContinue(r, [call |-> "CreateToken", uid |-> u, tok |-> t,
                           now |-> clock])
      PROVE  VerInv'
  <2> PICK q : q = [call |-> "CreateToken", uid |-> u, tok |-> t,
                    now |-> clock]
    OBVIOUS
  <2>1. /\ q \in VRequestState /\ q.call = "CreateToken" /\ q.tok = t
        /\ VControlOK(q) /\ ConfirmsOwnToken(q)
    BY <1>1 DEF VRequestState, VCall, VControlOK, ConfirmsOwnToken
  <2>2. vreq' = [vreq EXCEPT ![r] = q] /\ vanswer' \in VResponse
    BY <1>4 DEF VContinue, VNoAnswer, VResponse, Code
  <2>3. t \in TokenId \ usedIds /\ t \in usedIds'
    BY <1>4 DEF NewID
  <2>4. usedIds \subseteq usedIds' /\ usedIds' \subseteq UserId \cup TokenId
    BY <1>1, <1>4
  <2> QED
    BY <1>1, <1>2, <2>1, <2>2, <2>3, <2>4, QuietVerStep
<1> QED
  BY <1>3, <1>4 DEF RequestFindByID

(* The INSERT of the token, and the foreign key that may refuse it.        *)
LEMMA CreateTokenKeeps ==
    ASSUME VerInv, NEW r \in VRequest, CreateToken(r)
    PROVE  VerInv'
<1> USE FaultAssumption, VerificationAssumption, TokenAssumption
<1>1. /\ faults \in 0 .. MaxFaults /\ vreq[r] \in VRequestState
      /\ VControlOK(vreq[r]) /\ TokensFresh
      /\ "internal_error" \in Code
  BY DEF VerInv, VerTypeOK, StoreTypeOK, Code, ErrorCode
<1>2. /\ vreq[r].call = "CreateToken"
      /\ UNCHANGED <<users, creds, usedIds, sessions, mailbox, clock>>
  BY DEF CreateToken
<1>3. CASE /\ VAnswer(r, "request", "internal_error")
           /\ UNCHANGED <<tokens, faults>>
  BY <1>1, <1>2, <1>3, VAnswerOK DEF tables
<1>4. CASE /\ vreq[r].uid \in DOMAIN users
           /\ tokens' = InsertRow(tokens, vreq[r].tok, NewToken(r))
           /\ \/ /\ VContinue(r, [vreq[r] EXCEPT
                                    !.call = "SendVerificationEmail"])
                 /\ UNCHANGED faults
              \/ VLostReply(r, "request")
  <2> DEFINE t == vreq[r].tok
  <2>1. /\ t \in TokenId /\ vreq[r].uid \in UserId /\ vreq[r].now \in Nat
        /\ t \notin DOMAIN tokens \cup mailbox /\ t \in usedIds
    BY <1>1, <1>2 DEF VControlOK, VRequestState, TokensFresh
  <2>2. NewToken(r) \in TokenRow
    BY <2>1 DEF NewToken, TokenRow
  <2>3. /\ DOMAIN tokens' = DOMAIN tokens \cup {t}
        /\ \A x \in DOMAIN tokens : tokens'[x] = tokens[x]
        /\ tokens'[t].user = vreq[r].uid /\ tokens'[t].usedAt = NotUsed
    BY <1>4, <2>1 DEF InsertRow, NewToken
  <2>4. PICK q \in VRequestState :
           /\ vreq' = [vreq EXCEPT ![r] = q]
           /\ q.call \in {"none", "SendVerificationEmail"}
           /\ q.tok \in {NoToken, t} /\ VControlOK(q)
    <3>1. CASE VLostReply(r, "request")
      BY <3>1, VIdleOK DEF VLostReply, VAnswer
    <3>2. CASE VContinue(r, [vreq[r] EXCEPT !.call = "SendVerificationEmail"])
      <4> PICK q : q = [vreq[r] EXCEPT !.call = "SendVerificationEmail"]
        OBVIOUS
      <4>1. /\ q \in VRequestState /\ q.call = "SendVerificationEmail"
            /\ q.tok = t /\ q.uid = vreq[r].uid
        BY <1>1 DEF VRequestState, VCall
      <4> QED
        BY <2>1, <3>2, <4>1 DEF VContinue, VControlOK
    <3> QED
      BY <1>4, <3>1, <3>2
  <2>5. vanswer' \in VResponse /\ faults' \in 0 .. MaxFaults
    <3>1. vanswer' \in VResponse
      BY <1>1, <1>4
         DEF VLostReply, VAnswer, VContinue, VNoAnswer, VResponse, Code
    <3>2. UNCHANGED faults \/ (faults > 0 /\ faults' = faults - 1)
      BY <1>4 DEF VLostReply
    <3> QED
      BY <1>1, <3>1, <3>2
  <2>6. /\ vreq'[r] = q
        /\ \A s \in VRequest : s # r => vreq'[s] = vreq[s]
        /\ vreq' \in [VRequest -> VRequestState]
    BY <2>4 DEF VerInv, VerTypeOK
  <2>7. VerTypeOK'
    <3>1. IsTable(tokens, TokenId, TokenRow)'
      BY <1>4, <2>1, <2>2
         DEF InsertRow, IsTable, VerInv, VerTypeOK, StoreTypeOK
    <3> QED
      BY <1>2, <2>5, <2>6, <3>1 DEF VerInv, VerTypeOK, StoreTypeOK
  <2>8. VerifiedByLink' /\ UsedBeforeExpiry' /\ NoOrphanTokens'
    BY <1>2, <1>4, <2>3
       DEF VerInv, VerifiedByLink, UsedBeforeExpiry, NoOrphanTokens
  <2>9. OneConfirmer'
    BY <2>4, <2>6 DEF VerInv, OneConfirmer
  <2>10. TokensFresh'
    BY <1>1, <1>2, <2>1, <2>3, <2>4, StepKeepsFresh DEF TokensFresh
  <2>11. ASSUME NEW s \in VRequest
         PROVE  VControlOK(vreq'[s]) /\ ConfirmsOwnToken(vreq[s])'
    <3>1. CASE s = r
      BY <2>4, <2>6, <3>1 DEF ConfirmsOwnToken
    <3>2. CASE s # r
      <4>1. /\ vreq'[s] = vreq[s] /\ VControlOK(vreq[s])
            /\ ConfirmsOwnToken(vreq[s])
        BY <2>6, <3>2 DEF VerInv
      <4> QED
        BY <1>2, <2>1, <2>3, <4>1 DEF ConfirmsOwnToken
    <3> QED
      BY <3>1, <3>2
  <2> QED
    BY <2>7, <2>8, <2>9, <2>10, <2>11 DEF VerInv
<1> QED
  BY <1>3, <1>4 DEF CreateToken

(* The mail goes out, whatever its answer.                                 *)
LEMMA SendVerificationEmailKeeps ==
    ASSUME VerInv, NEW r \in VRequest, SendVerificationEmail(r)
    PROVE  VerInv'
<1>1. /\ faults \in 0 .. MaxFaults /\ VControlOK(vreq[r])
      /\ {"ok", "internal_error"} \subseteq Code
  BY DEF VerInv, VerTypeOK, StoreTypeOK, Code, ErrorCode
<1>2. /\ UNCHANGED <<tables, usedIds, sessions, clock>>
      /\ mailbox' = mailbox \cup {vreq[r].tok} /\ vreq[r].tok \in TokenId
  BY <1>1 DEF SendVerificationEmail, VControlOK
<1>3. \E code \in {"ok", "internal_error"} : VAnswer(r, "request", code)
  BY DEF SendVerificationEmail, VLostReply
<1>4. faults' \in 0 .. MaxFaults
  BY <1>1, FaultAssumption DEF SendVerificationEmail, VLostReply
<1> QED
  BY <1>1, <1>2, <1>3, <1>4, VAnswerOK

(* ConfirmVerification: the token is looked at.                            *)
LEMMA ConfirmFindByHashKeeps ==
    ASSUME VerInv, NEW r \in VRequest, NEW t \in TokenId,
           ConfirmFindByHash(r, t)
    PROVE  VerInv'
<1>1. /\ faults \in 0 .. MaxFaults /\ clock \in 0 .. MaxClock
      /\ usedIds \subseteq UserId \cup TokenId
      /\ {"invalid_verification_token", "verification_token_expired"}
            \subseteq Code
  BY DEF VerInv, VerTypeOK, StoreTypeOK, Code, ErrorCode
<1>2. UNCHANGED <<storeVars, mailbox, clock>> /\ t \in mailbox
  BY DEF ConfirmFindByHash
<1>3. ASSUME NEW code \in {"invalid_verification_token",
                           "verification_token_expired"},
             VAnswer(r, "confirm", code)
      PROVE  VerInv'
  BY <1>1, <1>2, <1>3, VAnswerOK DEF storeVars, tables
<1>4. ASSUME t \in DOMAIN tokens, ~ Expired(t, clock),
             VContinue(r, [call |-> "MarkUsed", uid |-> tokens[t].user,
                           tok |-> t, now |-> clock])
      PROVE  VerInv'
  <2> PICK q : q = [call |-> "MarkUsed", uid |-> tokens[t].user, tok |-> t,
                    now |-> clock]
    OBVIOUS
  <2>1. tokens[t] \in TokenRow /\ t \in usedIds
    BY <1>2, <1>4 DEF VerInv, VerTypeOK, StoreTypeOK, IsTable, TokensFresh
  <2>2. /\ q \in VRequestState /\ q.call = "MarkUsed" /\ q.tok = t
        /\ q.uid = tokens[t].user /\ q.now = clock /\ q.uid \in UserId
    BY <1>1, <2>1 DEF TokenRow, VRequestState, VCall
  <2>3. VControlOK(q) /\ ConfirmsOwnToken(q)
    BY <1>2, <1>4, <2>2 DEF Expired, VControlOK, ConfirmsOwnToken
  <2>4. vreq' = [vreq EXCEPT ![r] = q] /\ vanswer' \in VResponse
    BY <1>4 DEF VContinue, VNoAnswer, VResponse, Code
  <2> QED
    BY <1>1, <1>2, <2>1, <2>2, <2>3, <2>4, QuietVerStep DEF storeVars, tables
<1> QED
  BY <1>3, <1>4 DEF ConfirmFindByHash

(* The UPDATE that uses a token up: one confirmation marks it, the others  *)
(* that saw it unused are refused.                                         *)
LEMMA MarkUsedKeeps ==
    ASSUME VerInv, NEW r \in VRequest, MarkUsed(r)
    PROVE  VerInv'
<1> USE FaultAssumption, VerificationAssumption, TokenAssumption
<1>1. /\ faults \in 0 .. MaxFaults /\ vreq[r] \in VRequestState
      /\ VControlOK(vreq[r]) /\ ConfirmsOwnToken(vreq[r]) /\ TokensFresh
      /\ {"internal_error", "invalid_verification_token"} \subseteq Code
  BY DEF VerInv, VerTypeOK, StoreTypeOK, Code, ErrorCode
<1>2. /\ vreq[r].call = "MarkUsed"
      /\ UNCHANGED <<users, creds, usedIds, sessions, mailbox, clock>>
  BY DEF MarkUsed
<1>3. CASE /\ VAnswer(r, "confirm", "invalid_verification_token")
           /\ UNCHANGED <<tokens, faults>>
  BY <1>1, <1>2, <1>3, VAnswerOK DEF tables
<1>4. CASE /\ Markable(vreq[r].tok)
           /\ tokens' = [tokens EXCEPT ![vreq[r].tok].usedAt = vreq[r].now]
           /\ \/ /\ VContinue(r, [vreq[r] EXCEPT !.call = "SetEmailVerified"])
                 /\ UNCHANGED faults
              \/ VLostReply(r, "confirm")
  <2> DEFINE t == vreq[r].tok
  <2>1. /\ t \in DOMAIN tokens /\ t \in mailbox /\ t \in usedIds
        /\ tokens[t].usedAt = NotUsed /\ tokens[t].user = vreq[r].uid
        /\ vreq[r].now < tokens[t].expires /\ vreq[r].now \in Nat
        /\ vreq[r].uid \in UserId /\ t \in TokenId
    BY <1>1, <1>2, <1>4
       DEF Markable, ConfirmsOwnToken, VControlOK, VRequestState, TokensFresh
  <2>2. tokens[t] \in TokenRow
    BY <2>1 DEF VerInv, VerTypeOK, StoreTypeOK, IsTable
  <2>3. /\ DOMAIN tokens' = DOMAIN tokens
        /\ \A x \in DOMAIN tokens : x # t => tokens'[x] = tokens[x]
        /\ tokens'[t] = [tokens[t] EXCEPT !.usedAt = vreq[r].now]
    BY <1>4, <2>1 DEF VerInv, VerTypeOK, StoreTypeOK, IsTable
  <2>4. /\ tokens'[t] \in TokenRow /\ tokens'[t].user = tokens[t].user
        /\ tokens'[t].expires = tokens[t].expires
        /\ tokens'[t].usedAt = vreq[r].now /\ tokens'[t].usedAt # NotUsed
    BY <2>1, <2>2, <2>3 DEF TokenRow
  <2>5. \A x \in DOMAIN tokens :
           /\ tokens'[x].user = tokens[x].user
           /\ tokens'[x].expires = tokens[x].expires
           /\ tokens[x].usedAt # NotUsed => tokens'[x].usedAt # NotUsed
    BY <2>3, <2>4
  <2>6. PICK q \in VRequestState :
           /\ vreq' = [vreq EXCEPT ![r] = q]
           /\ q.call \in {"none", "SetEmailVerified"} /\ VControlOK(q)
           /\ q.tok \in {NoToken, t}
           /\ q.call = "SetEmailVerified" => q.tok = t /\ q.uid = vreq[r].uid
    <3>1. CASE VLostReply(r, "confirm")
      BY <3>1, VIdleOK DEF VLostReply, VAnswer
    <3>2. CASE VContinue(r, [vreq[r] EXCEPT !.call = "SetEmailVerified"])
      <4> PICK q : q = [vreq[r] EXCEPT !.call = "SetEmailVerified"]
        OBVIOUS
      <4>1. /\ q \in VRequestState /\ q.call = "SetEmailVerified"
            /\ q.tok = t /\ q.uid = vreq[r].uid
        BY <1>1 DEF VRequestState, VCall
      <4> QED
        BY <2>1, <3>2, <4>1 DEF VContinue, VControlOK
    <3> QED
      BY <1>4, <3>1, <3>2
  <2>7. vanswer' \in VResponse /\ faults' \in 0 .. MaxFaults
    <3>1. vanswer' \in VResponse
      BY <1>1, <1>4
         DEF VLostReply, VAnswer, VContinue, VNoAnswer, VResponse, Code
    <3>2. UNCHANGED faults \/ (faults > 0 /\ faults' = faults - 1)
      BY <1>4 DEF VLostReply
    <3> QED
      BY <1>1, <3>1, <3>2
  <2>8. /\ vreq'[r] = q
        /\ \A s \in VRequest : s # r => vreq'[s] = vreq[s]
        /\ vreq' \in [VRequest -> VRequestState]
    BY <2>6 DEF VerInv, VerTypeOK
  <2>9. VerTypeOK'
    <3>1. IsTable(tokens, TokenId, TokenRow)'
      BY <1>4, <2>3, <2>4 DEF IsTable, VerInv, VerTypeOK, StoreTypeOK
    <3> QED
      BY <1>2, <2>7, <2>8, <3>1 DEF VerInv, VerTypeOK, StoreTypeOK
  <2>10. VerifiedByLink' /\ NoOrphanTokens'
    BY <1>2, <2>3, <2>5 DEF VerInv, VerifiedByLink, NoOrphanTokens
  <2>11. UsedBeforeExpiry'
    BY <2>1, <2>3, <2>4 DEF VerInv, UsedBeforeExpiry
  <2>12. OneConfirmer'
    <3>1. ASSUME NEW s \in VRequest, s # r,
                 vreq[s].call = "SetEmailVerified", vreq[s].tok = t
          PROVE  FALSE
      BY <2>1, <3>1 DEF VerInv, ConfirmsOwnToken
    <3> QED
      BY <2>6, <2>8, <3>1 DEF VerInv, OneConfirmer
  <2>13. TokensFresh'
    BY <1>2, <2>1, <2>3, <2>6, StepKeepsFresh
  <2>14. ASSUME NEW s \in VRequest
         PROVE  VControlOK(vreq'[s]) /\ ConfirmsOwnToken(vreq[s])'
    <3>1. CASE s = r
      <4>1. q.call = "SetEmailVerified"
              => /\ q.tok = t /\ t \in mailbox' /\ t \in DOMAIN tokens'
                 /\ tokens'[t].user = q.uid /\ tokens'[t].usedAt # NotUsed
        BY <1>2, <2>1, <2>3, <2>4, <2>6
      <4> QED
        BY <2>6, <2>8, <3>1, <4>1 DEF ConfirmsOwnToken
    <3>2. CASE s # r
      <4>1. /\ vreq'[s] = vreq[s] /\ VControlOK(vreq[s])
            /\ ConfirmsOwnToken(vreq[s])
        BY <2>8, <3>2 DEF VerInv
      <4> QED
        BY <1>2, <2>3, <2>5, <4>1 DEF ConfirmsOwnToken
    <3> QED
      BY <3>1, <3>2
  <2> QED
    BY <2>9, <2>10, <2>11, <2>12, <2>13, <2>14 DEF VerInv
<1> QED
  BY <1>3, <1>4 DEF MarkUsed

(* The UPDATE of the account, by the confirmation that used the token up.  *)
LEMMA SetEmailVerifiedKeeps ==
    ASSUME VerInv, NEW r \in VRequest, SetEmailVerified(r)
    PROVE  VerInv'
<1> USE FaultAssumption, VerificationAssumption, TokenAssumption
<1>1. /\ faults \in 0 .. MaxFaults /\ ConfirmsOwnToken(vreq[r])
      /\ {"ok", "internal_error", "user_not_found"} \subseteq Code
  BY DEF VerInv, VerTypeOK, StoreTypeOK, Code, ErrorCode
<1>2. /\ vreq[r].call = "SetEmailVerified"
      /\ UNCHANGED <<creds, tokens, usedIds, sessions, mailbox, clock>>
  BY DEF SetEmailVerified
<1>3. CASE /\ VAnswer(r, "confirm", "user_not_found")
           /\ UNCHANGED <<users, faults>>
  BY <1>1, <1>2, <1>3, VAnswerOK DEF tables
<1>4. CASE /\ vreq[r].uid \in DOMAIN users
           /\ SetVerified(vreq[r].uid)
           /\ \/ VAnswer(r, "confirm", "ok") /\ UNCHANGED faults
              \/ VLostReply(r, "confirm")
  <2> DEFINE u == vreq[r].uid
  <2>1. users \in [DOMAIN users -> UserRow] /\ DOMAIN users \subseteq UserId
    BY DEF VerInv, VerTypeOK, StoreTypeOK, IsTable
  <2>2. /\ DOMAIN users' = DOMAIN users
        /\ \A v \in DOMAIN users : v # u => users'[v] = users[v]
        /\ users'[u] = [users[u] EXCEPT !.verified = TRUE]
    BY <1>4, <2>1 DEF SetVerified
  <2>3. users[u] \in UserRow
    BY <1>4, <2>1
  <2>4. users'[u] \in UserRow
    BY <2>2, <2>3 DEF UserRow
  <2>5. IsTable(users, UserId, UserRow)'
    BY <1>4, <2>1, <2>2, <2>4 DEF IsTable, SetVerified
  <2>6. /\ vreq' = [vreq EXCEPT ![r] = VIdle]
        /\ vanswer' \in VResponse /\ faults' \in 0 .. MaxFaults
    <3>1. vreq' = [vreq EXCEPT ![r] = VIdle] /\ vanswer' \in VResponse
      BY <1>1, <1>4 DEF VLostReply, VAnswer, VResponse
    <3>2. UNCHANGED faults \/ (faults > 0 /\ faults' = faults - 1)
      BY <1>4 DEF VLostReply
    <3> QED
      BY <1>1, <3>1, <3>2
  <2>7. /\ vreq'[r] = VIdle
        /\ \A s \in VRequest : s # r => vreq'[s] = vreq[s]
        /\ vreq' \in [VRequest -> VRequestState]
    BY <2>6, VIdleOK DEF VerInv, VerTypeOK
  <2>8. VerTypeOK'
    BY <1>2, <2>5, <2>6, <2>7 DEF VerInv, VerTypeOK, StoreTypeOK
  <2>9. VerifiedByLink'
    <3> SUFFICES ASSUME NEW v \in DOMAIN users, users'[v].verified,
                        users'[v].provider = "password"
                 PROVE  \E t \in mailbox \cap DOMAIN tokens :
                           tokens[t].user = v /\ tokens[t].usedAt # NotUsed
      BY <1>2, <2>2 DEF VerifiedByLink
    <3>1. CASE v = u
      BY <1>1, <1>2, <3>1 DEF ConfirmsOwnToken
    <3>2. CASE v # u
      BY <2>2, <3>2 DEF VerInv, VerifiedByLink
    <3> QED
      BY <3>1, <3>2
  <2>10. UsedBeforeExpiry' /\ NoOrphanTokens'
    BY <1>2, <2>2 DEF VerInv, UsedBeforeExpiry, NoOrphanTokens
  <2>11. OneConfirmer'
    BY <2>7, VIdleOK DEF VerInv, OneConfirmer
  <2>12. TokensFresh'
    BY <1>2, <2>6, VIdleOK, StepKeepsFresh
  <2>13. ASSUME NEW s \in VRequest
         PROVE  VControlOK(vreq'[s]) /\ ConfirmsOwnToken(vreq[s])'
    <3>1. CASE s = r
      BY <2>7, <3>1, VIdleOK DEF ConfirmsOwnToken
    <3>2. CASE s # r
      <4>1. /\ vreq'[s] = vreq[s] /\ VControlOK(vreq[s])
            /\ ConfirmsOwnToken(vreq[s])
        BY <2>7, <3>2 DEF VerInv
      <4> QED
        BY <1>2, <2>2, <4>1 DEF ConfirmsOwnToken
    <3> QED
      BY <3>1, <3>2
  <2> QED
    BY <2>8, <2>9, <2>10, <2>11, <2>12, <2>13 DEF VerInv
<1> QED
  BY <1>3, <1>4 DEF SetEmailVerified

(* Every step of a verification request keeps the invariant.               *)
THEOREM VerStepKeeps ==
    ASSUME VerInv, NEW r \in VRequest, VerStep(r)
    PROVE  VerInv'
BY VRefusalsKeep, RequestFindByIDKeeps, CreateTokenKeeps,
   SendVerificationEmailKeeps, ConfirmFindByHashKeeps, MarkUsedKeeps,
   SetEmailVerifiedKeeps
   DEF VerStep, Proceed

(* So does time.                                                           *)
LEMMA TickKeeps ==
    ASSUME VerInv, Tick
    PROVE  VerInv'
<1>1. UNCHANGED <<storeVars, vreq, mailbox>> /\ vanswer' \in VResponse
  BY DEF Tick, VNoAnswer, VResponse, Code
<1>2. clock' \in 0 .. MaxClock
  BY VerificationAssumption DEF Tick, VerInv, VerTypeOK
<1> QED
  BY <1>1, <1>2
     DEF storeVars, VerInv, VerTypeOK, StoreTypeOK, VerifiedByLink,
         OneConfirmer, UsedBeforeExpiry, NoOrphanTokens, TokensFresh,
         ConfirmsOwnToken

-----------------------------------------------------------------------------
(* What the account service does to the tables meanwhile: accounts come    *)
(* under ids no request remembers, unverified if a password opens them, and *)
(* go with their tokens; of those that stay, what this service looks at    *)
(* stays too.                                                              *)
LEMMA AccountsChange ==
    ASSUME VerInv, StoreTypeOK', vanswer' \in VResponse,
           UNCHANGED <<vreq, mailbox, clock>>, usedIds \subseteq usedIds',
           DOMAIN tokens' = {t \in DOMAIN tokens :
                                 tokens[t].user \in DOMAIN users'},
           \A t \in DOMAIN tokens' : tokens'[t] = tokens[t],
           \A u \in DOMAIN users \cap DOMAIN users' :
               /\ users'[u].verified = users[u].verified
               /\ users'[u].provider = users[u].provider,
           \A u \in DOMAIN users' \ DOMAIN users :
               /\ users'[u].verified => users'[u].provider # "password"
               /\ \A r \in VRequest : vreq[r].uid # u
    PROVE  VerInv'
<1>1. VerTypeOK' /\ OneConfirmer'
  BY DEF VerInv, VerTypeOK, OneConfirmer
<1>2. VerifiedByLink'
  <2> SUFFICES ASSUME NEW u \in DOMAIN users', users'[u].verified,
                      users'[u].provider = "password"
               PROVE  \E t \in mailbox' \cap DOMAIN tokens' :
                         tokens'[t].user = u /\ tokens'[t].usedAt # NotUsed
    BY DEF VerifiedByLink
  <2>1. u \in DOMAIN users
    OBVIOUS
  <2>2. users[u].verified /\ users[u].provider = "password"
    BY <2>1
  <2>3. PICK t \in mailbox \cap DOMAIN tokens :
                tokens[t].user = u /\ tokens[t].usedAt # NotUsed
    BY <2>1, <2>2 DEF VerInv, VerifiedByLink
  <2>4. t \in mailbox' \cap DOMAIN tokens' /\ tokens'[t] = tokens[t]
    BY <2>3
  <2> QED
    BY <2>3, <2>4
<1>3. UsedBeforeExpiry' /\ NoOrphanTokens'
  BY DEF VerInv, UsedBeforeExpiry, NoOrphanTokens
<1>4. TokensFresh'
  BY DEF VerInv, TokensFresh
<1>5. ASSUME NEW s \in VRequest
      PROVE  VControlOK(vreq'[s]) /\ ConfirmsOwnToken(vreq[s])'
  <2>1. VControlOK(vreq[s]) /\ ConfirmsOwnToken(vreq[s])
    BY DEF VerInv
  <2>2. vreq[s].uid \in DOMAIN users' => vreq[s].uid \in DOMAIN users
    OBVIOUS
  <2> QED
    BY <2>1, <2>2 DEF ConfirmsOwnToken
<1> QED
  BY <1>1, <1>2, <1>3, <1>4, <1>5 DEF VerInv

-----------------------------------------------------------------------------
(* The service by itself, with accounts that may be deleted at any moment. *)

(* The cascade of a deleted account keeps the invariant.                   *)
LEMMA AccountDeletedKeeps ==
    ASSUME VerInv, NEW u \in UserId, AccountDeleted(u)
    PROVE  VerInv'
<1>1. /\ UNCHANGED <<usedIds, sessions, faults, vreq, mailbox, clock>>
      /\ vanswer' \in VResponse
  BY DEF AccountDeleted, VNoAnswer, VResponse, Code
<1>2. StoreTypeOK /\ NoOrphanTokens
  BY DEF VerInv, VerTypeOK
<1>3. /\ DOMAIN users' = DOMAIN users \ {u}
      /\ \A v \in DOMAIN users' : users'[v] = users[v]
      /\ DOMAIN tokens' = {t \in DOMAIN tokens :
                              tokens[t].user \in DOMAIN users'}
      /\ \A t \in DOMAIN tokens' : tokens'[t] = tokens[t]
  BY <1>2 DEF AccountDeleted, DeleteUser, DeleteRows, NoOrphanTokens
<1>4. StoreTypeOK'
  BY <1>1, <1>2 DEF StoreTypeOK, IsTable, AccountDeleted, DeleteUser, DeleteRows
<1> QED
  BY <1>1, <1>3, <1>4, AccountsChange

(* VerInv holds when no request has arrived yet, if no account of password *)
(* origin was verified before.                                             *)
LEMMA NoRequestsYet ==
    ASSUME StoreTypeOK, VInit, DOMAIN tokens = {},
           \A u \in DOMAIN users :
               users[u].verified => users[u].provider # "password"
    PROVE  VerInv
<1>1. VerTypeOK
  BY VerificationAssumption, VIdleOK
     DEF VInit, VerTypeOK, VNoAnswer, VResponse, Code
<1>2. VerifiedByLink /\ OneConfirmer /\ UsedBeforeExpiry /\ NoOrphanTokens
  BY VIdleOK
     DEF VInit, VerifiedByLink, OneConfirmer, UsedBeforeExpiry, NoOrphanTokens
<1>3. TokensFresh
  BY VIdleOK DEF VInit, TokensFresh
<1>4. \A r \in VRequest : VControlOK(vreq[r]) /\ ConfirmsOwnToken(vreq[r])
  BY VIdleOK DEF VInit
<1> QED
  BY <1>1, <1>2, <1>3, <1>4 DEF VerInv

(* It holds at the start.                                                  *)
LEMMA VerInvInit == VerInit => VerInv
<1> SUFFICES ASSUME VerInit PROVE VerInv
  OBVIOUS
<1>1. PICK e \in [UserId -> ValidEmail] :
          users = [u \in UserId |->
                      [email |-> e[u], provider |-> "password",
                       sub |-> NoSub, verified |-> FALSE]]
  BY DEF VerInit, NewAccounts
<1>2. StoreTypeOK
  <2>1. IsTable(users, UserId, UserRow)
    BY <1>1, EmailAssumption DEF IsTable, UserRow, Providers
  <2>2. IsTable(creds, UserId, Password) /\ IsTable(tokens, TokenId, TokenRow)
    BY DEF VerInit, NewAccounts, IsTable
  <2> QED
    BY <2>1, <2>2, FaultAssumption DEF VerInit, NewAccounts, StoreTypeOK
<1>3. /\ DOMAIN tokens = {}
      /\ \A u \in DOMAIN users : ~ users[u].verified
  BY <1>1 DEF VerInit, NewAccounts
<1> QED
  BY <1>2, <1>3, NoRequestsYet DEF VerInit

(* The verification service keeps its invariant when it runs by itself.    *)
THEOREM VerInvariance == VerSpec => []VerInv
<1>1. VerInv /\ [VerNext]_verVars => VerInv'
  <2> SUFFICES ASSUME VerInv, [VerNext]_verVars PROVE VerInv'
    OBVIOUS
  <2>1. CASE VerNext
    BY <2>1, VerStepKeeps, AccountDeletedKeeps, TickKeeps DEF VerNext
  <2>2. CASE UNCHANGED verVars
    BY <2>2
       DEF verVars, storeVars, VerInv, VerTypeOK, StoreTypeOK, VerifiedByLink,
           OneConfirmer, UsedBeforeExpiry, NoOrphanTokens, TokensFresh,
           ConfirmsOwnToken
  <2> QED
    BY <2>1, <2>2
<1> QED
  BY VerInvInit, <1>1, PTL DEF VerSpec
=============================================================================
