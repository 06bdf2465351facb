--------------------------- MODULE Backend_proofs ---------------------------
(***************************************************************************)
(* The account service and the event service keep their invariants on one  *)
(* database, for any number of accounts, events and requests in flight of  *)
(* both, and what the event service promises holds while accounts are      *)
(* opened and closed under its requests.                                   *)
(***************************************************************************)
EXTENDS Backend, AuthService_proofs, EventService_proofs

(* What a step of the account service does to the event service: accounts  *)
(* come, at most one in a step, or one goes with its events.               *)
AccountsGrow ==
    /\ \/ accounts' = accounts
       \/ \E u \in User \ accounts : accounts' = accounts \cup {u}
    /\ eanswer' = ENoAnswer
    /\ UNCHANGED <<events, issued, removed, ereq, now, outages>>

(* A step creates one account, deletes one, or neither.                    *)
LEMMA OneAccountAStep ==
    ASSUME AuthInv, AuthNext
    PROVE  \/ DOMAIN users' = DOMAIN users
           \/ \E u \in UserId \ DOMAIN users :
                 DOMAIN users' = DOMAIN users \cup {u}
           \/ \E u \in DOMAIN users : DOMAIN users' = DOMAIN users \ {u}
<1>1. ASSUME NEW u \in UserId, Expire(u)
      PROVE  users' = users
  BY <1>1 DEF Expire, tables
<1>2. ASSUME NEW r \in Request,
             WritesPassword(r) \/ WritesGoogle(r)
      PROVE  \E u \in UserId \ DOMAIN users :
                DOMAIN users' = DOMAIN users \cup {u}
  BY <1>2 DEF WritesPassword, WritesGoogle, InsertRow
<1>3. ASSUME NEW r \in Request, WritesSub(r) \/ ClearsSub(r)
      PROVE  DOMAIN users' = DOMAIN users
  BY <1>3 DEF WritesSub, ClearsSub, SetSub
<1>4. ASSUME NEW u \in DOMAIN users, DeleteUser(u)
      PROVE  DOMAIN users' = DOMAIN users \ {u}
  BY <1>4 DEF DeleteUser, DeleteRows
<1> QED
  BY <1>1, <1>2, <1>3, <1>4, StepWrites DEF AuthNext

(* What a step of the account service is to the event service.             *)
LEMMA AccountStep ==
    ASSUME BackendInv, AuthNext, Cascade
    PROVE  AccountsGrow \/ \E u \in User : AccountDeleted(u)
<1>1. accounts = DOMAIN users /\ accounts' = DOMAIN users'
  BY DEF BackendInv, Cascade
<1>2. \/ accounts' = accounts
      \/ \E u \in User \ accounts : accounts' = accounts \cup {u}
      \/ \E u \in accounts : accounts' = accounts \ {u}
  BY <1>1, OneAccountAStep, BackendAssumption DEF BackendInv
<1>3. accounts \subseteq User
  BY DEF BackendInv, EventInv, EventTypeOK
<1>4. CASE \E u \in accounts \ accounts' : AccountDeleted(u)
  BY <1>3, <1>4
<1>5. CASE accounts \subseteq accounts' /\ eanswer' = ENoAnswer
           /\ UNCHANGED <<events, issued, removed, ereq, now, outages>>
  BY <1>2, <1>5 DEF AccountsGrow
<1> QED
  BY <1>4, <1>5 DEF Cascade

(* A step of the event service is one of the steps EventService describes, *)
(* since the user of a token is a user the generator has named.            *)
LEMMA EventStepIsOne ==
    ASSUME BackendInv, EventStep
    PROVE  \E r \in EventRequest :
              (\E u \in User : Arrives(r, u)) \/ Resumes(r)
<1>1. AuthMiddleware \subseteq User
  BY BackendAssumption DEF BackendInv, AuthInv, AuthTypeOK, StoreTypeOK,
     AuthMiddleware
<1> QED
  BY <1>1 DEF EventStep

(* A step of BackendNext, as the event service sees it.                    *)
LEMMA BackendStep ==
    ASSUME BackendInv, BackendNext
    PROVE  \/ AccountsGrow
           \/ \E u \in User : AccountDeleted(u)
           \/ \E r \in EventRequest :
                 (\E u \in User : Arrives(r, u)) \/ Resumes(r)
           \/ ETick
BY AccountStep, EventStepIsOne DEF BackendNext

(* Requests and the clock leave the accounts alone.                        *)
LEMMA EventsLeaveAccounts ==
    ASSUME BackendInv, EventStep \/ ETick
    PROVE  UNCHANGED accounts
BY EventStepIsOne, HowEventsChange DEF BackendInv, ETick

-----------------------------------------------------------------------------
(* The invariant.                                                          *)

(* A response of the account service that is over.                         *)
LEMMA AuthRests ==
    ASSUME AuthInv, UNCHANGED <<storeVars, req>>, answer' = NoAnswer
    PROVE  AuthInv'
<1>1. NoAnswer \in Response
  BY DEF NoAnswer, Response, Op, Code
<1> QED
  BY <1>1 DEF storeVars, AuthInv, AuthTypeOK, StoreTypeOK, EmailsCanonical,
     UniqueKeys, CredentialsMatchProvider, IdsOK, MemoryOK

(* It holds at the start.                                                  *)
LEMMA BackendInvInit == BackendInit => BackendInv
BY InvInit, EventInvInit DEF BackendInit, BackendInv

(* Every step of either service keeps it.                                  *)
LEMMA BackendInvNext ==
    BackendInv /\ [BackendNext]_backendVars => BackendInv'
<1> SUFFICES ASSUME BackendInv, [BackendNext]_backendVars
             PROVE  BackendInv'
  OBVIOUS
<1>1. AuthInv /\ EventInv /\ accounts = DOMAIN users
  BY DEF BackendInv
<1>2. CASE AuthNext /\ Cascade
  <2>1. AuthInv'
    BY <1>1, <1>2, InvNext
  <2>2. accounts' = DOMAIN users'
    BY <1>2 DEF Cascade
  <2>3. CASE AccountsGrow
    <3>1. accounts \subseteq accounts' /\ accounts' \subseteq User
      BY <1>1, <2>3 DEF AccountsGrow, EventInv, EventTypeOK
    <3>2. EventInv'
      BY <1>1, <2>3, <3>1, AccountsGrowKeepsEvents DEF AccountsGrow
    <3> QED
      BY <2>1, <2>2, <3>2 DEF BackendInv
  <2>4. ASSUME NEW u \in User, AccountDeleted(u)
        PROVE  BackendInv'
    BY <1>1, <2>1, <2>2, <2>4, AccountDeletedKeepsEvents DEF BackendInv
  <2> QED
    BY <1>2, <2>3, <2>4, AccountStep
<1>3. CASE /\ UNCHANGED <<storeVars, req>> /\ answer' = NoAnswer
           /\ EventStep \/ ETick
  <2>1. AuthInv'
    BY <1>1, <1>3, AuthRests
  <2>2. EventInv'
    BY <1>1, <1>3, EventStepIsOne, EventStepKeeps, ETickKeeps
  <2>3. accounts' = accounts /\ DOMAIN users' = DOMAIN users
    BY <1>3, EventsLeaveAccounts DEF storeVars
  <2> QED
    BY <1>1, <2>1, <2>2, <2>3 DEF BackendInv
<1>4. CASE UNCHANGED backendVars
  BY <1>1, <1>4, InvNext, EventInvNext
     DEF BackendInv, backendVars, eventOnly, authVars, eventVars, storeVars
<1> QED
  BY <1>2, <1>3, <1>4 DEF BackendNext

(* Both services keep their invariants on one database, and the accounts   *)
(* that events refer to are the rows of users at every moment.             *)
THEOREM BackendInvariance == BackendSpec => []BackendInv
BY BackendInvInit, BackendInvNext, PTL DEF BackendSpec

(* An id whose event was deleted, by its owner or with its account, never  *)
(* names an event again, whoever registers the email next.                 *)
THEOREM BackendDeletedForGood == BackendSpec => []DeletedStaysDeleted
<1>1. BackendInv => DeletedStaysDeleted
  BY DEF BackendInv, EventInv
<1> QED
  BY <1>1, BackendInvariance, PTL

-----------------------------------------------------------------------------
(* The properties.                                                         *)

(* With accounts that come and go, only an event's owner touches it.       *)
THEOREM BackendOwnersOnly == BackendSpec => OnlyItsOwner
<1>1. BackendInv /\ [BackendNext]_backendVars => [MovedByOwner]_eventVars
  <2> SUFFICES ASSUME BackendInv, BackendNext
               PROVE  MovedByOwner
    BY DEF backendVars, eventOnly, eventVars
  <2>1. EventInv
    BY DEF BackendInv
  <2>2. AccountsGrow \/ ETick => MovedByOwner
    BY DEF AccountsGrow, ETick, MovedByOwner
  <2> QED
    BY <2>1, <2>2, BackendStep, RequestsMoveTheirOwn, CascadeMovesItsOwn
<1> QED
  BY <1>1, BackendInvariance, PTL DEF BackendSpec, OnlyItsOwner, MovedByOwner

(* A token that outlives its account shows no events, be the account gone  *)
(* before the request or during it.                                        *)
THEOREM BackendOwnEventsOnly == BackendSpec => ShowsOwnEvents
<1>1. BackendInv /\ [BackendNext]_backendVars => [ShowsOwn]_eventVars
  <2> SUFFICES ASSUME BackendInv, BackendNext
               PROVE  ShowsOwn
    BY DEF backendVars, eventOnly, eventVars
  <2>1. EventInv
    BY DEF BackendInv
  <2>2. eanswer' = ENoAnswer => ShowsOwn
    BY DEF ENoAnswer, ShowsOwn
  <2>3. AccountsGrow \/ ETick \/ (\E u \in User : AccountDeleted(u))
           => eanswer' = ENoAnswer
    BY DEF AccountsGrow, ETick, AccountDeleted
  <2> QED
    BY <2>1, <2>2, <2>3, BackendStep, RequestsShowOwn
<1> QED
  BY <1>1, BackendInvariance, PTL DEF BackendSpec, ShowsOwnEvents, ShowsOwn

(* A 500 of the event service tells of a failure, of an account that is    *)
(* gone or of a statement that would have taken an id that is no UUID or a *)
(* text with a U+0000, also when accounts come and go.                     *)
THEOREM BackendErrorsAreJustified == BackendSpec => NoSpuriousEventError
<1>1. BackendInv /\ [BackendNext]_backendVars => [ErrorIsJustified]_eventVars
  <2> SUFFICES ASSUME BackendInv, BackendNext
               PROVE  ErrorIsJustified
    BY DEF backendVars, eventOnly, eventVars
  <2>1. EventInv
    BY DEF BackendInv
  <2>2. eanswer' = ENoAnswer => ErrorIsJustified
    BY DEF ENoAnswer, ErrorIsJustified
  <2>3. AccountsGrow \/ ETick \/ (\E u \in User : AccountDeleted(u))
           => eanswer' = ENoAnswer
    BY DEF AccountsGrow, ETick, AccountDeleted
  <2> QED
    BY <2>1, <2>2, <2>3, BackendStep, RequestsJustifyErrors
<1> QED
  BY <1>1, BackendInvariance, PTL
     DEF BackendSpec, NoSpuriousEventError, ErrorIsJustified

(* Registrations open accounts in the book of events one at a time.        *)
LEMMA GrowthOpens ==
    ASSUME AccountsGrow
    PROVE  [Book!Next]_(Book!bookVars)
<1>1. ASSUME NEW u \in User \ accounts, accounts' = accounts \cup {u}
      PROVE  Book!Next
  <2>1. Book!Open(u)
    BY <1>1 DEF AccountsGrow, Book!Open
  <2> QED
    BY <2>1 DEF Book!Next
<1>2. CASE accounts' = accounts
  BY <1>2 DEF AccountsGrow, Book!bookVars
<1> QED
  BY <1>1, <1>2 DEF AccountsGrow

(* The two services together implement the book of events, in which        *)
(* closing an account takes all of its events away in one step.            *)
THEOREM BackendRefinement == BackendSpec => ImplementsEventBook
<1>1. BackendInit => Book!Init
  BY DEF BackendInit, EventInit, Book!Init
<1>2. BackendInv /\ [BackendNext]_backendVars => [Book!Next]_(Book!bookVars)
  <2> SUFFICES ASSUME BackendInv, [BackendNext]_backendVars
               PROVE  [Book!Next]_(Book!bookVars)
    OBVIOUS
  <2>1. EventInv
    BY DEF BackendInv
  <2>2. CASE UNCHANGED backendVars \/ ETick
    BY <2>2 DEF backendVars, eventOnly, ETick, Book!bookVars
  <2>3. CASE BackendNext
    BY <2>1, <2>2, <2>3, BackendStep, GrowthOpens, RequestsKeepTheBook,
       CascadeCloses
  <2> QED
    BY <2>2, <2>3
<1> QED
  BY <1>1, <1>2, BackendInvariance, PTL
     DEF BackendSpec, ImplementsEventBook, Book!Spec
=============================================================================
