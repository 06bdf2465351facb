------------------------------ MODULE Backend -------------------------------
(***************************************************************************)
(* The account service and the event service on one database.  The user of *)
(* an event request is that of an access token AuthService issued; an      *)
(* event belongs to a row of users, and goes with it when DeleteAccount    *)
(* removes that row, whatever event requests of the account are under way  *)
(* and whoever registers the email next.                                   *)
(*                                                                         *)
(* The properties are those of EventService, here with accounts that are   *)
(* opened and closed by AuthService: what EventService calls accounts is   *)
(* the domain of its users.                                                *)
(***************************************************************************)
EXTENDS AuthService, EventService

ASSUME BackendAssumption == User = UserId

(* The variables only the event service reads and writes.                  *)
eventOnly == <<events, issued, removed, ereq, eanswer, now, outages>>

backendVars == <<authVars, accounts, eventOnly>>

BackendInit == AuthInit /\ EventInit /\ accounts = DOMAIN users

(* Mutant: events.user_id without ON DELETE CASCADE (and without the check *)
(* that would refuse the deletion).                                        *)
Cascade_Never ==
    /\ accounts' = DOMAIN users'
    /\ eanswer' = ENoAnswer
    /\ UNCHANGED <<events, issued, removed, ereq, now, outages>>

(* events_user_id_fk: the events go with the row of users.                 *)
Cascade ==
    /\ accounts' = DOMAIN users'
    /\ \/ /\ accounts \subseteq accounts'
          /\ eanswer' = ENoAnswer
          /\ UNCHANGED <<events, issued, removed, ereq, now, outages>>
       \/ \E u \in accounts \ accounts' : AccountDeleted(u)

(* authMiddleware: the user of a token that is still good, whether the     *)
(* account is there or not.                                                *)
AuthMiddleware == sessions

EventStep ==
    \E r \in EventRequest :
        \/ \E u \in AuthMiddleware : Arrives(r, u)
        \/ Resumes(r)

BackendNext ==
    \/ AuthNext /\ Cascade
    \/ /\ UNCHANGED <<storeVars, req>>
       /\ answer' = NoAnswer
       /\ EventStep \/ ETick

BackendSpec == BackendInit /\ [][BackendNext]_backendVars

-----------------------------------------------------------------------------
(* Each service keeps its invariant while the other works on the same      *)
(* database, and the events belong to accounts that are there.             *)
BackendInv == AuthInv /\ EventInv /\ accounts = DOMAIN users
=============================================================================
