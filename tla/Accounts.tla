------------------------------ MODULE Accounts ------------------------------
(***************************************************************************)
(* The two services on the same tables: accounts come and go (AuthService) *)
(* while their emails are being verified (VerificationService).            *)
(***************************************************************************)
EXTENDS AuthService, VerificationService

accountsVars == <<authVars, vreq, vanswer, mailbox, clock>>

AccountsInit == AuthInit /\ VInit

AccountsNext ==
    \/ /\ AuthNext
       /\ vanswer' = VNoAnswer
       /\ UNCHANGED <<vreq, mailbox, clock>>
    \/ /\ (\E r \in VRequest : VerStep(r)) \/ Tick
       /\ answer' = NoAnswer
       /\ UNCHANGED req

AccountsSpec == AccountsInit /\ [][AccountsNext]_accountsVars
-----------------------------------------------------------------------------
(* What the verification of an email remembers is never the id of an       *)
(* account that is still to be created: ids do not come back.              *)
NoIdReturns ==
    \A r \in VRequest :
        /\ vreq[r].uid \in usedIds \cup {NoUser}
        /\ \A s \in Request : Creating(req[s]) => req[s].uid # vreq[r].uid

(* Each service keeps its own invariant while the other works on the same  *)
(* tables.                                                                 *)
AccountsInv == AuthInv /\ VerInv /\ NoIdReturns
=============================================================================
