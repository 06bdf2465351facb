-------------------------- MODULE AccessDirectory ---------------------------
(***************************************************************************)
(* What the account service promises, whatever its requests interleave to: *)
(* a directory of accounts, each with the keys that open it.  A key is a   *)
(* password or a Google identity.  Accounts appear whole, no two accounts  *)
(* share an email or a Google identity, an account has one Google identity *)
(* at most, and loses it only while a password still opens it.             *)
(***************************************************************************)
CONSTANTS AccountId, EmailAddress, PasswordKey, GoogleKey

VARIABLE entry      \* account -> [email, origin, keys]

EmailInUse(e) == \E a \in DOMAIN entry : entry[a].email = e

Opens(k, A) == \E a \in A : k \in entry[a].keys

(* Accounts older than the identities: of Google origin and without a key. *)
Init ==
    \E A \in SUBSET AccountId : \E e \in [A -> EmailAddress] :
        /\ \A a, b \in A : e[a] = e[b] => a = b
        /\ entry = [a \in A |-> [email |-> e[a], origin |-> "google",
                                 keys |-> {}]]

OpenWith(a, e, o, k) ==
    /\ a \notin DOMAIN entry
    /\ ~ EmailInUse(e)
    /\ entry' = [x \in DOMAIN entry \cup {a} |->
                    IF x = a
                    THEN [email |-> e, origin |-> o, keys |-> {k}]
                    ELSE entry[x]]

OpenWithPassword(a, e, k) == OpenWith(a, e, "password", k)

OpenWithGoogle(a, e, k) ==
    /\ ~ Opens(k, DOMAIN entry)
    /\ OpenWith(a, e, "google", k)

(* The account's Google identity is k from now on.                         *)
Attach(a, k) ==
    /\ a \in DOMAIN entry
    /\ ~ Opens(k, DOMAIN entry \ {a})
    /\ entry' = [entry EXCEPT ![a].keys = (@ \ GoogleKey) \cup {k}]

Detach(a) ==
    /\ a \in DOMAIN entry
    /\ entry[a].keys \cap PasswordKey # {}
    /\ entry' = [entry EXCEPT ![a].keys = @ \ GoogleKey]

Close(a) ==
    /\ a \in DOMAIN entry
    /\ entry' = [x \in DOMAIN entry \ {a} |-> entry[x]]

Next ==
    /\ entry' # entry
    /\ \E a \in AccountId :
          \/ \E e \in EmailAddress :
                \/ \E k \in PasswordKey : OpenWithPassword(a, e, k)
                \/ \E k \in GoogleKey : OpenWithGoogle(a, e, k)
          \/ \E k \in GoogleKey : Attach(a, k)
          \/ Detach(a)
          \/ Close(a)

Spec == Init /\ [][Next]_entry
=============================================================================
