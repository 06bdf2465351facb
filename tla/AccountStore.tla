---------------------------- MODULE AccountStore ----------------------------
(***************************************************************************)
(* The account tables of the database and the statements the repositories  *)
(* run on them: users, user_credentials and email_verification_tokens,     *)
(* with the constraints the migrations declare.  Every statement of the    *)
(* code is one SQL statement (or one transaction) and is atomic here.      *)
(*                                                                         *)
(* An email is a member of RawEmail, as a client or Google spells it;      *)
(* Lower is what strings.ToLower(strings.TrimSpace(_)) makes of it.        *)
(***************************************************************************)
EXTENDS Naturals

CONSTANTS
    UserId,        \* ids the UUID generator can hand out (a bound)
    NoUser,        \* "no id yet" in the memory of a request
    RawEmail,      \* emails as they are spelled in requests
    NoEmail,
    Lower,         \* RawEmail -> RawEmail: lower-cased, without outer blanks
    ValidEmail,    \* the normalised emails that net/mail accepts as they are
    NulEmail,      \* emails with a U+0000, which no text of Postgres can hold
    Sub,           \* 'sub' claims of Google identities
    NoSub,         \* google_sub IS NULL
    Password,
    NoPassword,
    PasswordLen,   \* Password -> Nat: its length in bytes
    TokenId,       \* ids (and hashes) of verification tokens (a bound)
    NotUsed,       \* used_at IS NULL
    LegacyId,      \* ids of accounts that may be older than migration 0003
    MaxFaults      \* infrastructure failures in a behaviour (a bound)

ASSUME EmailAssumption ==
    /\ Lower \in [RawEmail -> RawEmail]
    /\ \A e \in RawEmail : Lower[Lower[e]] = Lower[e]
    /\ ValidEmail \subseteq RawEmail
    /\ \A e \in ValidEmail : Lower[e] = e
    /\ NulEmail \subseteq RawEmail \ ValidEmail
    /\ \A e \in RawEmail : Lower[e] \in NulEmail <=> e \in NulEmail
    /\ NoEmail \notin RawEmail

ASSUME IdentityAssumption ==
    /\ NoUser \notin UserId
    /\ NoSub \notin Sub
    /\ LegacyId \subseteq UserId

ASSUME PasswordAssumption ==
    /\ PasswordLen \in [Password -> Nat]
    /\ NoPassword \notin Password

ASSUME TokenAssumption == NotUsed \notin Nat

ASSUME FaultAssumption == MaxFaults \in Nat

VARIABLES
    users,      \* table users: id -> row
    creds,      \* table user_credentials: user_id -> (hash of) the password
    tokens,     \* table email_verification_tokens: id -> row
    usedIds,    \* every id the generator has handed out: it repeats none
    sessions,   \* users with an access token that has not expired
    faults      \* infrastructure failures that may still happen

tables == <<users, creds, tokens>>

storeVars == <<users, creds, tokens, usedIds, sessions, faults>>

-----------------------------------------------------------------------------
(* Rows and tables.                                                        *)

Providers == {"google", "password"}

UserRow ==
    [email : RawEmail, provider : Providers, sub : Sub \cup {NoSub},
     verified : BOOLEAN]

TokenRow == [user : UserId, expires : Nat, usedAt : Nat \cup {NotUsed}]

IsTable(t, K, R) == DOMAIN t \subseteq K /\ t \in [DOMAIN t -> R]

InsertRow(t, k, row) ==
    [x \in DOMAIN t \cup {k} |-> IF x = k THEN row ELSE t[x]]

DeleteRows(t, K) == [x \in DOMAIN t \ K |-> t[x]]

StoreTypeOK ==
    /\ IsTable(users, UserId, UserRow)
    /\ IsTable(creds, UserId, Password)
    /\ IsTable(tokens, TokenId, TokenRow)
    /\ usedIds \subseteq UserId \cup TokenId
    /\ sessions \subseteq UserId
    /\ faults \in 0 .. MaxFaults

-----------------------------------------------------------------------------
(* Reads.  The unique indexes leave at most one row in each of these sets. *)

UserByEmail(e) == {u \in DOMAIN users : Lower[users[u].email] = Lower[e]}

UserBySub(s) == {u \in DOMAIN users : users[u].sub = s}

-----------------------------------------------------------------------------
(* Writes.                                                                 *)

(* Mutant: an id that is free in the table may be handed out again.        *)
NewID_Reused(i) == i \notin DOMAIN users \cup DOMAIN tokens

NewID(i) == i \notin usedIds

(* Mutant: migration 0003 without UNIQUE on google_sub.                    *)
Violated_EmailOnly(row) ==
    {c \in {"users_email_lower_uniq"} : \E u \in DOMAIN users :
        Lower[users[u].email] = Lower[row.email]}

(* The unique indexes an INSERT of row violates.  Postgres reports one of  *)
(* them; migration 0001 declares the first and 0003 the second.            *)
Violated(row) ==
    {c \in {"users_email_lower_uniq", "users_google_sub_key"} :
        \E u \in DOMAIN users :
            \/ /\ c = "users_email_lower_uniq"
               /\ Lower[users[u].email] = Lower[row.email]
            \/ /\ c = "users_google_sub_key"
               /\ row.sub # NoSub
               /\ users[u].sub = row.sub}

(* Mutant: the same, for UPDATE.                                           *)
SubTaken_Never(u, s) == FALSE

(* UPDATE users SET google_sub = s WHERE id = u: unconditional on the old  *)
(* value.                                                                  *)
SubTaken(u, s) == \E v \in DOMAIN users \ {u} : users[v].sub = s

SetSub(u, s) == users' = [users EXCEPT ![u].sub = s]

SetVerified(u) == users' = [users EXCEPT ![u].verified = TRUE]

(* Mutant: the credential does not cascade.                                *)
DeleteUser_KeepsCredential(u) ==
    /\ users' = DeleteRows(users, {u})
    /\ tokens' = DeleteRows(tokens, {t \in DOMAIN tokens : tokens[t].user = u})
    /\ UNCHANGED creds

(* DELETE FROM users WHERE id = u, with the two ON DELETE CASCADE.         *)
DeleteUser(u) ==
    /\ users' = DeleteRows(users, {u})
    /\ creds' = DeleteRows(creds, {u})
    /\ tokens' = DeleteRows(tokens, {t \in DOMAIN tokens : tokens[t].user = u})

-----------------------------------------------------------------------------
(* The database after the migrations: some Google accounts that were       *)
(* created by email, before 0003 added google_sub; 0004 verified them.     *)

LegacyRow(e) ==
    [email |-> e, provider |-> "google", sub |-> NoSub, verified |-> TRUE]

StoreInit ==
    /\ \E L \in SUBSET LegacyId : \E e \in [L -> ValidEmail] :
          /\ \A u, v \in L : e[u] = e[v] => u = v
          /\ users = [u \in L |-> LegacyRow(e[u])]
          /\ usedIds = L
    /\ creds = [u \in {} |-> NoPassword]
    /\ tokens = [t \in {} |-> NoUser]
    /\ sessions = {}
    /\ faults = MaxFaults
=============================================================================
